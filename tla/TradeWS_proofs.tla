--------------------------- MODULE TradeWS_proofs ---------------------------
(***************************************************************************)
(* The writer's token of WebSocketClient, its way back to a connection,    *)
(* and what becomes of an order that is sent over it, for any number of    *)
(* senders, any queue length and any number of failures, reconnections     *)
(* and REST attempts.                                                      *)
(***************************************************************************)
EXTENDS TradeWS, TLAPS

Msgs == Senders \cup {Auth}

AtQueue == strand \in {"pop", "release"}

\* OneWriter without arithmetic: nobody holds the token, or just one does.
OneHolder ==
  \/ ~is_writing_ /\ ~posted /\ ~Writing /\ ~AtQueue
  \/ is_writing_ /\ posted /\ ~Writing /\ ~AtQueue
  \/ is_writing_ /\ ~posted /\ Writing /\ ~AtQueue
  \/ is_writing_ /\ ~posted /\ ~Writing /\ AtQueue

\* What the token's accounting rests on: real messages are queued, so that a
\* write under way is told from none.
Tokens ==
  /\ posted \in BOOLEAN /\ is_writing_ \in BOOLEAN
  /\ inflight \in [msg : Msgs \cup {NoMsg}, doomed : BOOLEAN]
  /\ write_queue_ \in Seq(Msgs)
  /\ sender \in [Senders -> [pc : {"out", "check", "push", "kick"},
                             msg : Msgs \cup {NoMsg}]]
  /\ \A p \in Senders : sender[p].pc # "out" => sender[p].msg \in Msgs
  /\ OneHolder

writer == <<strand, posted, write_queue_, is_writing_, inflight, sender>>

LEMMA MsgsReal == NoMsg \notin Msgs
  BY ClientAssumption, TradeAssumption DEF Msgs

LEMMA TokensUnchanged ==
  ASSUME Tokens, UNCHANGED writer PROVE Tokens'
  BY DEF Tokens, writer, OneHolder, AtQueue, Writing, NoWrite

\* send(), from its first line to the exchange of the token
LEMMA TokensSend ==
  ASSUME Tokens, NEW p \in Senders,
         send(p, p) \/ send_check(p) \/ send_push(p) \/ send_kick(p)
  PROVE  Tokens'
<1>1. CASE send(p, p)
  BY <1>1 DEF send, writeVars, Tokens, OneHolder, AtQueue, Writing, NoWrite, Msgs
<1>2. CASE send_check(p)
  BY <1>2 DEF send_check, writeVars, Tokens, OneHolder, AtQueue, Writing,
              NoWrite, Quiet
<1>3. CASE send_push(p)
  <2>1. sender[p].msg \in Msgs
    BY <1>3 DEF send_push, Tokens
  <2>2. write_queue_' \in Seq(Msgs)
    BY <1>3, <2>1, SMTT(40) DEF send_push, Tokens
  <2>3. /\ sender' \in [Senders -> [pc : {"out", "check", "push", "kick"},
                                    msg : Msgs \cup {NoMsg}]]
        /\ \A q \in Senders : sender'[q].pc # "out" => sender'[q].msg \in Msgs
    BY <1>3, <2>1, SMTT(40) DEF send_push, Tokens, Quiet
  <2> QED
    BY <1>3, <2>2, <2>3 DEF send_push, Tokens, OneHolder, AtQueue, Writing, NoWrite
<1>4. CASE send_kick(p)
  BY <1>4 DEF send_kick, Idle, Tokens, OneHolder, AtQueue, Writing, NoWrite, Quiet
<1> QED
  BY <1>1, <1>2, <1>3, <1>4

\* do_write and its completion handlers
LEMMA TokensDrain == 
  ASSUME Tokens, Draining PROVE Tokens'
<1> USE DEF Tokens, OneHolder, AtQueue, Writing, NoWrite
<1>1. CASE callback_kick
  BY <1>1 DEF callback_kick
<1>2. CASE do_write
  BY <1>2 DEF do_write, StrandFree
<1>3. CASE do_write_pop
  <2>1. CASE write_queue_ = <<>>
    BY <1>3, <2>1 DEF do_write_pop
  <2>2. CASE write_queue_ # <<>>
    <3>1. Head(write_queue_) \in Msgs /\ Tail(write_queue_) \in Seq(Msgs)
      BY <2>2
    <3>2. /\ strand = "pop" /\ strand' = "free"
          /\ inflight' = [msg |-> Head(write_queue_), doomed |-> phase # "open"]
          /\ write_queue_' = Tail(write_queue_)
          /\ UNCHANGED <<posted, is_writing_, sender>>
      BY <1>3, <2>2 DEF do_write_pop
    <3>3. inflight' # NoWrite /\ inflight'.msg \in Msgs
      BY <3>1, <3>2, MsgsReal
    <3>4. inflight' \in [msg : Msgs \cup {NoMsg}, doomed : BOOLEAN]
      BY <3>1, <3>2
    <3> QED
      BY <3>1, <3>2, <3>3, <3>4
  <2> QED
    BY <2>1, <2>2
<1>4. CASE do_write_release
  BY <1>4 DEF do_write_release
<1>5. CASE do_write_recheck
  BY <1>5 DEF do_write_recheck, AfterRecheck
<1>6. CASE do_write_reacquire
  BY <1>6 DEF do_write_reacquire
<1>7. CASE on_write_error
  BY <1>7 DEF on_write_error, StrandFree
<1> QED
  BY <1>1, <1>2, <1>3, <1>4, <1>5, <1>6, <1>7 DEF Draining

\* the stream's other handlers; a replaced stream leaves its write doomed
LEMMA TokensStream ==
  ASSUME Tokens, Stream PROVE Tokens'
<1> USE DEF Tokens, OneHolder, AtQueue, Writing, NoWrite
<1>1. CASE Resolved
  BY <1>1 DEF Resolved, on_resolve
<1>2. CASE HandshakeDone
  BY <1>2 DEF HandshakeDone, on_handshake, StrandIdle, StrandFree
<1>3. CASE authenticate
  <2>1. /\ strand = "callback"
        /\ \/ write_queue_' = Append(write_queue_, Auth) /\ strand' = "kick"
           \/ write_queue_' = write_queue_ /\ strand' = "free"
        /\ UNCHANGED <<posted, is_writing_, inflight, sender>>
    BY <1>3 DEF authenticate, callback_push
  <2>2. write_queue_' \in Seq(Msgs)
    BY <2>1 DEF Msgs
  <2> QED
    BY <2>1, <2>2
<1>4. CASE Written
  BY <1>4 DEF Written, on_write, StrandFree
<1>5. CASE Connect \/ ReadClosed \/ ReadError \/ Closed \/ on_message
  <2>1. UNCHANGED writer
    BY <1>5 DEF Connect, connect, ReadClosed, on_read_closed, ReadError,
                on_read_error, Closed, on_close, on_message, writeVars,
                wsVars, writer
  <2> QED
    BY <2>1, TokensUnchanged
<1> QED
  BY <1>1, <1>2, <1>3, <1>4, <1>5 DEF Stream

LEMMA TokensStep == Tokens /\ [Next]_vars => Tokens'
<1> SUFFICES ASSUME Tokens, [Next]_vars PROVE Tokens'
  OBVIOUS
<1>1. CASE Internal
  <2>1. CASE Attempting
    <3>1. UNCHANGED writer
      BY <2>1 DEF Attempting, on_reconnect_timer, on_resolve_error,
                  on_connect, on_ssl_handshake, attempt_error, writeVars, writer
    <3> QED
      BY <3>1, TokensUnchanged
  <2> QED
    BY <1>1, <2>1, TokensDrain DEF Internal
<1>2. CASE Stream
  BY <1>2, TokensStream
<1>3. ASSUME NEW c \in Callers, Calling(c) PROVE Tokens'
  <2>1. CASE Sending(c) \/ Emplace(c)
    BY <2>1, TokensSend DEF Sending, Emplace, Callers
  <2>2. CASE ~(Sending(c) \/ Emplace(c))
    <3>1. UNCHANGED writer
      BY <1>3, <2>2 DEF Calling, open_short, GetResult, Timeout,
           EraseTimedOut, RestFilled, RestRefused, RestBroken, wsVars,
           writeVars, writer
    <3> QED
      BY <3>1, TokensUnchanged
  <2> QED
    BY <2>1, <2>2
<1>4. CASE Disconnect \/ Venue \/ UNCHANGED vars
  <2>1. UNCHANGED writer
    BY <1>4 DEF Disconnect, disconnect, Venue, VenueAccepts, VenueRefuses,
                VenueLoses, vars, wsVars, writeVars, writer
  <2> QED
    BY <2>1, TokensUnchanged
<1> QED
  BY <1>1, <1>2, <1>3, <1>4 DEF Next

LEMMA TokensInit == Init => Tokens
<1> SUFFICES ASSUME Init PROVE Tokens
  OBVIOUS
<1>1. /\ inflight \in [msg : Msgs \cup {NoMsg}, doomed : BOOLEAN]
      /\ sender \in [Senders -> [pc : {"out", "check", "push", "kick"},
                                 msg : Msgs \cup {NoMsg}]]
      /\ \A p \in Senders : sender[p].pc = "out"
      /\ write_queue_ \in Seq(Msgs)
  BY DEF Init, WsInit, NoWrite, Quiet
<1>2. posted = FALSE /\ is_writing_ = FALSE /\ OneHolder
  BY DEF Init, WsInit, OneHolder, AtQueue, Writing
<1> QED
  BY <1>1, <1>2 DEF Tokens

\* is_writing_ is held exactly while one do_write is dispatched, running or
\* waiting for its write: no two writes are ever outstanding on the stream
\* (send, do_write, on_write), whatever reconnects meanwhile.
THEOREM WriterUnique == Spec => []OneWriter
<1>1. Tokens => OneWriter
  <2> SUFFICES ASSUME OneHolder PROVE OneWriter
    BY DEF Tokens
  <2> QED
    BY DEF OneHolder, AtQueue, OneWriter, Holders
<1> QED
  BY <1>1, TokensInit, TokensStep, PTL DEF Spec

-----------------------------------------------------------------------------
(* The queue.                                                              *)

Drains == HasRoom => QueueIsDrained

\* send() ends with a token, a kick to come, or a full queue
LEMMA DrainsSend ==
  ASSUME Tokens, Drains, NEW p \in Senders,
         send(p, p) \/ send_check(p) \/ send_push(p) \/ send_kick(p)
  PROVE  Drains'
<1>1. sender \in [Senders -> [pc : {"out", "check", "push", "kick"},
                              msg : Msgs \cup {NoMsg}]]
  BY DEF Tokens
<1>2. UNCHANGED <<state_, should_reconnect_, strand>>
  BY DEF send, send_check, send_push, send_kick, netVars, writeVars
<1>3. ASSUME UNCHANGED <<write_queue_, is_writing_>>, sender[p].pc # "kick",
             \A r \in Senders \ {p} : sender'[r] = sender[r]
      PROVE  Drains'
  BY <1>2, <1>3 DEF Drains, HasRoom, QueueIsDrained
<1>4. CASE send(p, p) \/ send_check(p)
  BY <1>1, <1>3, <1>4 DEF send, send_check, writeVars
<1>5. CASE send_push(p) /\ HasRoom
  <2>1. sender'[p].pc = "kick"
    BY <1>1, <1>5 DEF send_push
  <2> QED
    BY <2>1 DEF Drains, QueueIsDrained
<1>6. CASE send_push(p) /\ ~HasRoom
  BY <1>1, <1>3, <1>6 DEF send_push
<1>7. CASE send_kick(p)
  BY <1>7 DEF send_kick, Drains, QueueIsDrained
<1> QED
  BY <1>4, <1>5, <1>6, <1>7

\* The writer gives the token back with nothing queued, or with the
\* connection gone; the strand's other handlers do not end between the two.
LEMMA DrainsStrand ==
  ASSUME Tokens, Drains,
         \/ Draining \/ authenticate \/ on_handshake \/ on_write
  PROVE  Drains'
<1> USE DEF Drains, QueueIsDrained
<1>1. CASE callback_kick \/ do_write_reacquire
  BY <1>1 DEF callback_kick, do_write_reacquire
<1>2. CASE do_write \/ do_write_release \/ on_handshake \/ on_write
  BY <1>2 DEF do_write, do_write_release, on_handshake, on_write
<1>3. CASE do_write_pop
  BY <1>3 DEF do_write_pop, Tokens, OneHolder, AtQueue
<1>4. CASE do_write_recheck
  BY <1>4 DEF do_write_recheck, AfterRecheck
<1>5. CASE on_write_error
  BY <1>5 DEF on_write_error, reconnect
<1>6. CASE authenticate
  <2>1. /\ UNCHANGED state_
        /\ \/ strand' = "kick"
           \/ state_ # "Connected"
           \/ ~HasRoom /\ UNCHANGED write_queue_
    BY <1>6 DEF authenticate, callback_push, netVars
  <2> QED
    BY <2>1 DEF HasRoom
<1> QED
  BY <1>1, <1>2, <1>3, <1>4, <1>5, <1>6 DEF Draining

\* Nothing else touches the queue, and only a handshake connects.
LEMMA DrainsElse ==
  ASSUME Drains, UNCHANGED <<strand, write_queue_, is_writing_, sender>>,
         \/ state_' # "Connected"
         \/ ~should_reconnect_'
         \/ UNCHANGED <<state_, should_reconnect_>>
  PROVE  Drains'
  BY DEF Drains, HasRoom, QueueIsDrained

LEMMA DrainsStep == Tokens /\ Drains /\ [Next]_vars => Drains'
<1> SUFFICES ASSUME Tokens, Drains, [Next]_vars PROVE Drains'
  OBVIOUS
<1>1. ASSUME reconnect, UNCHANGED should_reconnect_
      PROVE  state_' # "Connected" \/ UNCHANGED <<state_, should_reconnect_>>
  BY <1>1 DEF reconnect
<1>2. CASE Internal
  <2>1. CASE Attempting
    <3>1. UNCHANGED <<strand, write_queue_, is_writing_, sender>>
      BY <2>1 DEF Attempting, on_reconnect_timer, on_resolve_error,
                  on_connect, on_ssl_handshake, attempt_error, writeVars
    <3>2. state_' # "Connected" \/ UNCHANGED <<state_, should_reconnect_>>
      BY <1>1, <2>1 DEF Attempting, on_reconnect_timer, on_resolve_error,
                        on_connect, on_ssl_handshake, attempt_error
    <3> QED
      BY <3>1, <3>2, DrainsElse
  <2> QED
    BY <1>2, <2>1, DrainsStrand DEF Internal
<1>3. CASE Stream
  <2>1. CASE HandshakeDone \/ authenticate \/ Written
    BY <2>1, DrainsStrand DEF HandshakeDone, Written
  <2>2. CASE Connect \/ Resolved \/ ReadClosed \/ ReadError \/ Closed \/ on_message
    <3>1. UNCHANGED <<strand, write_queue_, is_writing_, sender>>
      BY <2>2 DEF Connect, connect, Resolved, on_resolve, ReadClosed,
                  on_read_closed, ReadError, on_read_error, Closed, on_close,
                  on_message, writeVars, wsVars
    <3>2. state_' # "Connected" \/ UNCHANGED <<state_, should_reconnect_>>
      BY <1>1, <2>2 DEF Connect, connect, Resolved, on_resolve, ReadClosed,
                  on_read_closed, ReadError, on_read_error, Closed, on_close,
                  on_message, netVars, wsVars
    <3> QED
      BY <3>1, <3>2, DrainsElse
  <2> QED
    BY <1>3, <2>1, <2>2 DEF Stream
<1>4. ASSUME NEW c \in Callers, Calling(c) PROVE Drains'
  <2>1. CASE Sending(c) \/ Emplace(c)
    BY <2>1, DrainsSend DEF Sending, Emplace, Callers
  <2>2. CASE ~(Sending(c) \/ Emplace(c))
    <3>1. UNCHANGED <<strand, write_queue_, is_writing_, sender, state_, should_reconnect_>>
      BY <1>4, <2>2 DEF Calling, open_short, GetResult, Timeout,
           EraseTimedOut, RestFilled, RestRefused, RestBroken, wsVars,
           netVars, writeVars
    <3> QED
      BY <3>1, DrainsElse
  <2> QED
    BY <2>1, <2>2
<1>5. CASE Disconnect
  BY <1>5, DrainsElse DEF Disconnect, disconnect, writeVars
<1>6. CASE Venue \/ UNCHANGED vars
  <2>1. UNCHANGED <<strand, write_queue_, is_writing_, sender, state_, should_reconnect_>>
    BY <1>6 DEF Venue, VenueAccepts, VenueRefuses, VenueLoses, vars, wsVars,
                netVars, writeVars
  <2> QED
    BY <2>1, DrainsElse
<1> QED
  BY <1>2, <1>3, <1>4, <1>5, <1>6 DEF Next

\* A connected client whose queue is not full never leaves a message behind:
\* there is a writer, or a sender about to make one, whatever send(), the end
\* of do_write, failed writes and reconnections do to is_writing_.  A full
\* queue is the only exception, since the login that would restart the writer
\* is then refused (send, write_queue_.try_push).
THEOREM QueueWithRoomIsDrained == Spec => [](HasRoom => QueueIsDrained)
<1>1. Init => Drains
  BY DEF Init, WsInit, Drains, QueueIsDrained
<1>2. Drains => (HasRoom => QueueIsDrained)
  BY DEF Drains
<1> QED
  BY <1>1, <1>2, TokensInit, TokensStep, DrainsStep, PTL DEF Spec

-----------------------------------------------------------------------------
(* Reconnection.                                                           *)

Reachable == resolving \in Nat /\ NeverStranded

network == <<state_, should_reconnect_, timer, resolving, phase, reading>>

\* a failure of whatever kind arms the timer, unless disconnect() was called
LEMMA ReconnectArms ==
  ASSUME reconnect, should_reconnect_' = should_reconnect_,
         should_reconnect_
  PROVE  timer'
  BY DEF reconnect

LEMMA ReachableClient ==
  ASSUME Reachable,
         \/ Attempting \/ Draining \/ connect \/ disconnect
         \/ on_resolve \/ on_handshake \/ on_read_closed \/ on_read_error
         \/ on_close \/ UNCHANGED network
  PROVE  Reachable'
<1> USE DEF Reachable, NeverStranded, Attempt
<1>1. CASE on_reconnect_timer \/ connect
  BY <1>1 DEF on_reconnect_timer, connect
<1>2. CASE \/ on_resolve_error \/ attempt_error \/ on_write_error
           \/ on_read_closed \/ on_read_error
  <2>1. /\ should_reconnect_' = should_reconnect_ /\ reconnect
        /\ resolving' \in {resolving, resolving - 1} /\ (resolving' = resolving \/ resolving > 0)
    BY <1>2 DEF on_resolve_error, attempt_error, on_write_error,
                on_read_closed, on_read_error
  <2>2. resolving' \in Nat
    BY <2>1
  <2> QED
    BY <2>1, <2>2, ReconnectArms
<1>3. CASE on_resolve
  BY <1>3 DEF on_resolve
<1>4. CASE on_connect \/ on_ssl_handshake
  BY <1>4 DEF on_connect, on_ssl_handshake
<1>5. CASE on_handshake
  BY <1>5 DEF on_handshake
<1>6. CASE on_close
  BY <1>6 DEF on_close
<1>7. CASE disconnect
  BY <1>7 DEF disconnect
<1>8. CASE UNCHANGED network
  BY <1>8 DEF network
<1>9. CASE Draining /\ ~on_write_error
  BY <1>8, <1>9 DEF Draining, callback_kick, do_write, do_write_pop,
     do_write_release, do_write_recheck, do_write_reacquire, netVars, network
<1> QED
  BY <1>1, <1>2, <1>3, <1>4, <1>5, <1>6, <1>7, <1>8, <1>9 DEF Attempting, Draining

\* Until disconnect() is called the client always has a way back to a
\* connection, however resolutions, timers, aborted writes and failed reads
\* interleave (schedule_reconnect, on_read, handle_error).
THEOREM AlwaysAWayBack == Spec => []NeverStranded
<1>1. Init => Reachable
  BY DEF Init, WsInit, Reachable, NeverStranded
<1>2. Reachable /\ [Next]_vars => Reachable'
  <2> SUFFICES ASSUME Reachable, [Next]_vars PROVE Reachable'
    OBVIOUS
  <2>1. CASE Internal
    BY <2>1, ReachableClient DEF Internal
  <2>2. CASE Stream
    <3>1. CASE Connect \/ Resolved \/ HandshakeDone \/ ReadClosed \/ ReadError \/ Closed
      BY <3>1, ReachableClient DEF Connect, Resolved, HandshakeDone,
                                   ReadClosed, ReadError, Closed
    <3>2. CASE authenticate \/ Written \/ on_message
      <4>1. UNCHANGED network
        BY <3>2 DEF authenticate, callback_push, Written, on_write, on_message,
                    wsVars, netVars, network
      <4> QED
        BY <4>1, ReachableClient
    <3> QED
      BY <2>2, <3>1, <3>2 DEF Stream
  <2>3. CASE Disconnect
    BY <2>3, ReachableClient DEF Disconnect
  <2>4. ASSUME NEW c \in Callers, Calling(c) PROVE Reachable'
    <3>1. UNCHANGED network
      BY <2>4 DEF Calling, Sending, send_check, send_push, send_kick,
           open_short, Emplace, send, GetResult, Timeout, EraseTimedOut,
           RestFilled, RestRefused, RestBroken, wsVars, netVars, network
    <3> QED
      BY <3>1, ReachableClient
  <2>5. CASE Venue \/ UNCHANGED vars
    <3>1. UNCHANGED network
      BY <2>5 DEF Venue, VenueAccepts, VenueRefuses, VenueLoses, vars, wsVars,
                  netVars, network
    <3> QED
      BY <3>1, ReachableClient
  <2> QED
    BY <2>1, <2>2, <2>3, <2>4, <2>5 DEF Next
<1>3. Reachable => NeverStranded
  BY DEF Reachable
<1> QED
  BY <1>1, <1>2, <1>3, PTL DEF Spec

-----------------------------------------------------------------------------
(* The order's message.  Each caller's order exists at most once on its    *)
(* way: in send(), in write_queue_, in the write, or with the venue.       *)

InQueue(q, c) == \E i \in 1..Len(q) : q[i] = c
OnceIn(q, c) == \A i, j \in 1..Len(q) : q[i] = c /\ q[j] = c => i = j

Sends(c) == sender[c].pc \in {"check", "push"}
Queued(c) == InQueue(write_queue_, c)
Flying(c) == inflight.msg = c
Received(c) == \E i \in inbox : i.msg = c

InTransit(c) == Sends(c) \/ Queued(c) \/ Flying(c) \/ Received(c)

OneCopy(c) ==
  /\ Sends(c) => ~Queued(c) /\ ~Flying(c) /\ ~Received(c)
  /\ Queued(c) => ~Flying(c) /\ ~Received(c)
  /\ Flying(c) => ~Received(c)
  /\ OnceIn(write_queue_, c)
  /\ \A i, j \in inbox : i.msg = c /\ j.msg = c => i = j

OwnMessages ==
  /\ \A p \in Senders : sender[p].pc # "out" => sender[p].msg = p
  /\ inbox \subseteq [msg : Msgs, in : BOOLEAN, here : BOOLEAN]
  /\ answers \subseteq [msg : Msgs, r : {"ack", "nak"}]
  /\ reading \in BOOLEAN /\ loggedIn \in BOOLEAN

LEMMA CallersReal ==
  ASSUME NEW c \in Callers PROVE c \in Msgs /\ c # Auth /\ c # NoMsg
  BY ClientAssumption, TradeAssumption DEF Callers, Msgs

LEMMA AppendedOther ==
  ASSUME NEW q \in Seq(Msgs), NEW m \in Msgs, NEW c \in Callers, m # c
  PROVE  /\ InQueue(Append(q, m), c) <=> InQueue(q, c)
         /\ OnceIn(q, c) => OnceIn(Append(q, m), c)
<1>1. /\ Len(Append(q, m)) = Len(q) + 1 /\ Len(q) \in Nat
      /\ Append(q, m)[Len(q) + 1] = m
      /\ \A i \in 1..Len(q) : Append(q, m)[i] = q[i]
  OBVIOUS
<1>2. \A i \in 1..Len(q) + 1 : Append(q, m)[i] = c => i \in 1..Len(q) /\ q[i] = c
  BY <1>1
<1> QED
  BY <1>1, <1>2 DEF InQueue, OnceIn

LEMMA AppendedThis ==
  ASSUME NEW q \in Seq(Msgs), NEW c \in Callers, ~InQueue(q, c), c \in Msgs
  PROVE  OnceIn(Append(q, c), c)
<1>1. /\ Len(Append(q, c)) = Len(q) + 1 /\ Len(q) \in Nat
      /\ \A i \in 1..Len(q) : Append(q, c)[i] = q[i]
  OBVIOUS
<1>2. \A i \in 1..Len(q) + 1 : Append(q, c)[i] = c => i = Len(q) + 1
  BY <1>1 DEF InQueue
<1> QED
  BY <1>1, <1>2 DEF OnceIn

LEMMA Popped ==
  ASSUME NEW q \in Seq(Msgs), q # <<>>, NEW c \in Callers, OnceIn(q, c)
  PROVE  /\ OnceIn(Tail(q), c)
         /\ InQueue(Tail(q), c) => InQueue(q, c) /\ Head(q) # c
         /\ Head(q) = c => InQueue(q, c)
<1>1. /\ Len(q) \in Nat /\ Len(q) > 0 /\ Len(Tail(q)) = Len(q) - 1
      /\ \A i \in 1..Len(q) - 1 : Tail(q)[i] = q[i + 1]
      /\ Head(q) = q[1]
  OBVIOUS
<1>2. OnceIn(Tail(q), c)
  BY <1>1 DEF OnceIn
<1>3. InQueue(Tail(q), c) => InQueue(q, c) /\ Head(q) # c
  BY <1>1 DEF OnceIn, InQueue
<1>4. Head(q) = c => InQueue(q, c)
  BY <1>1 DEF InQueue
<1> QED
  BY <1>2, <1>3, <1>4

transit == <<sender, write_queue_, inflight, inbox>>

\* What a step may do to a message: it moves on or is dropped.
Moved(c) == OneCopy(c)' /\ (InTransit(c)' => InTransit(c))

LEMMA TransitUnchanged ==
  ASSUME NEW c \in Callers, OneCopy(c), UNCHANGED transit PROVE Moved(c)
  BY DEF transit, Moved, OneCopy, InTransit, Sends, Queued, Flying, Received,
         OnceIn, InQueue

\* the stream is replaced or breaks: nothing that was sent comes back
LEMMA InboxLost ==
  ASSUME NEW c \in Callers, OneCopy(c), OwnMessages,
         inbox' = {[i EXCEPT !.here = FALSE] : i \in inbox},
         UNCHANGED <<sender, write_queue_>>, inflight'.msg = inflight.msg
  PROVE  Moved(c)
<1>1. \A k \in inbox' : \E i \in inbox : k = [i EXCEPT !.here = FALSE] /\ k.msg = i.msg
  BY DEF OwnMessages
<1>2. Received(c)' => Received(c)
  BY <1>1 DEF Received
<1>3. ASSUME NEW k \in inbox', NEW l \in inbox', k.msg = c, l.msg = c
      PROVE  k = l
  <2>1. PICK i \in inbox : k = [i EXCEPT !.here = FALSE] /\ k.msg = i.msg
    BY <1>1
  <2>2. PICK j \in inbox : l = [j EXCEPT !.here = FALSE] /\ l.msg = j.msg
    BY <1>1
  <2>3. i = j
    BY <1>3, <2>1, <2>2 DEF OneCopy
  <2> QED
    BY <2>1, <2>2, <2>3
<1> QED
  BY <1>2, <1>3 DEF Moved, OneCopy, InTransit, Sends, Queued, Flying, OnceIn, InQueue

LEMMA InboxTaken ==
  ASSUME NEW c \in Callers, OneCopy(c), NEW i \in inbox, inbox' = inbox \ {i},
         UNCHANGED <<sender, write_queue_, inflight>>
  PROVE  Moved(c) /\ (i.msg = c => InTransit(c) /\ ~InTransit(c)')
<1>1. /\ Sends(c)' = Sends(c) /\ Queued(c)' = Queued(c) /\ Flying(c)' = Flying(c)
      /\ OnceIn(write_queue_, c)' = OnceIn(write_queue_, c)
  BY DEF Sends, Queued, Flying, OnceIn, InQueue
<1>2. /\ Received(c)' => Received(c)
      /\ \A k, l \in inbox' : k.msg = c /\ l.msg = c => k = l
  BY DEF Received, OneCopy
<1>3. i.msg = c => Received(c) /\ ~Received(c)'
  BY DEF Received, OneCopy
<1> QED
  BY <1>1, <1>2, <1>3 DEF Moved, OneCopy, InTransit

LEMMA MovedSending ==
  ASSUME NEW c \in Callers, OneCopy(c), Tokens, OwnMessages,
         NEW d \in Callers, Sending(d)
  PROVE  Moved(c)
<1> USE DEF Callers
<1>0. c \in Msgs /\ d \in Msgs
  BY CallersReal
<1>1. UNCHANGED <<inflight, inbox>>
  BY DEF Sending, send_check, send_push, send_kick, writeVars, venueVars
<1>2. CASE send_check(d)
  <2>1. Sends(c)' => Sends(c)
    BY <1>2 DEF send_check, Sends, Tokens, Quiet
  <2>2. UNCHANGED write_queue_
    BY <1>2 DEF send_check, writeVars
  <2> QED
    BY <1>1, <2>1, <2>2 DEF Moved, OneCopy, InTransit, Queued, Flying, Received
<1>3. CASE send_kick(d)
  <2>1. Sends(c)' => Sends(c)
    BY <1>3 DEF send_kick, Sends, Tokens, Quiet
  <2>2. UNCHANGED write_queue_
    BY <1>3 DEF send_kick
  <2> QED
    BY <1>1, <2>1, <2>2 DEF Moved, OneCopy, InTransit, Queued, Flying, Received
<1>4. CASE send_push(d)
  <2>1. /\ sender[d].pc = "push" /\ sender[d].msg = d
        /\ Sends(d) /\ ~Sends(d)'
        /\ Sends(c)' => Sends(c)
    BY <1>4 DEF send_push, Sends, OwnMessages, Tokens, Quiet
  <2>2. CASE write_queue_' = write_queue_
    BY <1>1, <2>1, <2>2 DEF Moved, OneCopy, InTransit, Queued, Flying, Received
  <2>3. CASE write_queue_' = Append(write_queue_, d)
    <3>0. write_queue_ \in Seq(Msgs)
      BY DEF Tokens
    <3>1. CASE c = d
      <4>1. OnceIn(write_queue_', c)
        BY <1>0, <2>1, <2>3, <3>0, <3>1, AppendedThis DEF OneCopy, Queued
      <4> QED
        BY <1>1, <2>1, <3>1, <4>1 DEF Moved, OneCopy, InTransit, Flying, Received
    <3>2. CASE c # d
      <4>1. /\ InQueue(write_queue_', c) <=> InQueue(write_queue_, c)
            /\ OnceIn(write_queue_, c) => OnceIn(write_queue_', c)
        BY <1>0, <2>3, <3>0, <3>2, AppendedOther
      <4> QED
        BY <1>1, <2>1, <4>1 DEF Moved, OneCopy, InTransit, Queued, Flying, Received
    <3> QED
      BY <3>1, <3>2
  <2> QED
    BY <1>4, <2>1, <2>2, <2>3 DEF send_push
<1> QED
  BY <1>2, <1>3, <1>4 DEF Sending

LEMMA MovedDraining ==
  ASSUME NEW c \in Callers, OneCopy(c), Tokens, Draining, UNCHANGED venueVars
  PROVE  Moved(c)
<1>0. UNCHANGED <<sender, inbox>>
  BY DEF Draining, callback_kick, do_write, do_write_pop, do_write_release,
     do_write_recheck, do_write_reacquire, on_write_error, venueVars
<1>1. CASE do_write_pop /\ write_queue_ # <<>>
  <2>1. write_queue_' = Tail(write_queue_) /\ inflight'.msg = Head(write_queue_)
    BY <1>1 DEF do_write_pop
  <2>2. inflight.msg = NoMsg
    BY <1>1 DEF do_write_pop, Tokens, OneHolder, AtQueue, Writing, NoWrite
  <2>3. /\ OnceIn(write_queue_', c)
        /\ InQueue(write_queue_', c) => InQueue(write_queue_, c) /\ inflight'.msg # c
        /\ inflight'.msg = c => InQueue(write_queue_, c)
    BY <1>1, <2>1, Popped DEF OneCopy, Tokens
  <2> QED
    BY <1>0, <2>3 DEF Moved, OneCopy, InTransit, Sends, Queued, Flying, Received
<1>2. CASE on_write_error
  <2>1. inflight'.msg # c /\ UNCHANGED write_queue_
    BY <1>2, CallersReal DEF on_write_error, NoWrite
  <2> QED
    BY <1>0, <2>1 DEF Moved, OneCopy, InTransit, Sends, Queued, Flying, Received
<1>3. CASE ~(do_write_pop /\ write_queue_ # <<>>) /\ ~on_write_error
  <2>1. UNCHANGED transit
    BY <1>0, <1>3 DEF Draining, callback_kick, do_write, do_write_pop,
       do_write_release, do_write_recheck, do_write_reacquire, transit
  <2> QED
    BY <2>1, TransitUnchanged
<1> QED
  BY <1>1, <1>2, <1>3

LEMMA MovedStream ==
  ASSUME NEW c \in Callers, OneCopy(c), Tokens, OwnMessages, Stream
  PROVE  Moved(c)
<1>1. CASE Resolved
  <2>1. /\ inbox' = {[i EXCEPT !.here = FALSE] : i \in inbox}
        /\ UNCHANGED <<sender, write_queue_>> /\ inflight'.msg = inflight.msg
    BY <1>1 DEF Resolved, on_resolve, Tokens
  <2> QED
    BY <2>1, InboxLost
<1>2. CASE ReadClosed \/ ReadError
  <2>1. /\ inbox' = {[i EXCEPT !.here = FALSE] : i \in inbox}
        /\ UNCHANGED <<sender, write_queue_, inflight>>
    BY <1>2 DEF ReadClosed, on_read_closed, ReadError, on_read_error, Lost, writeVars
  <2> QED
    BY <2>1, InboxLost
<1>3. CASE authenticate
  <2>1. /\ write_queue_' = Append(write_queue_, Auth) \/ UNCHANGED write_queue_
        /\ UNCHANGED <<sender, inflight, inbox>>
    BY <1>3 DEF authenticate, callback_push, venueVars
  <2>2. CASE write_queue_' = Append(write_queue_, Auth)
    <3>1. /\ InQueue(write_queue_', c) <=> InQueue(write_queue_, c)
          /\ OnceIn(write_queue_, c) => OnceIn(write_queue_', c)
      BY <2>2, AppendedOther, CallersReal DEF Tokens, Msgs
    <3> QED
      BY <2>1, <3>1 DEF Moved, OneCopy, InTransit, Sends, Queued, Flying, Received
  <2> QED
    BY <2>1, <2>2, TransitUnchanged DEF transit
<1>4. CASE Written
  <2>1. /\ inbox' = inbox \cup
             {[msg |-> inflight.msg, in |-> loggedIn, here |-> reading]}
        /\ inflight'.msg # c /\ UNCHANGED <<sender, write_queue_>>
    BY <1>4, CallersReal DEF Written, on_write, NoWrite
  <2> DEFINE sent == [msg |-> inflight.msg, in |-> loggedIn, here |-> reading]
  <2>a. inbox' = inbox \cup {sent} /\ sent.msg = inflight.msg
    BY <2>1
  <2> HIDE DEF sent
  <2>2. Received(c)' <=> Received(c) \/ Flying(c)
    BY <2>a DEF Received, Flying
  <2>3. \A i, j \in inbox' : i.msg = c /\ j.msg = c => i = j
    BY <2>a DEF OneCopy, Received, Flying
  <2>4. Sends(c)' = Sends(c) /\ Queued(c)' = Queued(c) /\ ~Flying(c)'
        /\ OnceIn(write_queue_, c)' = OnceIn(write_queue_, c)
    BY <2>1 DEF Sends, Queued, Flying, OnceIn, InQueue
  <2> QED
    BY <2>2, <2>3, <2>4 DEF Moved, OneCopy, InTransit
<1>5. CASE Connect \/ HandshakeDone \/ Closed \/ on_message
  <2>1. UNCHANGED transit
    BY <1>5 DEF Connect, connect, HandshakeDone, on_handshake, Closed, on_close,
                on_message, wsVars, writeVars, venueVars, transit
  <2> QED
    BY <2>1, TransitUnchanged
<1> QED
  BY <1>1, <1>2, <1>3, <1>4, <1>5 DEF Stream

LEMMA MovedVenue ==
  ASSUME NEW c \in Callers, OneCopy(c), Venue PROVE Moved(c)
<1>1. PICK i \in inbox : VenueAccepts(i) \/ VenueRefuses(i) \/ VenueLoses(i)
  BY DEF Venue
<1>2. inbox' = inbox \ {i} /\ UNCHANGED <<sender, write_queue_, inflight>>
  BY <1>1 DEF VenueAccepts, VenueRefuses, VenueLoses, wsVars, writeVars
<1> QED
  BY <1>2, InboxTaken

LEMMA OwnMessagesStep ==
  ASSUME OwnMessages, Tokens, [Next]_vars PROVE OwnMessages'
<1>1. \A p \in Senders : sender'[p].pc # "out" => sender'[p].msg = p
  <2>1. CASE \E d \in Callers : Sending(d) \/ Emplace(d)
    <3>1. PICK d \in Senders :
            send(d, d) \/ send_check(d) \/ send_push(d) \/ send_kick(d)
      BY <2>1 DEF Sending, Emplace, Callers
    <3> QED
      BY <3>1 DEF send, send_check, send_push, send_kick, Quiet, OwnMessages, Tokens
  <2>2. CASE ~\E d \in Callers : Sending(d) \/ Emplace(d)
    <3>1. CASE Internal \/ Disconnect \/ Venue \/ UNCHANGED vars
      <4>1. UNCHANGED sender
        BY <3>1 DEF Internal, Attempting, on_reconnect_timer, on_resolve_error,
           on_connect, on_ssl_handshake, attempt_error, Draining, callback_kick,
           do_write, do_write_pop, do_write_release, do_write_recheck,
           do_write_reacquire, on_write_error, Disconnect, disconnect, Venue,
           VenueAccepts, VenueRefuses, VenueLoses, vars, wsVars
      <4> QED
        BY <4>1 DEF OwnMessages
    <3>2. CASE Stream
      <4>1. UNCHANGED sender
        BY <3>2 DEF Stream, Connect, connect, Resolved, on_resolve,
           HandshakeDone, on_handshake, authenticate, callback_push, Written,
           on_write, ReadClosed, on_read_closed, ReadError, on_read_error,
           Closed, on_close, on_message, wsVars
      <4> QED
        BY <4>1 DEF OwnMessages
    <3>3. ASSUME NEW d \in Callers, Calling(d) PROVE UNCHANGED sender
      BY <2>2, <3>3 DEF Calling, open_short, GetResult, Timeout, EraseTimedOut,
         RestFilled, RestRefused, RestBroken, wsVars
    <3> QED
      BY <3>1, <3>2, <3>3 DEF Next, OwnMessages
  <2> QED
    BY <2>1, <2>2
<1>2. /\ inbox' \subseteq [msg : Msgs, in : BOOLEAN, here : BOOLEAN]
      /\ answers' \subseteq [msg : Msgs, r : {"ack", "nak"}]
  <2> USE DEF OwnMessages
  <2>1. CASE Internal \/ Disconnect \/ UNCHANGED vars
    BY <2>1 DEF Internal, Disconnect, vars, venueVars
  <2>2. CASE Stream
    <3>1. CASE Resolved \/ ReadClosed \/ ReadError
      <4>1. /\ inbox' = {[i EXCEPT !.here = FALSE] : i \in inbox}
            /\ answers' = {}
        BY <3>1 DEF Resolved, ReadClosed, ReadError, Lost
      <4> QED
        BY <4>1
    <3>2. CASE Written
      <4>1. inflight.msg \in Msgs
        BY <3>2 DEF Written, on_write, Tokens, Writing, NoWrite
      <4>2. /\ inbox' = inbox \cup
                 {[msg |-> inflight.msg, in |-> loggedIn, here |-> reading]}
            /\ UNCHANGED answers
        BY <3>2 DEF Written
      <4> QED
        BY <4>1, <4>2
    <3>3. CASE Connect \/ HandshakeDone \/ authenticate \/ Closed \/ on_message
      BY <3>3 DEF Connect, HandshakeDone, authenticate, Closed, on_message, venueVars
    <3> QED
      BY <2>2, <3>1, <3>2, <3>3 DEF Stream
  <2>3. CASE Venue
    BY <2>3 DEF Venue, VenueAccepts, VenueRefuses, VenueLoses, Answered
  <2>4. ASSUME NEW d \in Callers, Calling(d) PROVE UNCHANGED <<inbox, answers>>
    BY <2>4 DEF Calling, Sending, open_short, Emplace, GetResult, Timeout,
       EraseTimedOut, RestFilled, RestRefused, RestBroken, venueVars
  <2> QED
    BY <2>1, <2>2, <2>3, <2>4 DEF Next
<1>3. loggedIn' \in BOOLEAN
  <2>1. CASE Written \/ Resolved
    BY <2>1 DEF Written, Resolved
  <2>2. CASE ~(Written \/ Resolved)
    <3>1. UNCHANGED loggedIn
      BY <2>2 DEF Next, Internal, Stream, Connect, HandshakeDone, authenticate,
         ReadClosed, ReadError, Closed, on_message, Disconnect, Venue,
         VenueAccepts, VenueRefuses, VenueLoses, Calling, Sending, open_short,
         Emplace, GetResult, Timeout, EraseTimedOut, RestFilled, RestRefused,
         RestBroken, venueVars, vars
    <3> QED
      BY <3>1 DEF OwnMessages
  <2> QED
    BY <2>1, <2>2
<1>4. reading' \in BOOLEAN
  <2>1. CASE Resolved \/ HandshakeDone \/ ReadClosed \/ ReadError
    BY <2>1 DEF Resolved, on_resolve, HandshakeDone, on_handshake, ReadClosed,
                on_read_closed, ReadError, on_read_error
  <2>2. CASE Internal \/ Venue \/ Disconnect \/ UNCHANGED vars
    BY <2>2 DEF OwnMessages, Internal, Attempting, on_reconnect_timer,
       on_resolve_error, on_connect, on_ssl_handshake, attempt_error, Draining,
       callback_kick, do_write, do_write_pop, do_write_release,
       do_write_recheck, do_write_reacquire, on_write_error, Venue,
       VenueAccepts, VenueRefuses, VenueLoses, Disconnect, disconnect, vars,
       wsVars, netVars
  <2>3. CASE Connect \/ authenticate \/ Written \/ Closed \/ on_message
    BY <2>3 DEF OwnMessages, Connect, connect, authenticate, callback_push,
       Written, on_write, Closed, on_close, on_message, wsVars, netVars
  <2>4. ASSUME NEW d \in Callers, Calling(d) PROVE UNCHANGED reading
    BY <2>4 DEF Calling, Sending, send_check, send_push, send_kick, open_short,
       Emplace, send, GetResult, Timeout, EraseTimedOut, RestFilled,
       RestRefused, RestBroken, wsVars, netVars
  <2> QED
    BY <2>1, <2>2, <2>3, <2>4 DEF Next, Stream, OwnMessages
<1> QED
  BY <1>1, <1>2, <1>3, <1>4 DEF OwnMessages

-----------------------------------------------------------------------------
(* What became of the order.                                               *)

CallTypes ==
  /\ caller \in [Callers -> [pc : {"out", "emplace", "wait", "erase", "rest",
                                   "done"},
                             tries : 0..MaxRetries-1]]
  /\ result \in [Callers -> {"none", "ack", "nak", "failed"}]
  /\ status \in [Callers -> {"none", "Filled", "Rejected"}]
  /\ executed \in [Callers -> Nat]
  /\ unanswered \in [Callers -> BOOLEAN]

Early(c) == caller[c].pc \in {"out", "emplace"}

\* An answer, on its way or in the promise: the order is no longer in
\* transit, an acknowledged one was executed, and a refused one was not, as
\* long as nothing else was tried for it.
AnswerOf(c, r) ==
  /\ ~Early(c) /\ ~InTransit(c)
  /\ r = "ack" => executed[c] >= 1
  /\ r = "nak" /\ caller[c].pc = "wait" /\ ~unanswered[c] => executed[c] = 0

\* One execution over the WebSocket and one for each attempt over REST.
Budget(c) == 1 + caller[c].tries + (IF caller[c].pc = "done" THEN 1 ELSE 0)

Outcome(c) ==
  /\ InTransit(c) \/ executed[c] > 0 => ~Early(c)
  /\ caller[c].pc = "erase" \/ result[c] = "failed" => unanswered[c]
  /\ \A a \in answers : a.msg = c => AnswerOf(c, a.r)
  /\ result[c] \in {"ack", "nak"} => AnswerOf(c, result[c])
  /\ status[c] = "Filled" => executed[c] >= 1
  /\ ~unanswered[c] =>
       /\ executed[c] <= 1
       /\ InTransit(c) => caller[c].pc = "wait" /\ executed[c] = 0
       /\ caller[c].pc = "rest" => executed[c] = 0
  /\ executed[c] <= Budget(c)
  /\ InTransit(c) => executed[c] + 1 <= Budget(c)

OrderInv ==
  /\ Tokens /\ OwnMessages /\ CallTypes
  /\ \A c \in Callers : OneCopy(c) /\ Outcome(c)

\* A step that is not about the order, or fails its promise: the message may
\* move on and answers may be lost.
LEMMA OutcomeKept ==
  ASSUME NEW c \in Callers, CallTypes, Outcome(c), Moved(c),
         caller'[c] = caller[c], status'[c] = status[c],
         executed'[c] = executed[c],
         \A a \in answers' : a.msg = c => a \in answers,
         \/ result'[c] = result[c] /\ unanswered'[c] = unanswered[c]
         \/ result'[c] = "failed" /\ unanswered'[c]
  PROVE  Outcome(c)'
<1>1. /\ InTransit(c)' => InTransit(c)
      /\ Early(c)' = Early(c) /\ Budget(c)' = Budget(c)
      /\ unanswered[c] => unanswered'[c]
  BY DEF Moved, Early, Budget
<1>2. ASSUME NEW r, AnswerOf(c, r) PROVE AnswerOf(c, r)'
  BY <1>1, <1>2 DEF AnswerOf
<1>3. /\ \A a \in answers' : a.msg = c => AnswerOf(c, a.r)'
      /\ result'[c] \in {"ack", "nak"} => AnswerOf(c, result[c])'
  BY <1>2 DEF Outcome
<1> QED
  BY <1>1, <1>3 DEF Outcome

LEMMA CallTypesStep ==
  ASSUME CallTypes, OwnMessages, [Next]_vars PROVE CallTypes'
<1> USE DEF CallTypes
<1>1. CASE Internal \/ Disconnect \/ UNCHANGED vars
  BY <1>1 DEF Internal, Disconnect, vars, tradeVars, venueVars
<1>2. CASE Stream
  <2>1. CASE ReadClosed \/ Closed
    BY <2>1 DEF ReadClosed, Closed, FailPending
  <2>2. CASE on_message
    BY <2>2 DEF on_message, resolve_pending, OwnMessages
  <2>3. CASE ~(ReadClosed \/ Closed \/ on_message)
    BY <1>2, <2>3 DEF Stream, Connect, Resolved, HandshakeDone, authenticate,
                      Written, ReadError, tradeVars, venueVars
  <2> QED
    BY <2>1, <2>2, <2>3
<1>3. CASE Venue
  <2>1. PICK i \in inbox : VenueAccepts(i) \/ VenueRefuses(i) \/ VenueLoses(i)
    BY <1>3 DEF Venue
  <2>2. i.msg # Auth => i.msg \in Callers
    BY DEF OwnMessages, Msgs, Callers
  <2> QED
    BY <2>1, <2>2 DEF VenueAccepts, VenueRefuses, VenueLoses, tradeVars, Count
<1>4. ASSUME NEW d \in Callers, Calling(d) PROVE CallTypes'
  <2>1. CASE RestBroken(d)
    <3>1. executed' \in [Callers -> Nat] /\ unanswered' \in [Callers -> BOOLEAN]
      BY <2>1 DEF RestBroken, Count, Mark
    <3>2. caller' \in [Callers -> [pc : {"out", "emplace", "wait", "erase",
                                         "rest", "done"},
                                   tries : 0..MaxRetries-1]]
      BY <2>1, TradeAssumption DEF RestBroken, RetryLeft, Return, Goto
    <3>3. /\ status' \in [Callers -> {"none", "Filled", "Rejected"}]
          /\ UNCHANGED result
      BY <2>1 DEF RestBroken, Return
    <3> QED
      BY <3>1, <3>2, <3>3
  <2>2. CASE RestFilled(d) \/ RestRefused(d) \/ GetResult(d)
    <3>1. \E p \in {"rest", "done"} : Goto(d, p)
      BY <2>2 DEF RestFilled, RestRefused, GetResult, Return
    <3>2. \E w \in {"Filled", "Rejected"} :
            status' \in {status, [status EXCEPT ![d] = w]}
      BY <2>2 DEF RestFilled, RestRefused, GetResult, Return
    <3>3. /\ executed' \in {executed, Count(executed, d)}
          /\ UNCHANGED <<result, unanswered>>
      BY <2>2 DEF RestFilled, RestRefused, GetResult, venueVars
    <3>4. status' \in [Callers -> {"none", "Filled", "Rejected"}]
      BY <3>2
    <3>5. executed' \in [Callers -> Nat]
      BY <3>3 DEF Count
    <3>6. caller' \in [Callers -> [pc : {"out", "emplace", "wait", "erase",
                                         "rest", "done"},
                                   tries : 0..MaxRetries-1]]
      BY <3>1 DEF Goto
    <3> QED
      BY <3>3, <3>4, <3>5, <3>6
  <2>3. CASE Sending(d) \/ open_short(d) \/ Emplace(d) \/ Timeout(d) \/ EraseTimedOut(d)
    <3>1. \/ UNCHANGED caller
          \/ \E p \in {"emplace", "rest", "wait", "erase"} : Goto(d, p)
      BY <2>3 DEF Sending, open_short, Emplace, Timeout, EraseTimedOut, tradeVars
    <3>2. /\ unanswered' \in {unanswered, Mark(unanswered, d)}
          /\ UNCHANGED <<result, status, executed>>
      BY <2>3 DEF Sending, open_short, Emplace, Timeout, EraseTimedOut,
                  tradeVars, venueVars
    <3>3. unanswered' \in [Callers -> BOOLEAN]
      BY <3>2 DEF Mark
    <3> QED
      BY <3>1, <3>2, <3>3 DEF Goto
  <2> QED
    BY <1>4, <2>1, <2>2, <2>3 DEF Calling
<1> QED
  BY <1>1, <1>2, <1>3, <1>4 DEF Next

LEMMA OutcomeMessage ==
  ASSUME NEW c \in Callers, CallTypes, OwnMessages, Outcome(c), OneCopy(c),
         on_message
  PROVE  Outcome(c)'
<1>1. Moved(c)
  BY TransitUnchanged DEF on_message, wsVars, writeVars, transit
<1>2. PICK a \in answers :
        /\ answers' = answers \ {a}
        /\ IF a.msg = Auth THEN UNCHANGED <<result, pending_orders_>>
                           ELSE resolve_pending(a.msg, a.r)
  BY DEF on_message
<1>3. UNCHANGED <<caller, status, executed, unanswered>>
  BY DEF on_message
<1>4. CASE result'[c] = result[c]
  BY <1>1, <1>2, <1>3, <1>4, OutcomeKept
<1>5. CASE result'[c] # result[c]
  <2>1. a.msg = c /\ result'[c] = a.r
    BY <1>2, <1>5 DEF resolve_pending, CallTypes
  <2>2. AnswerOf(c, a.r)
    BY <2>1 DEF Outcome
  <2>3. /\ InTransit(c)' => InTransit(c)
        /\ Early(c)' = Early(c) /\ Budget(c)' = Budget(c)
    BY <1>1, <1>3 DEF Moved, Early, Budget
  <2>4. ASSUME NEW r, AnswerOf(c, r) PROVE AnswerOf(c, r)'
    BY <1>3, <2>3, <2>4 DEF AnswerOf
  <2>5. \A b \in answers' : b.msg = c => AnswerOf(c, b.r)'
    BY <1>2, <2>4 DEF Outcome
  <2>6. AnswerOf(c, a.r)' /\ result'[c] = a.r
    BY <2>1, <2>2, <2>4
  <2>7. result'[c] \in {"ack", "nak"} => AnswerOf(c, result[c])'
    BY <2>6 DEF AnswerOf
  <2>8. result'[c] # "failed"
    BY <1>2, <2>1 DEF OwnMessages
  <2> QED
    BY <1>3, <2>3, <2>5, <2>7, <2>8 DEF Outcome
<1> QED
  BY <1>4, <1>5

LEMMA OutcomeStream ==
  ASSUME NEW c \in Callers, CallTypes, OwnMessages, Tokens, Outcome(c),
         OneCopy(c), Stream
  PROVE  Outcome(c)'
<1>0. Moved(c)
  BY MovedStream
<1>1. CASE ReadClosed \/ Closed
  <2>1. /\ UNCHANGED <<caller, status, executed>> /\ answers' \subseteq answers
        /\ FailPending
    BY <1>1 DEF ReadClosed, Closed, Lost
  <2>2. \/ result'[c] = result[c] /\ unanswered'[c] = unanswered[c]
        \/ result'[c] = "failed" /\ unanswered'[c]
    BY <2>1 DEF FailPending, CallTypes
  <2> QED
    BY <1>0, <2>1, <2>2, OutcomeKept
<1>2. CASE on_message
  BY <1>2, OutcomeMessage
<1>3. CASE ~(ReadClosed \/ Closed \/ on_message)
  <2>1. /\ UNCHANGED <<caller, status, executed, result, unanswered>>
        /\ answers' \subseteq answers
    BY <1>3 DEF Stream, Connect, Resolved, HandshakeDone, authenticate, Written,
                ReadError, Lost, tradeVars, venueVars
  <2> QED
    BY <1>0, <2>1, OutcomeKept
<1> QED
  BY <1>1, <1>2, <1>3

LEMMA OutcomeVenue ==
  ASSUME NEW c \in Callers, CallTypes, OwnMessages, Outcome(c), OneCopy(c), Venue
  PROVE  Outcome(c)'
<1>0. Moved(c)
  BY MovedVenue
<1>1. PICK i \in inbox : VenueAccepts(i) \/ VenueRefuses(i) \/ VenueLoses(i)
  BY DEF Venue
<1>2. /\ inbox' = inbox \ {i} /\ UNCHANGED <<sender, write_queue_, inflight>>
      /\ UNCHANGED <<caller, status, result, unanswered>>
  BY <1>1 DEF VenueAccepts, VenueRefuses, VenueLoses, wsVars, writeVars, tradeVars
<1>3. i.msg = Auth \/ i.msg \in Callers
  BY DEF OwnMessages, Msgs, Callers
<1>4. CASE VenueLoses(i) \/ i.msg # c
  <2>1. executed'[c] = executed[c]
    BY <1>1, <1>3, <1>4 DEF VenueAccepts, VenueRefuses, VenueLoses, Count, CallTypes
  <2>2. \A a \in answers' : a.msg = c => a \in answers
    BY <1>1, <1>4 DEF VenueAccepts, VenueRefuses, VenueLoses, Answered
  <2> QED
    BY <1>0, <1>2, <2>1, <2>2, OutcomeKept
<1>5. CASE i.msg = c /\ ~VenueLoses(i)
  <2>1. InTransit(c) /\ ~InTransit(c)'
    BY <1>2, <1>5, InboxTaken
  <2>2. /\ ~Early(c) /\ Early(c)' = Early(c) /\ Budget(c)' = Budget(c)
        /\ \A a \in answers : a.msg # c
        /\ result[c] \notin {"ack", "nak"}
        /\ executed[c] + 1 <= Budget(c)
    BY <1>2, <2>1 DEF Outcome, AnswerOf, Early, Budget
  <2>3. executed[c] \in Nat /\ Budget(c) \in Nat
    BY DEF CallTypes, Budget
  <2>4. c # Auth
    BY CallersReal
  <2>5. CASE VenueAccepts(i)
    <3>1. executed'[c] = executed[c] + 1
      BY <1>5, <2>4, <2>5 DEF VenueAccepts, Count, CallTypes
    <3>2. \A a \in answers' : a.msg = c => a.r = "ack"
      BY <2>2, <2>5 DEF VenueAccepts, Answered
    <3>3. \A a \in answers' : a.msg = c => AnswerOf(c, a.r)'
      BY <2>1, <2>2, <2>3, <3>1, <3>2 DEF AnswerOf
    <3> QED
      BY <1>2, <2>1, <2>2, <2>3, <3>1, <3>3 DEF Outcome
  <2>6. CASE VenueRefuses(i)
    <3>1. executed' = executed
      BY <2>6 DEF VenueRefuses
    <3>2. \A a \in answers' : a.msg = c => a.r = "nak"
      BY <2>2, <2>6 DEF VenueRefuses, Answered
    <3>3. ~unanswered[c] => executed[c] = 0
      BY <2>1 DEF Outcome
    <3>4. \A a \in answers' : a.msg = c => AnswerOf(c, a.r)'
      BY <1>2, <2>1, <2>2, <3>1, <3>2, <3>3 DEF AnswerOf
    <3> QED
      BY <1>2, <2>1, <2>2, <2>3, <3>1, <3>4 DEF Outcome
  <2> QED
    BY <1>1, <1>5, <2>5, <2>6
<1> QED
  BY <1>4, <1>5

\* A step of the caller itself that leaves its message where it is.
LEMMA OutcomeCall ==
  ASSUME NEW c \in Callers, CallTypes, CallTypes', Outcome(c), OneCopy(c),
         \/ open_short(c) \/ GetResult(c) \/ Timeout(c) \/ EraseTimedOut(c)
         \/ RestFilled(c) \/ RestRefused(c) \/ RestBroken(c)
  PROVE  Outcome(c)' /\ OneCopy(c)'
<1>1. UNCHANGED transit /\ UNCHANGED <<answers, result>>
  BY DEF open_short, GetResult, Timeout, EraseTimedOut, RestFilled,
     RestRefused, RestBroken, venueVars, wsVars, writeVars, transit
<1>2. InTransit(c)' = InTransit(c) /\ OneCopy(c)'
  BY <1>1, TransitUnchanged DEF transit, InTransit, Sends, Queued, Flying,
     Received, InQueue, Moved
<1>3. /\ executed[c] \in Nat /\ executed'[c] \in Nat
      /\ caller[c].tries \in Nat /\ caller'[c].tries \in Nat
  BY DEF CallTypes
<1>4. CASE open_short(c)
  <2>1. /\ caller[c].pc = "out" /\ caller'[c].pc \in {"emplace", "rest"}
        /\ caller'[c].tries = caller[c].tries
        /\ UNCHANGED <<status, executed, unanswered>>
    BY <1>4 DEF open_short, Goto, CallTypes, venueVars
  <2>2. /\ Early(c) /\ ~InTransit(c) /\ executed[c] = 0
        /\ \A a \in answers : a.msg # c
        /\ result[c] \notin {"ack", "nak"}
    BY <1>3, <2>1 DEF Outcome, AnswerOf, Early
  <2> QED
    BY <1>1, <1>2, <1>3, <2>1, <2>2 DEF Outcome, Budget
<1>5. CASE GetResult(c)
  <2>1. /\ caller[c].pc = "wait" /\ caller'[c].pc \in {"rest", "done"}
        /\ caller'[c].tries = caller[c].tries
        /\ UNCHANGED <<executed, unanswered>>
        /\ result[c] \in {"ack", "nak", "failed"}
        /\ result[c] = "ack" => caller'[c].pc = "done"
        /\ result[c] # "ack" => caller'[c].pc = "rest" /\ UNCHANGED status
    BY <1>5 DEF GetResult, Waits, AckIsFill, Return, Goto, CallTypes, venueVars
  <2>2. /\ \A a \in answers' : a.msg = c => AnswerOf(c, a.r)'
        /\ result'[c] \in {"ack", "nak"} => AnswerOf(c, result[c])'
    BY <1>1, <1>2, <2>1 DEF Outcome, AnswerOf, Early
  <2>3. result[c] \in {"ack", "nak"} => AnswerOf(c, result[c])
    BY DEF Outcome
  <2>4. /\ result[c] = "ack" => ~InTransit(c) /\ executed[c] >= 1
        /\ result[c] = "nak" => ~InTransit(c) /\ (~unanswered[c] => executed[c] = 0)
        /\ result[c] = "failed" => unanswered[c]
    BY <2>1, <2>3 DEF Outcome, AnswerOf
  <2>5. /\ Budget(c)' >= Budget(c) /\ Budget(c) \in Nat /\ Budget(c)' \in Nat
        /\ ~Early(c)'
    BY <1>3, <2>1 DEF Budget, Early
  <2>6. /\ caller'[c].pc # "erase"
        /\ status'[c] = "Filled" => executed'[c] >= 1
        /\ result'[c] = "failed" => unanswered'[c]
    BY <1>1, <2>1, <2>4 DEF Outcome
  <2>7. ~unanswered'[c] =>
          /\ executed'[c] <= 1
          /\ ~InTransit(c)'
          /\ caller'[c].pc = "rest" => executed'[c] = 0
    BY <1>2, <2>1, <2>4 DEF Outcome
  <2>8. /\ executed'[c] <= Budget(c)'
        /\ InTransit(c)' => executed'[c] + 1 <= Budget(c)'
    BY <1>2, <1>3, <2>1, <2>5 DEF Outcome
  <2>9. Outcome(c)'
    BY <2>2, <2>5, <2>6, <2>7, <2>8 DEF Outcome
  <2> QED
    BY <1>2, <2>9
<1>6. CASE Timeout(c) \/ EraseTimedOut(c)
  <2>1. /\ caller[c].pc \in {"wait", "erase"} /\ caller'[c].pc \in {"erase", "rest"}
        /\ caller'[c].tries = caller[c].tries
        /\ UNCHANGED <<executed, status>>
        /\ unanswered'[c]
    BY <1>6 DEF Timeout, TimesOut, Waits, EraseTimedOut, Goto, Mark, CallTypes,
                venueVars, Outcome
  <2>2. /\ \A a \in answers' : a.msg = c => AnswerOf(c, a.r)'
        /\ result'[c] \in {"ack", "nak"} => AnswerOf(c, result[c])'
    BY <1>1, <1>2, <2>1 DEF Outcome, AnswerOf, Early
  <2>3. Budget(c)' = Budget(c) /\ ~Early(c)'
    BY <2>1 DEF Budget, Early
  <2>4. Outcome(c)'
    BY <1>1, <1>2, <2>1, <2>2, <2>3 DEF Outcome
  <2> QED
    BY <1>2, <2>4
<1>7. CASE RestFilled(c) \/ RestRefused(c) \/ RestBroken(c)
  <2>1. /\ caller[c].pc = "rest"
        /\ executed'[c] \in {executed[c], executed[c] + 1}
        /\ \/ caller'[c].pc = "done" /\ caller'[c].tries = caller[c].tries
           \/ /\ caller'[c].pc = "rest" /\ caller'[c].tries = caller[c].tries + 1
              /\ status'[c] = status[c]
    BY <1>7 DEF RestFilled, RestRefused, RestBroken, Return, Goto, Count,
                CallTypes, venueVars
  <2>2. /\ status'[c] = "Filled" => executed'[c] >= 1
        /\ ~unanswered'[c] => ~unanswered[c] /\ caller'[c].pc = "done"
        /\ unanswered[c] => unanswered'[c]
    <3>1. CASE RestFilled(c)
      BY <1>3, <3>1 DEF RestFilled, Return, Goto, Count, CallTypes
    <3>2. CASE RestRefused(c)
      BY <3>2 DEF RestRefused, Return, Goto, CallTypes, venueVars
    <3>3. CASE RestBroken(c)
      <4>1. status'[c] = status[c] \/ status'[c] = "Rejected"
        BY <3>3 DEF RestBroken, Return, CallTypes
      <4>2. unanswered'[c]
        BY <3>3 DEF RestBroken, Mark, CallTypes
      <4> QED
        BY <1>3, <2>1, <4>1, <4>2 DEF Outcome
    <3> QED
      BY <1>7, <3>1, <3>2, <3>3
  <2>3. Budget(c)' = Budget(c) + 1 /\ Budget(c) \in Nat /\ ~Early(c)'
    BY <1>3, <2>1 DEF Budget, Early
  <2>4. /\ \A a \in answers' : a.msg = c => AnswerOf(c, a.r)'
        /\ result'[c] \in {"ack", "nak"} => AnswerOf(c, result[c])'
    BY <1>1, <1>2, <1>3, <2>1, <2>3 DEF Outcome, AnswerOf
  <2>5. ~unanswered'[c] =>
          /\ executed'[c] <= 1
          /\ ~InTransit(c)'
          /\ caller'[c].pc # "rest"
    BY <1>2, <1>3, <2>1, <2>2 DEF Outcome
  <2>6. /\ executed'[c] <= Budget(c)'
        /\ InTransit(c)' => executed'[c] + 1 <= Budget(c)'
    BY <1>2, <1>3, <2>1, <2>3 DEF Outcome
  <2>7. caller'[c].pc # "erase" /\ (result'[c] = "failed" => unanswered'[c])
    BY <1>1, <2>1, <2>2 DEF Outcome
  <2>8. Outcome(c)'
    BY <2>2, <2>3, <2>4, <2>5, <2>6, <2>7 DEF Outcome
  <2> QED
    BY <1>2, <2>8
<1> QED
  BY <1>4, <1>5, <1>6, <1>7

\* The order enters send(): nothing of it exists yet.
LEMMA OutcomeEmplace ==
  ASSUME NEW c \in Callers, CallTypes, Tokens, Outcome(c), OneCopy(c), Emplace(c)
  PROVE  Outcome(c)' /\ OneCopy(c)'
<1>1. /\ caller[c].pc = "emplace" /\ caller'[c].pc = "wait"
      /\ caller'[c].tries = caller[c].tries /\ caller[c].tries \in Nat
      /\ UNCHANGED <<answers, result, status, executed, unanswered>>
      /\ UNCHANGED <<write_queue_, inflight, inbox>>
  BY DEF Emplace, send, Goto, CallTypes, venueVars, writeVars
<1>2. /\ ~InTransit(c) /\ executed[c] = 0
      /\ \A a \in answers : a.msg # c
      /\ result[c] \notin {"ack", "nak"}
  <2>1. Early(c) /\ executed[c] \in Nat
    BY <1>1 DEF Early, CallTypes
  <2> QED
    BY <2>1 DEF Outcome, AnswerOf
<1>3. ~Queued(c)' /\ ~Flying(c)' /\ ~Received(c)' /\ OnceIn(write_queue_, c)'
  BY <1>1, <1>2 DEF InTransit, Queued, Flying, Received, OneCopy, OnceIn, InQueue
<1>4. OneCopy(c)'
  BY <1>1, <1>3 DEF OneCopy
<1>5. Budget(c)' \in Nat /\ Budget(c)' >= 1 /\ ~Early(c)'
  BY <1>1 DEF Budget, Early
<1> QED
  BY <1>1, <1>2, <1>4, <1>5 DEF Outcome

LEMMA OrderStep == OrderInv /\ [Next]_vars => OrderInv'
<1> SUFFICES ASSUME OrderInv, [Next]_vars PROVE OrderInv'
  OBVIOUS
<1> USE DEF OrderInv
<1>1. Tokens' /\ OwnMessages' /\ CallTypes'
  BY TokensStep, OwnMessagesStep, CallTypesStep
<1> SUFFICES ASSUME NEW c \in Callers PROVE OneCopy(c)' /\ Outcome(c)'
  BY <1>1
<1>2. CASE Internal
  <2>1. UNCHANGED <<caller, result, status, executed, unanswered, answers>>
    BY <1>2 DEF Internal, tradeVars, venueVars
  <2>2. Moved(c)
    <3>1. CASE Attempting
      <4>1. UNCHANGED transit
        BY <1>2, <3>1 DEF Internal, Attempting, on_reconnect_timer,
           on_resolve_error, on_connect, on_ssl_handshake, attempt_error,
           writeVars, venueVars, transit
      <4> QED
        BY <4>1, TransitUnchanged
    <3> QED
      BY <1>2, <3>1, MovedDraining DEF Internal
  <2> QED
    BY <2>1, <2>2, OutcomeKept DEF Moved
<1>3. CASE Stream
  BY <1>3, OutcomeStream, MovedStream DEF Moved
<1>4. CASE Disconnect \/ UNCHANGED vars
  <2>1. UNCHANGED <<caller, result, status, executed, unanswered, answers>>
    BY <1>4 DEF Disconnect, vars, tradeVars, venueVars
  <2>2. UNCHANGED transit
    BY <1>4 DEF Disconnect, disconnect, vars, wsVars, writeVars, venueVars, transit
  <2>3. Moved(c)
    BY <2>2, TransitUnchanged
  <2> QED
    BY <2>1, <2>3, OutcomeKept DEF Moved
<1>5. CASE Venue
  BY <1>5, OutcomeVenue, MovedVenue DEF Moved
<1>6. ASSUME NEW d \in Callers, Calling(d) PROVE OneCopy(c)' /\ Outcome(c)'
  <2>1. CASE Sending(d)
    <3>1. UNCHANGED <<caller, result, status, executed, unanswered, answers>>
      BY <2>1 DEF Sending, tradeVars, venueVars
    <3> QED
      BY <2>1, <3>1, MovedSending, OutcomeKept DEF Moved
  <2>2. CASE d = c /\ ~Sending(d)
    BY <1>1, <1>6, <2>2, OutcomeCall, OutcomeEmplace DEF Calling
  <2>3. CASE d # c /\ ~Sending(d)
    <3>1. /\ caller'[c] = caller[c] /\ status'[c] = status[c]
          /\ executed'[c] = executed[c] /\ unanswered'[c] = unanswered[c]
          /\ UNCHANGED <<answers, result>>
      <4>1. CASE open_short(d) \/ Emplace(d) \/ Timeout(d) \/ EraseTimedOut(d)
        BY <2>3, <4>1 DEF open_short, Emplace, Timeout, EraseTimedOut, Goto,
                          Mark, CallTypes, venueVars
      <4>2. CASE GetResult(d) \/ RestFilled(d) \/ RestRefused(d)
        BY <2>3, <4>2 DEF GetResult, RestFilled, RestRefused, Return, Goto,
                          Count, CallTypes, venueVars
      <4>3. CASE RestBroken(d)
        BY <2>3, <4>3 DEF RestBroken, Return, Goto, Count, Mark, CallTypes
      <4> QED
        BY <1>6, <2>3, <4>1, <4>2, <4>3 DEF Calling
    <3>2. Moved(c)
      <4>1. CASE Emplace(d)
        <5>1. sender'[c] = sender[c] /\ UNCHANGED <<write_queue_, inflight, inbox>>
          BY <2>3, <4>1 DEF Emplace, send, Tokens, writeVars, venueVars
        <5> QED
          BY <5>1 DEF Moved, OneCopy, InTransit, Sends, Queued, Flying,
                      Received, OnceIn, InQueue
      <4>2. CASE ~Emplace(d)
        <5>1. UNCHANGED transit
          BY <1>6, <2>3, <4>2 DEF Calling, open_short, GetResult, Timeout,
             EraseTimedOut, RestFilled, RestRefused, RestBroken, venueVars,
             wsVars, writeVars, transit
        <5> QED
          BY <5>1, TransitUnchanged
      <4> QED
        BY <4>1, <4>2
    <3> QED
      BY <3>1, <3>2, OutcomeKept DEF Moved
  <2> QED
    BY <2>1, <2>2, <2>3
<1> QED
  BY <1>2, <1>3, <1>4, <1>5, <1>6 DEF Next

LEMMA OrderInit == Init => OrderInv
<1> SUFFICES ASSUME Init PROVE OrderInv
  OBVIOUS
<1>1. Tokens
  BY TokensInit
<1>2. OwnMessages
  BY DEF Init, WsInit, Quiet, OwnMessages
<1>3. CallTypes
  <2>1. 0 \in 0..MaxRetries-1
    BY TradeAssumption
  <2>2. [pc |-> "out", tries |-> 0] \in
          [pc : {"out", "emplace", "wait", "erase", "rest", "done"},
           tries : 0..MaxRetries-1]
    BY <2>1
  <2>3. caller \in [Callers -> [pc : {"out", "emplace", "wait", "erase", "rest",
                                      "done"},
                                tries : 0..MaxRetries-1]]
    BY <2>2 DEF Init
  <2>4. unanswered \in [Callers -> BOOLEAN]
    BY DEF Init
  <2> QED
    BY <2>3, <2>4 DEF Init, CallTypes
<1>4. ASSUME NEW c \in Callers PROVE OneCopy(c) /\ Outcome(c)
  <2>1. ~Sends(c) /\ ~Queued(c) /\ ~Flying(c) /\ ~Received(c) /\ OneCopy(c)
    BY CallersReal DEF Init, WsInit, Quiet, NoWrite, Sends, Queued, Flying,
                       Received, InQueue, OneCopy, OnceIn, Callers
  <2>2. ~InTransit(c)
    BY <2>1 DEF InTransit
  <2>3. /\ caller[c].pc = "out" /\ caller[c].tries = 0 /\ executed[c] = 0
        /\ result[c] = "none" /\ status[c] = "none" /\ answers = {}
    BY DEF Init
  <2>4. Budget(c) = 1
    BY <2>3 DEF Budget
  <2> QED
    BY <2>1, <2>2, <2>3, <2>4 DEF Outcome
<1> QED
  BY <1>1, <1>2, <1>3, <1>4 DEF OrderInv

\* An order is executed twice only after an attempt whose answer never came:
\* an acknowledged order is not repeated over REST, and a refused one was not
\* executed (place_order_sync and the fallback of open_short), however late
\* the venue acts on what it received and whatever reconnects meanwhile.
THEOREM AnsweredOrdersRunOnce == Spec => []OneUnlessUnanswered
<1>1. OrderInv => OneUnlessUnanswered
  <2> SUFFICES ASSUME OrderInv, NEW c \in Callers, executed[c] > 1
               PROVE  unanswered[c]
    BY DEF OneUnlessUnanswered
  <2>1. executed[c] \in Nat
    BY DEF OrderInv, CallTypes
  <2> QED
    BY <2>1 DEF OrderInv, Outcome
<1> QED
  BY <1>1, OrderInit, OrderStep, PTL DEF Spec

\* An order the adapter returns as Filled was executed by the venue.
THEOREM FilledOrdersRan == Spec => []FilledIsExecuted
<1>1. OrderInv => FilledIsExecuted
  BY DEF OrderInv, Outcome, FilledIsExecuted
<1> QED
  BY <1>1, OrderInit, OrderStep, PTL DEF Spec

\* However often the connection breaks, one call of open_short has its order
\* executed at most once over the WebSocket and once for each of the attempts
\* of RestClient::do_request.
ExecutionsBounded == \A c \in Callers : executed[c] <= MaxRetries + 1

\* One order is executed at most max_retries_ + 1 times.
THEOREM ExecutionsAreBounded == Spec => []ExecutionsBounded
<1>1. OrderInv => ExecutionsBounded
  <2> SUFFICES ASSUME OrderInv, NEW c \in Callers
               PROVE  executed[c] <= MaxRetries + 1
    BY DEF ExecutionsBounded
  <2>1. /\ executed[c] \in Nat /\ caller[c].tries \in 0..MaxRetries-1
        /\ executed[c] <= Budget(c)
    BY DEF OrderInv, CallTypes, Outcome
  <2>2. Budget(c) <= MaxRetries + 1
    BY <2>1, TradeAssumption DEF Budget
  <2>3. Budget(c) \in Nat
    BY <2>1, TradeAssumption DEF Budget
  <2> QED
    BY <2>1, <2>2, <2>3, TradeAssumption
<1> QED
  BY <1>1, OrderInit, OrderStep, PTL DEF Spec

=============================================================================
