--------------------------- MODULE WebSocketClient ---------------------------
(***************************************************************************)
(* network::WebSocketClient: one connection that reconnects by itself, and *)
(* a queue of messages that any thread may send and one writer drains.     *)
(*                                                                         *)
(* Completion handlers of the stream run one at a time on strand_; the     *)
(* timer and the resolver have executors of their own, so on_resolve and   *)
(* on_reconnect_timer interleave with them.  A handler is one step, except *)
(* where it shares the queue with the senders: do_write is one step per    *)
(* access of write_queue_ and is_writing_.  What the operations on a       *)
(* stream do that was replaced is kept: its reads and handshakes complete  *)
(* as aborted, which is ignored, its write completes as aborted, which is  *)
(* not.                                                                    *)
(***************************************************************************)
EXTENDS Integers, Sequences, FiniteSets

CONSTANTS
  Senders,                \* threads that call send()
  QueueCap,               \* of write_queue_ (256)
  MaxFaults,              \* bound: operations the network makes fail
  NoMsg

ASSUME ClientAssumption ==
  QueueCap \in Nat \ {0} /\ MaxFaults \in Nat /\ NoMsg \notin Senders

VARIABLES
  state_, should_reconnect_,
  timer,                  \* a wait of reconnect_timer_ is outstanding
  resolving,              \* resolutions under way
  phase,                  \* the operation ws_ is at, or what became of it
  reading,                \* a read is outstanding on ws_
  strand,                 \* where the handler running on strand_ is, or "free"
  posted,                 \* do_write was dispatched and has not begun
  write_queue_, is_writing_,
  inflight,               \* current_write_message_; doomed: its stream was not
                          \* open, or was replaced since
  sender,                 \* sender[p]: its place in send(), and its message
  faults

netVars == <<state_, should_reconnect_, timer, resolving, phase, reading>>
writeVars == <<strand, posted, write_queue_, is_writing_, inflight>>
wsVars == <<netVars, writeVars, sender, faults>>

Quiet == [pc |-> "out", msg |-> NoMsg]
NoWrite == [msg |-> NoMsg, doomed |-> FALSE]
Attempt == {"tcp", "ssl", "handshake"}

WsInit ==
  /\ state_ = "Disconnected" /\ should_reconnect_ = TRUE
  /\ timer = FALSE /\ resolving = 0 /\ phase = "none" /\ reading = FALSE
  /\ strand = "free" /\ posted = FALSE
  /\ write_queue_ = <<>> /\ is_writing_ = FALSE /\ inflight = NoWrite
  /\ sender = [p \in Senders |-> Quiet]
  /\ faults = 0

StrandFree == strand = "free"
\* An aborted write is queued on strand_ before any later completion of the
\* network
StrandIdle == StrandFree /\ ~inflight.doomed
Fail == faults < MaxFaults /\ faults' = faults + 1
Writing == inflight # NoWrite

-----------------------------------------------------------------------------
(* connect(), disconnect() and reconnection.                               *)

connect ==
  /\ state_ \notin {"Connected", "Connecting"}
  /\ state_' = "Connecting" /\ should_reconnect_' = TRUE
  /\ resolving' = resolving + 1
  /\ UNCHANGED <<timer, phase, reading, writeVars, sender, faults>>

\* cancel() does not reach a wait whose handler is already queued
disconnect ==
  /\ should_reconnect_' = FALSE
  /\ timer' \in {FALSE, timer}
  /\ state_' = "Disconnected"
  /\ phase' = IF state_ # "Disconnected" /\ phase = "open"
              THEN "closing" ELSE phase
  /\ UNCHANGED <<resolving, reading, writeVars, sender, faults>>

\* mutant: nothing is done for an attempt that fails
reconnect_unless_connecting ==
  IF should_reconnect_ /\ state_ # "Connecting"
  THEN state_' = "Reconnecting" /\ timer' = TRUE
  ELSE UNCHANGED <<state_, timer>>

\* reconnect() and schedule_reconnect(), which re-arms the one timer
reconnect ==
  IF should_reconnect_
  THEN state_' = "Reconnecting" /\ timer' = TRUE
  ELSE UNCHANGED <<state_, timer>>

on_reconnect_timer ==
  /\ timer /\ timer' = FALSE
  /\ state_' = "Connecting" /\ resolving' = resolving + 1
  /\ UNCHANGED <<should_reconnect_, phase, reading, writeVars, sender, faults>>

-----------------------------------------------------------------------------
(* The attempt: resolve, TCP, TLS and WebSocket handshake.                 *)

\* The old stream is destroyed; its write, if any, will complete as aborted
on_resolve ==
  /\ resolving > 0 /\ resolving' = resolving - 1
  /\ phase' = "tcp" /\ reading' = FALSE
  /\ inflight' = IF Writing THEN [inflight EXCEPT !.doomed = TRUE] ELSE inflight
  /\ UNCHANGED <<state_, should_reconnect_, timer, strand, posted,
                 write_queue_, is_writing_, sender, faults>>

on_resolve_error ==
  /\ resolving > 0 /\ resolving' = resolving - 1
  /\ Fail /\ reconnect
  /\ UNCHANGED <<should_reconnect_, phase, reading, writeVars, sender>>

on_connect ==
  /\ StrandIdle /\ phase = "tcp" /\ phase' = "ssl"
  /\ UNCHANGED <<state_, should_reconnect_, timer, resolving, reading,
                 writeVars, sender, faults>>

on_ssl_handshake ==
  /\ StrandIdle /\ phase = "ssl" /\ phase' = "handshake"
  /\ UNCHANGED <<state_, should_reconnect_, timer, resolving, reading,
                 writeVars, sender, faults>>

\* state_, then the callback on_connect_, then do_read
on_handshake ==
  /\ StrandIdle /\ phase = "handshake"
  /\ phase' = "open" /\ state_' = "Connected" /\ reading' = TRUE
  /\ strand' = "callback"
  /\ UNCHANGED <<should_reconnect_, timer, resolving, posted, write_queue_,
                 is_writing_, inflight, sender, faults>>

attempt_error ==
  /\ StrandIdle /\ phase \in Attempt /\ phase' = "broken"
  /\ Fail /\ reconnect
  /\ UNCHANGED <<should_reconnect_, resolving, reading, writeVars, sender>>

-----------------------------------------------------------------------------
(* Reading.  Messages are delivered by the module that has the callback.   *)

CanRead == StrandFree /\ reading

\* the server closes: on_disconnect_ is called, by the module that has it
on_read_closed ==
  /\ CanRead /\ reading' = FALSE /\ phase' = "broken"
  /\ IF phase = "closing" THEN UNCHANGED faults ELSE Fail
  /\ reconnect
  /\ UNCHANGED <<should_reconnect_, resolving, writeVars, sender>>

\* any other error: on_disconnect_ is not called
on_read_error ==
  /\ CanRead /\ reading' = FALSE /\ phase' = "broken"
  /\ Fail /\ reconnect
  /\ UNCHANGED <<should_reconnect_, resolving, writeVars, sender>>

\* async_close completes: on_disconnect_
on_close ==
  /\ StrandFree /\ phase = "closing" /\ phase' = "closed"
  /\ UNCHANGED <<state_, should_reconnect_, timer, resolving, reading,
                 writeVars, sender, faults>>

-----------------------------------------------------------------------------
(* send(), from any thread, and the writer.                                *)

send(p, msg) ==
  /\ sender[p].pc = "out"
  /\ sender' = [sender EXCEPT ![p] = [pc |-> "check", msg |-> msg]]
  /\ UNCHANGED <<netVars, writeVars, faults>>

send_check(p) ==
  /\ sender[p].pc = "check"
  /\ sender' = IF state_ = "Connected"
               THEN [sender EXCEPT ![p].pc = "push"]
               ELSE [sender EXCEPT ![p] = Quiet]
  /\ UNCHANGED <<netVars, writeVars, faults>>

HasRoom == Len(write_queue_) < QueueCap

send_push(p) ==
  /\ sender[p].pc = "push"
  /\ IF HasRoom
     THEN /\ write_queue_' = Append(write_queue_, sender[p].msg)
          /\ sender' = [sender EXCEPT ![p].pc = "kick"]
     ELSE /\ sender' = [sender EXCEPT ![p] = Quiet]
          /\ UNCHANGED write_queue_
  /\ UNCHANGED <<netVars, strand, posted, is_writing_, inflight, faults>>

\* mutant: do_write is dispatched by every send()
Idle_always == TRUE

\* is_writing_.exchange(true), and the dispatch of do_write
Idle == ~is_writing_

send_kick(p) ==
  /\ sender[p].pc = "kick"
  /\ posted' = (posted \/ Idle)
  /\ is_writing_' = TRUE
  /\ sender' = [sender EXCEPT ![p] = Quiet]
  /\ UNCHANGED <<netVars, strand, write_queue_, inflight, faults>>

\* send() from the callback, on strand_: the dispatch runs do_write at once
callback_push(msg) ==
  /\ strand = "callback"
  /\ IF state_ = "Connected" /\ HasRoom
     THEN write_queue_' = Append(write_queue_, msg) /\ strand' = "kick"
     ELSE strand' = "free" /\ UNCHANGED write_queue_
  /\ UNCHANGED <<netVars, posted, is_writing_, inflight, sender, faults>>

callback_kick ==
  /\ strand = "kick"
  /\ strand' = IF is_writing_ THEN "free" ELSE "pop"
  /\ is_writing_' = TRUE
  /\ UNCHANGED <<netVars, posted, write_queue_, inflight, sender, faults>>

do_write ==
  /\ StrandFree /\ posted
  /\ posted' = FALSE /\ strand' = "pop"
  /\ UNCHANGED <<netVars, write_queue_, is_writing_, inflight, sender, faults>>

do_write_pop ==
  /\ strand = "pop"
  /\ IF write_queue_ = <<>>
     THEN strand' = "release" /\ UNCHANGED <<write_queue_, inflight>>
     ELSE /\ inflight' = [msg |-> Head(write_queue_), doomed |-> phase # "open"]
          /\ write_queue_' = Tail(write_queue_)
          /\ strand' = "free"
  /\ UNCHANGED <<netVars, posted, is_writing_, sender, faults>>

do_write_release ==
  /\ strand = "release" /\ strand' = "recheck"
  /\ is_writing_' = FALSE
  /\ UNCHANGED <<netVars, posted, write_queue_, inflight, sender, faults>>

\* mutant: the queue is not looked at again
AfterRecheck_never == "free"

AfterRecheck == IF write_queue_ = <<>> THEN "free" ELSE "reacquire"

do_write_recheck ==
  /\ strand = "recheck" /\ strand' = AfterRecheck
  /\ UNCHANGED <<netVars, posted, write_queue_, is_writing_, inflight,
                 sender, faults>>

do_write_reacquire ==
  /\ strand = "reacquire"
  /\ strand' = IF is_writing_ THEN "free" ELSE "pop"
  /\ is_writing_' = TRUE
  /\ UNCHANGED <<netVars, posted, write_queue_, inflight, sender, faults>>

\* The bytes are with the kernel; the writer goes on with the next message
on_write ==
  /\ StrandFree /\ Writing /\ ~inflight.doomed
  /\ inflight' = NoWrite /\ strand' = "pop"
  /\ UNCHANGED <<netVars, posted, write_queue_, is_writing_, sender, faults>>

\* Reconnects for every error, the aborted write of a replaced stream included
on_write_error ==
  /\ StrandFree /\ Writing
  /\ IF inflight.doomed \/ phase # "open" THEN UNCHANGED faults ELSE Fail
  /\ inflight' = NoWrite /\ is_writing_' = FALSE
  /\ reconnect
  /\ UNCHANGED <<should_reconnect_, resolving, phase, reading, strand, posted,
                 write_queue_, sender>>

-----------------------------------------------------------------------------
(* Steps that no other module's state takes part in.                       *)

Attempting ==
  \/ on_reconnect_timer
  \/ on_resolve_error \/ on_connect \/ on_ssl_handshake \/ attempt_error

Draining ==
  \/ callback_kick \/ do_write \/ do_write_pop \/ do_write_release
  \/ do_write_recheck \/ do_write_reacquire \/ on_write_error

WsTypeOK ==
  /\ state_ \in {"Disconnected", "Connecting", "Connected", "Reconnecting"}
  /\ should_reconnect_ \in BOOLEAN /\ timer \in BOOLEAN
  /\ resolving \in Nat /\ faults \in 0..MaxFaults
  /\ phase \in {"none", "tcp", "ssl", "handshake", "open", "closing",
                "closed", "broken"}
  /\ reading \in BOOLEAN /\ posted \in BOOLEAN /\ is_writing_ \in BOOLEAN
  /\ strand \in {"free", "callback", "kick", "pop", "release", "recheck",
                 "reacquire"}
  /\ Len(write_queue_) \in 0..QueueCap
  /\ \A p \in Senders : sender[p].pc \in {"out", "check", "push", "kick"}

\* The client is never left without a way back: until disconnect() is called,
\* a reconnect is scheduled, an attempt is under way, or a read is outstanding
\* whose failure will schedule one (reconnect, on_read, handle_error).
NeverStranded ==
  should_reconnect_ /\ state_ # "Disconnected" =>
    timer \/ resolving > 0 \/ phase \in Attempt \/ reading

\* is_writing_ is the writer's token: set exactly while one do_write is
\* dispatched, running or waiting for its write, so that two writes are never
\* outstanding and current_write_message_ is not overwritten under one.
Holders ==
  (IF posted THEN 1 ELSE 0) + (IF Writing THEN 1 ELSE 0)
    + (IF strand \in {"pop", "release"} THEN 1 ELSE 0)

OneWriter == Holders = IF is_writing_ THEN 1 ELSE 0
=============================================================================
