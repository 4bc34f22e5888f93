------------------------------- MODULE Session -------------------------------
(***************************************************************************)
(* A connection of the viewer to another one (tcp_session in               *)
(* core/mrvServer.cpp; the client in core/mrvClient.cpp sends likewise):   *)
(* any thread delivers messages to its output queue, and an output actor,  *)
(* made of handlers that the network thread runs one at a time, writes     *)
(* them to the socket.  With nothing to write the actor sleeps on a timer  *)
(* that never expires; deliver() makes it expire.                          *)
(*                                                                         *)
(* deliver() and start_write() take the mutex of the session, await_output *)
(* and handle_write() do not.  Whoever goes over the connections to write  *)
(* to them or to remove them holds the mutex of the list.  What stop()     *)
(* does to that list is left out, and messages are numbered as they come.  *)
(***************************************************************************)
EXTENDS Naturals, Sequences

CONSTANT MaxMessages   \* bound on the messages delivered

ASSUME SessionAssumption == MaxMessages \in Nat

VARIABLES
  open,       \* socket_.is_open()
  queue,      \* output_queue_
  expiry,     \* when non_empty_output_queue_ expires: "never" or "past"
  waits,      \* async_waits of await_output() on the timer
  posted,     \* ended waits, whose handler has yet to run
  writes,     \* async_writes under way or ended, whose handler has yet to run
  io,         \* where the network thread is
  ui,         \* where the UI thread is
  delivered,  \* history: how many messages have been delivered
  sent        \* history: what has been written to the socket

timer == <<expiry, waits, posted>>
history == <<delivered, sent>>
vars == <<open, queue, timer, writes, io, ui, history>>

\* "check", "reset" and "wait": in await_output(); "write": about to lock the
\* mutex in start_write(); "deliver" and "signal": in Parser::write(), before and
\* in deliver(); "cancel": in server::remove().
ActorPlaces == {"check", "reset", "wait", "write"}

TypeOK ==
  /\ open \in {"open", "closed"}
  /\ queue \in Seq(1..MaxMessages)
  /\ expiry \in {"never", "past"}
  /\ waits \in Nat /\ posted \in Nat /\ writes \in Nat
  /\ io \in ActorPlaces \cup {"idle", "signal"}
  /\ ui \in {"idle", "deliver", "signal", "cancel"}
  /\ delivered \in 0..MaxMessages
  /\ sent \in Seq(1..MaxMessages)

\* start() has called await_output().
Init ==
  /\ open = "open"
  /\ queue = <<>>
  /\ expiry = "never"
  /\ waits = 0 /\ posted = 0 /\ writes = 0
  /\ io = "check"
  /\ ui = "idle"
  /\ delivered = 0
  /\ sent = <<>>

stopped == open = "closed"

-----------------------------------------------------------------------------
\* The timer.  A new expiry, like cancel(), ends the waits under way.

\* Mutant: an expiry that ends no wait.
ExpireUnheard ==
  /\ expiry' = "past"
  /\ UNCHANGED <<waits, posted>>

EndWaits ==
  /\ waits' = 0
  /\ posted' = posted + waits

Expire ==
  /\ expiry' = "past"
  /\ EndWaits

-----------------------------------------------------------------------------
\* deliver(), from the UI thread or, for what another viewer has sent, from the
\* network thread.  Parser::write() skips a session that is closed; to the UI
\* thread, one may close just after.

Deliver ==
  /\ queue' = Append(queue, delivered + 1)
  /\ delivered' = delivered + 1

UiWrite ==
  /\ ui = "idle" /\ io # "signal"
  /\ ~stopped
  /\ delivered < MaxMessages
  /\ ui' = "deliver"
  /\ UNCHANGED <<open, queue, timer, writes, io, history>>

UiDeliver ==
  /\ ui = "deliver"
  /\ Deliver
  /\ ui' = "signal"
  /\ UNCHANGED <<open, timer, writes, io, sent>>

UiSignal ==
  /\ ui = "signal"
  /\ Expire
  /\ ui' = "idle"
  /\ UNCHANGED <<open, queue, writes, io, history>>

IoDeliver ==
  /\ io = "idle" /\ ui = "idle"
  /\ ~stopped
  /\ delivered < MaxMessages
  /\ Deliver
  /\ io' = "signal"
  /\ UNCHANGED <<open, timer, writes, ui, sent>>

\* Mutant: a delivery that starts to write of its own.
IoSignalAndWrite ==
  /\ io = "signal"
  /\ Expire
  /\ io' = "write"
  /\ UNCHANGED <<open, queue, writes, ui, history>>

IoSignal ==
  /\ io = "signal"
  /\ Expire
  /\ io' = "idle"
  /\ UNCHANGED <<open, queue, writes, ui, history>>

-----------------------------------------------------------------------------
\* The output actor.

\* The network thread runs the handler of a wait ...
Awake ==
  /\ io = "idle"
  /\ posted > 0
  /\ posted' = posted - 1
  /\ io' = "check"
  /\ UNCHANGED <<open, queue, expiry, waits, writes, ui, history>>

\* ... which is await_output(): nothing if stopped() ...
Check ==
  /\ io = "check"
  /\ io' = IF stopped THEN "idle" ELSE IF queue = <<>> THEN "reset" ELSE "write"
  /\ UNCHANGED <<open, queue, timer, writes, ui, history>>

\* ... expires_at(pos_infin) ...
Reset ==
  /\ io = "reset"
  /\ expiry' = "never"
  /\ EndWaits
  /\ io' = "wait"
  /\ UNCHANGED <<open, queue, writes, ui, history>>

\* ... and async_wait(), which ends at once if the expiry has passed.
Wait ==
  /\ io = "wait"
  /\ IF expiry = "past" THEN posted' = posted + 1 /\ UNCHANGED waits
                        ELSE waits' = waits + 1 /\ UNCHANGED posted
  /\ io' = "idle"
  /\ UNCHANGED <<open, queue, expiry, writes, ui, history>>

StartWrite ==
  /\ io = "write"
  /\ ui # "signal"
  /\ writes' = writes + 1
  /\ io' = "idle"
  /\ UNCHANGED <<open, queue, timer, ui, history>>

\* Mutant: what was written last is taken off the queue.
WrittenLast ==
  /\ io = "idle"
  /\ writes > 0
  /\ ~stopped
  /\ sent' = Append(sent, Head(queue))
  /\ queue' = SubSeq(queue, 1, Len(queue) - 1)
  /\ writes' = writes - 1
  /\ io' = "check"
  /\ UNCHANGED <<open, timer, ui, delivered>>

\* handle_write() of a message that was written: it leaves the queue, and
\* await_output() looks for the next.
Written ==
  /\ io = "idle"
  /\ writes > 0
  /\ ~stopped
  /\ sent' = Append(sent, Head(queue))
  /\ queue' = Tail(queue)
  /\ writes' = writes - 1
  /\ io' = "check"
  /\ UNCHANGED <<open, timer, ui, delivered>>

\* stop() by the network thread.
Close ==
  /\ open' = "closed"
  /\ EndWaits
  /\ UNCHANGED expiry

\* Mutant: a session that goes on after an error.
WriteFailsUnnoticed ==
  /\ io = "idle"
  /\ writes > 0
  /\ writes' = writes - 1
  /\ UNCHANGED <<open, queue, timer, io, ui, history>>

\* handle_write() of a message that was not.
WriteFails ==
  /\ io = "idle"
  /\ writes > 0
  /\ writes' = writes - 1
  /\ IF stopped THEN UNCHANGED <<open, timer>> ELSE Close
  /\ UNCHANGED <<queue, io, ui, history>>

\* handle_read() with an error: the peer has gone.
ReadFails ==
  /\ io = "idle"
  /\ ~stopped
  /\ Close
  /\ UNCHANGED <<queue, writes, io, ui, history>>

\* stop() by the UI thread, in server::remove(), between any two steps of the
\* network thread: it closes the socket ...
Remove ==
  /\ ui = "idle" /\ io # "signal"
  /\ ~stopped
  /\ open' = "closed"
  /\ ui' = "cancel"
  /\ UNCHANGED <<queue, timer, writes, io, history>>

\* ... and cancels the timer.
RemoveCancel ==
  /\ ui = "cancel"
  /\ EndWaits
  /\ ui' = "idle"
  /\ UNCHANGED <<open, queue, expiry, writes, io, history>>

-----------------------------------------------------------------------------
Actor ==
  \/ Awake
  \/ Check
  \/ Reset
  \/ Wait
  \/ StartWrite
  \/ Written
  \/ WriteFails

Next ==
  \/ Actor
  \/ UiSignal
  \/ IoSignal
  \/ UiWrite
  \/ UiDeliver
  \/ IoDeliver
  \/ ReadFails
  \/ Remove
  \/ RemoveCancel

Spec == Init /\ [][Next]_vars

\* The network thread runs the handlers that are due, a write ends one way or
\* the other, and a deliver() that began goes on.  The network thread may be
\* given messages to deliver again and again, and serves the actor all the same.
Fairness ==
  /\ SF_vars(Awake) /\ WF_vars(Check) /\ WF_vars(Reset) /\ WF_vars(Wait)
  /\ SF_vars(StartWrite)
  /\ SF_vars(Written \/ WriteFails)
  /\ WF_vars(UiSignal) /\ WF_vars(IoSignal)

FairSpec == Spec /\ Fairness

-----------------------------------------------------------------------------
\* The peer gets the messages in the order they were delivered in, none of them
\* twice and none left out, and those it has not got are in the queue, however
\* the threads push and pop at its two ends.
SentInOrder ==
  /\ \A i \in 1..Len(sent) : sent[i] = i
  /\ \A i \in 1..Len(queue) : queue[i] = Len(sent) + i
  /\ delivered = Len(sent) + Len(queue)

\* Where the output actor is: in a wait, a write, or a handler.
Incarnations ==
  waits + posted + writes + (IF io \in ActorPlaces THEN 1 ELSE 0)

\* There is one output actor as long as the session is open.  With two of them
\* two writes would mix on the socket; with none a session that is connected
\* would never send again.
OneActor ==
  /\ Incarnations <= 1
  /\ ~stopped => Incarnations = 1

\* The actor finds a message to write when it comes to write one.
WritesSomething ==
  ~stopped /\ (io = "write" \/ writes > 0) => queue # <<>>

\* A message that is delivered while the actor sleeps is sent, with all that
\* was queued before it, unless the session is closed.  (One that comes when
\* the actor has found the queue empty and not yet reset the timer waits for
\* the next one.)
SleeperSends ==
  \A n \in 1..MaxMessages :
    delivered = n /\ (ui = "signal" \/ io = "signal") /\ waits > 0 ~> Len(sent) >= n \/ stopped
=============================================================================
