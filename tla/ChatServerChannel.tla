------------------------- MODULE ChatServerChannel -------------------------
(***************************************************************************)
(* The room server's link to the chat server: a TCP client that connects   *)
(* in the background, reconnects after a delay, and sends notices while it *)
(* is connected.                                                           *)
(*                                                                         *)
(* The module models the completion queue of the io_context, because the   *)
(* order of completions is what the code depends on: an operation is       *)
(* pending until the kernel or the clock finishes it, its completion then  *)
(* waits in ready, and one handler runs at a time.  Closing a socket moves *)
(* its pending operations to ready as failures; it cannot take back a      *)
(* completion that is already there.                                       *)
(*                                                                         *)
(* The reconnect delay (5 s) is taken to outlast the completions that are  *)
(* already in the queue.  The chat server never answers, so a read         *)
(* finishes only when the connection does.                                 *)
(***************************************************************************)
EXTENDS Integers, Sequences, FiniteSets

CONSTANT MaxQueue   \* bound: length of write_queue_

ASSUME QueueAssumption == MaxQueue \in Nat

VARIABLES connected,    \* connected_
          stopped,      \* stopped_
          write_queue,  \* length of write_queue_
          pending,      \* operations the kernel or the clock works on
          ready,        \* the io_context's queue of completions
          corrupt       \* pop_front was called on an empty write_queue_

vars == <<connected, stopped, write_queue, pending, ready, corrupt>>

Operation == {"resolve", "connect", "read", "write", "timer"}
Completion == [op : Operation, ok : BOOLEAN]

TypeOK ==
    /\ connected \in BOOLEAN /\ stopped \in BOOLEAN /\ corrupt \in BOOLEAN
    /\ write_queue \in 0..MaxQueue
    /\ pending \subseteq Operation
    /\ ready \in Seq(Completion)

\* start() has been called.
Init ==
    /\ connected = FALSE
    /\ stopped = FALSE
    /\ write_queue = 0
    /\ pending = {"resolve"}
    /\ ready = <<>>
    /\ corrupt = FALSE

-----------------------------------------------------------------------------
(* The outside world: the kernel, the clock, and the callers.              *)

\* An operation finishes.  The wait of the timer ends only by expiry (a
\* cancelled wait runs a handler that does nothing).
Complete(op, ok) ==
    /\ ~corrupt
    /\ op \in pending
    /\ op = "timer" => ok /\ ready = <<>>
    /\ op = "read" => ~ok
    /\ pending' = pending \ {op}
    /\ ready' = Append(ready, [op |-> op, ok |-> ok])
    /\ UNCHANGED <<connected, stopped, write_queue, corrupt>>

\* Mutant: a queue of one is taken for an empty one.
WritesStartedTwice == IF write_queue <= 1 THEN {"write"} ELSE {}

\* send() starts a write when the queue was empty.
WritesStarted == IF write_queue = 0 THEN {"write"} ELSE {}

\* sendSessionCreated and sendSessionEnded; not connected, the notice is
\* dropped.  They are called from handlers of other connections.
Send ==
    /\ ~corrupt
    /\ connected
    /\ write_queue < MaxQueue
    /\ write_queue' = write_queue + 1
    /\ pending' = pending \cup WritesStarted
    /\ UNCHANGED <<connected, stopped, ready, corrupt>>

-----------------------------------------------------------------------------
(* close(), and what the handlers share.                                   *)

\* close() fails the operations of the socket that are pending.
Failed(op) == IF op \in pending THEN <<[op |-> op, ok |-> FALSE]>> ELSE <<>>
Aborts == Failed("read") \o Failed("write")

QueueAfterClose == IF connected THEN 0 ELSE write_queue

\* Close and then wait for the operations of wait; rest is what is left of
\* the completion queue.
CloseAnd(wait, rest) ==
    /\ connected' = FALSE
    /\ write_queue' = QueueAfterClose
    /\ pending' = (IF connected THEN pending \ {"read", "write"} ELSE pending)
                  \cup wait
    /\ ready' = rest \o IF connected THEN Aborts ELSE <<>>

\* Mutant: a reconnect is scheduled only if close() has nothing to do.
TimerStartedUnlessConnected == IF stopped \/ connected THEN {} ELSE {"timer"}

\* Mutant: the next attempt starts at once.
TimerStartedSkipped == IF stopped THEN {} ELSE {"resolve"}

\* scheduleReconnect: a new wait replaces the one before it.
TimerStarted == IF stopped THEN {} ELSE {"timer"}

Completed(op, ok) ==
    /\ ~corrupt
    /\ ready # <<>>
    /\ Head(ready) = [op |-> op, ok |-> ok]

-----------------------------------------------------------------------------
(* Completion handlers.                                                    *)

\* The handler of async_resolve.  doConnect returns if stopped_ is set.
OnResolve(ok) ==
    /\ Completed("resolve", ok)
    /\ ready' = Tail(ready)
    /\ pending' = pending \cup (IF ~ok THEN TimerStarted
                                ELSE IF stopped THEN {} ELSE {"connect"})
    /\ UNCHANGED <<connected, stopped, write_queue, corrupt>>

\* The handler of async_connect, which does not look at stopped_.
OnConnect(ok) ==
    /\ Completed("connect", ok)
    /\ ready' = Tail(ready)
    /\ connected' = (connected \/ ok)
    /\ pending' = pending \cup (IF ok THEN {"read"} ELSE TimerStarted)
    /\ UNCHANGED <<stopped, write_queue, corrupt>>

\* The reconnect timer: a new socket, and the next attempt.
OnTimer ==
    /\ Completed("timer", TRUE)
    /\ ready' = Tail(ready)
    /\ pending' = pending \cup (IF stopped THEN {} ELSE {"resolve"})
    /\ UNCHANGED <<connected, stopped, write_queue, corrupt>>

\* A read or a write failed: the link is lost.
OnFailure(op) ==
    /\ op \in {"read", "write"}
    /\ Completed(op, FALSE)
    /\ CloseAnd(TimerStarted, Tail(ready))
    /\ UNCHANGED <<stopped, corrupt>>

\* A write is done.  On an empty queue pop_front is undefined: the model
\* stops there.
OnWritten ==
    /\ Completed("write", TRUE)
    /\ ready' = Tail(ready)
    /\ corrupt' = (write_queue = 0)
    /\ write_queue' = IF write_queue = 0 THEN 0 ELSE write_queue - 1
    /\ pending' = pending \cup (IF write_queue > 1 /\ connected THEN {"write"}
                                                                ELSE {})
    /\ UNCHANGED <<connected, stopped>>

\* stop(), from the signal handler.
Stop ==
    /\ ~corrupt
    /\ ~stopped
    /\ stopped' = TRUE
    /\ connected' = FALSE
    /\ write_queue' = QueueAfterClose
    /\ pending' = pending \ (IF connected THEN {"timer", "read", "write"}
                                          ELSE {"timer"})
    /\ ready' = ready \o IF connected THEN Aborts ELSE <<>>
    /\ UNCHANGED corrupt

-----------------------------------------------------------------------------

Handler ==
    \/ \E ok \in BOOLEAN : OnResolve(ok) \/ OnConnect(ok)
    \/ OnTimer
    \/ \E op \in {"read", "write"} : OnFailure(op)
    \/ OnWritten

Attempt == \E op \in {"resolve", "connect", "timer"}, ok \in BOOLEAN : Complete(op, ok)

Next ==
    \/ Handler
    \/ \E op \in Operation, ok \in BOOLEAN : Complete(op, ok)
    \/ Send
    \/ Stop

\* Handlers in the queue run; names are resolved, connects succeed or fail
\* and timers expire in finite time.
Spec == Init /\ [][Next]_vars /\ WF_vars(Handler) /\ WF_vars(Attempt)

-----------------------------------------------------------------------------
(* Properties.                                                             *)

\* The operations of ops that are pending or completed and not yet handled.
Underway(ops) ==
    Cardinality(pending \cap ops)
    + Cardinality({i \in 1..Len(ready) : ready[i].op \in ops})

\* While the link is up, exactly one write is under way if there is something
\* to send, and none otherwise: the was_idle test neither forgets a notice nor
\* starts a second write, in this connection or left over from the last one.
QueueServed ==
    connected /\ ~corrupt =>
        Underway({"write"}) = IF write_queue > 0 THEN 1 ELSE 0

\* There is one attempt to connect at a time, and none, nor a timer for one,
\* while the link is up (the timer's handler would replace the live socket),
\* though a lost link schedules a reconnect from two handlers.
OneAttempt ==
    /\ Underway({"resolve", "connect", "timer"}) <= 1
    /\ connected => Underway({"resolve", "connect", "timer"}) = 0

\* A link that is down is tried again, until the server stops.
Retries == ~connected ~> "resolve" \in pending \/ connected \/ stopped \/ corrupt

\* What the repository says and the code does not do (see README, findings).

\* The loss of the link is survived, so the queue is never popped when empty.
LossSurvived == ~corrupt

=============================================================================
