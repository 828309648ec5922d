----------------------------- MODULE SessionIo -----------------------------
(***************************************************************************)
(* The asynchronous I/O of one connection that a server has accepted:      *)
(* reading and decoding, the write queue, the heartbeat timer and close(). *)
(* Four classes share this code with small differences, and kind says      *)
(* which one the session is:                                               *)
(*                                                                         *)
(*   client    ClientSession      heartbeat, rate limit that closes        *)
(*   chat      ChatSession        heartbeat, send() refused once closed    *)
(*   game      GameServerSession  the loop does not look at closed_        *)
(*   internal  InternalSession    likewise, and it never sends             *)
(*                                                                         *)
(* As in ChatServerChannel, an operation is pending until the kernel or    *)
(* the clock finishes it and its completion then waits in ready.  close()  *)
(* fails the pending operations; it cannot take back what is in ready.  An *)
(* operation started on a closed socket fails at once.  The object lives   *)
(* as long as some handler refers to it.                                   *)
(*                                                                         *)
(* The peer sends a stream of frames, of which a read takes any number of  *)
(* bytes.  What a message means is left to RoomManager and ChannelManager; *)
(* the replies it causes, and what other handlers send, are Send.          *)
(***************************************************************************)
EXTENDS Codec, FiniteSets

CONSTANTS Streams,   \* the sequences of messages that peers send
          ReadSize,  \* size of read_buffer_
          MaxQueue   \* bound: length of write_queue_

ASSUME SessionIoAssumption ==
    /\ Streams \subseteq Seq(Seq(Byte))
    /\ ReadSize \in Nat \ {0}
    /\ MaxQueue \in Nat \ {0}

VARIABLES kind,       \* the class of the session
          session,    \* closed_, write_queue_ (its length) and the reactor
          stream,     \* the messages that the peer sends
          wire,       \* their bytes that have not been read yet
          buffer,     \* the codec's buffer_
          processed   \* the messages given to processMessage and not refused

vars == <<kind, session, stream, wire, buffer, processed>>

Kind == {"client", "chat", "game", "internal"}
HasHeartbeat == kind \in {"client", "chat"}
LooksAtClosed == kind \in {"client", "chat"}
Sends == kind # "internal"

Operation == {"read", "write", "timer"}
Completion == [op : Operation, ok : BOOLEAN, size : 0..ReadSize]

\* Message number n from the end.
FromEnd(messages, n) == messages[Len(messages) - n + 1]

\* The bytes of the last n messages, and of all.
LastBytes(messages) ==
    LET last[n \in 0..Len(messages)] ==
            IF n = 0 THEN <<>> ELSE encode(FromEnd(messages, n)) \o last[n - 1]
    IN last
Bytes(messages) == LastBytes(messages)[Len(messages)]

TypeOK ==
    /\ kind \in Kind
    /\ session.closed \in BOOLEAN
    /\ session.write_queue \in 0..MaxQueue
    /\ session.pending \subseteq Operation
    /\ session.ready \in Seq(Completion)
    /\ stream \in Streams
    /\ wire \in Seq(Byte)
    /\ buffer \in Seq(Byte)
    /\ processed \in Seq(Seq(Byte))

-----------------------------------------------------------------------------
(* The methods of a session, as functions of its state.                    *)

\* An operation on the socket.
begin(s, op) ==
    IF s.closed
    THEN [s EXCEPT !.ready = Append(@, [op |-> op, ok |-> FALSE, size |-> 0])]
    ELSE [s EXCEPT !.pending = @ \cup {op}]

doRead(s) == begin(s, "read")

\* Mutant: the wait is cancelled and no new one begins.
resetHeartbeatTimerNever(s) == [s EXCEPT !.pending = @ \ {"timer"}]

\* A new wait replaces the one before it; one that has expired stays in ready.
resetHeartbeatTimer(s) ==
    IF HasHeartbeat THEN [s EXCEPT !.pending = @ \cup {"timer"}] ELSE s

doWrite(s) == IF s.write_queue = 0 THEN s ELSE begin(s, "write")

\* Mutant: a queue of one is taken for an idle one.
sendBusy(s) ==
    LET queued == [s EXCEPT !.write_queue = @ + 1]
    IN IF kind = "chat" /\ s.closed THEN s
       ELSE IF s.write_queue <= 1 THEN doWrite(queued) ELSE queued

send(s) ==
    LET queued == [s EXCEPT !.write_queue = @ + 1]
    IN IF kind = "chat" /\ s.closed THEN s
       ELSE IF s.write_queue = 0 THEN doWrite(queued) ELSE queued

\* close() fails the operations of the socket that are pending.
Failed(s, op) ==
    IF op \in s.pending THEN <<[op |-> op, ok |-> FALSE, size |-> 0]>> ELSE <<>>
Aborted(s) == Failed(s, "read") \o Failed(s, "write")

\* Mutant: the queue is cleared, as ChatServerChannel::close() does.
closeClearing(s) ==
    IF s.closed THEN s
    ELSE [s EXCEPT !.closed = TRUE, !.pending = {}, !.ready = @ \o Aborted(s),
                   !.write_queue = 0]

\* Mutant: the socket is shut down but not closed, and the timer not cancelled.
closeQuietly(s) == [s EXCEPT !.closed = TRUE]

\* The handler of the cancelled wait does nothing and is left out.
close(s) ==
    IF s.closed THEN s
    ELSE [s EXCEPT !.closed = TRUE, !.pending = {}, !.ready = @ \o Aborted(s)]

Init ==
    /\ kind \in Kind
    /\ session = doRead(resetHeartbeatTimer(
                     [closed |-> FALSE, write_queue |-> 0,
                      pending |-> {}, ready |-> <<>>]))
    /\ stream \in Streams
    /\ wire = Bytes(stream)
    /\ buffer = <<>>
    /\ processed = <<>>

-----------------------------------------------------------------------------
(* The kernel, the clock and other handlers.                               *)

Completes(op, ok, size) ==
    /\ op \in session.pending
    /\ session' = [session EXCEPT
                     !.pending = @ \ {op},
                     !.ready = Append(@, [op |-> op, ok |-> ok, size |-> size])]
    /\ UNCHANGED <<kind, stream, wire, buffer, processed>>

\* Some bytes have arrived.
BytesArrive(size) ==
    /\ size \in 1..ReadSize
    /\ size <= Len(wire)
    /\ Completes("read", TRUE, size)

\* The end of the stream, or an error of the socket.
SocketFails(op) == op \in {"read", "write"} /\ Completes(op, FALSE, 0)

Written == Completes("write", TRUE, 0)

TimerExpires == Completes("timer", TRUE, 0)

Alive == session.pending # {} \/ session.ready # <<>>

\* Somebody who holds the session calls send().
Send ==
    /\ Sends
    /\ Alive
    /\ session.write_queue < MaxQueue
    /\ session' = send(session)
    /\ UNCHANGED <<kind, stream, wire, buffer, processed>>

-----------------------------------------------------------------------------
(* Completion handlers.                                                    *)

\* The completion that is handled next, and the session without it.
Handling(op, ok) ==
    /\ session.ready # <<>>
    /\ Head(session.ready).op = op
    /\ Head(session.ready).ok = ok
Popped == [session EXCEPT !.ready = Tail(@)]

\* A read or a write failed.
OnSocketError(op) ==
    /\ Handling(op, FALSE)
    /\ session' = close(Popped)
    /\ UNCHANGED <<kind, stream, wire, buffer, processed>>

\* What the codec holds once the bytes of the completed read are fed to it.
Arrived == Head(session.ready).size
Fed == buffer \o SubSeq(wire, 1, Arrived)

\* The loop left after the message number n has been given to processMessage,
\* which accepted the first n - refused of them.
LoopLeft(n, refused) ==
    LET loop == Drained(Fed, n)
    IN /\ wire' = SubSeq(wire, Arrived + 1, Len(wire))
       /\ buffer' = loop.buffer
       /\ processed' = processed \o SubSeq(loop.messages, 1, n - refused)
       /\ UNCHANGED <<kind, stream>>

\* Mutant: a read that completes no message is not followed by another.
NextReadIfUseful(s) == IF DrainedAll(Fed).messages = <<>> THEN s ELSE doRead(s)

NextRead(s) == doRead(s)

\* The loop has run until nothing more can be decoded.
LoopDone ==
    LET loop == DrainedAll(Fed)
    IN /\ wire' = SubSeq(wire, Arrived + 1, Len(wire))
       /\ buffer' = loop.buffer
       /\ processed' = processed \o loop.messages
       /\ UNCHANGED <<kind, stream>>

\* The read handler of ClientSession and ChatSession.
OnRead ==
    /\ LooksAtClosed
    /\ Handling("read", TRUE)
    /\ session.closed => DrainedAll(Fed).messages = <<>>
    /\ LoopDone
    /\ session' = NextRead(resetHeartbeatTimer(Popped))

\* That of GameServerSession and InternalSession: closed or not, the loop runs
\* to its end, and there is no timer.
OnServerRead ==
    /\ ~LooksAtClosed
    /\ Handling("read", TRUE)
    /\ LoopDone
    /\ session' = NextRead(Popped)

\* A read that had completed when the session was closed: one more message
\* is processed before the loop looks at closed_.
OnLateRead ==
    /\ Handling("read", TRUE)
    /\ LooksAtClosed /\ session.closed
    /\ DrainedAll(Fed).messages # <<>>
    /\ LoopLeft(1, 0)
    /\ session' = Popped

\* The rate limiter refuses message number n: the session is told and closed.
OnReadLimited ==
    /\ Handling("read", TRUE)
    /\ kind = "client"
    /\ session.write_queue < MaxQueue
    /\ \E n \in 1..Len(DrainedAll(Fed).messages) :
          /\ session.closed => n = 1
          /\ LoopLeft(n, 1)
    /\ session' = close(send(Popped))

\* A write is done; the next one starts whether or not the session is closed.
OnWrite ==
    /\ Handling("write", TRUE)
    /\ session' = doWrite([Popped EXCEPT !.write_queue = @ - 1])
    /\ UNCHANGED <<kind, stream, wire, buffer, processed>>

OnTimer ==
    /\ Handling("timer", TRUE)
    /\ session' = close(Popped)
    /\ UNCHANGED <<kind, stream, wire, buffer, processed>>

-----------------------------------------------------------------------------

Handler ==
    \/ \E op \in {"read", "write"} : OnSocketError(op)
    \/ OnRead
    \/ OnServerRead
    \/ OnLateRead
    \/ OnReadLimited
    \/ OnWrite
    \/ OnTimer

Environment ==
    \/ \E size \in 1..ReadSize : BytesArrive(size)
    \/ \E op \in {"read", "write"} : SocketFails(op)
    \/ Written
    \/ TimerExpires
    \/ Send

Next == Handler \/ Environment

\* Handlers in the queue run and timers expire; peers owe nothing.
Spec == Init /\ [][Next]_vars /\ WF_vars(Handler) /\ WF_vars(TimerExpires)

-----------------------------------------------------------------------------
(* Properties.                                                             *)

\* The operations op that are pending or completed and not yet handled.
Underway(op) ==
    Cardinality(session.pending \cap {op})
    + Cardinality({i \in 1..Len(session.ready) : session.ready[i].op = op})

\* The buffer of a write is the front of write_queue_, so it must stay there
\* until the write's handler has run, which then pops it: never two writes,
\* never a write without a front, also when the session is closed under it or
\* is sent to after it was closed; and what is queued on an open session is
\* being written.
WriteOwnsFront ==
    /\ Underway("write") <= 1
    /\ Underway("write") = 1 => session.write_queue > 0
    /\ ~session.closed /\ session.write_queue > 0 => Underway("write") = 1

\* An open session is reading, once: whatever a read brought, the next one is
\* started, and it is the handler that keeps the object alive.
OneRead ==
    /\ Underway("read") <= 1
    /\ ~session.closed => Underway("read") = 1

\* The last n messages as far as they can be read: without those that do not
\* parse, and up to one that is too long for the codec.
LastReadable(messages) ==
    LET last[n \in 0..Len(messages)] ==
            IF n = 0 \/ TooLong(Len(FromEnd(messages, n))) THEN <<>>
            ELSE IF FromEnd(messages, n) \in Unparsable THEN last[n - 1]
            ELSE <<FromEnd(messages, n)>> \o last[n - 1]
    IN last
Readable == LastReadable(stream)[Len(stream)]

NoneTooLong == \A i \in 1..Len(stream) : ~TooLong(Len(stream[i]))
AllParse == \A i \in 1..Len(stream) : stream[i] \notin Unparsable

\* However reads cut the stream, messages are processed whole, in order, none
\* twice and none skipped but those that do not parse, up to an oversized one
\* (after which the codec has lost the frame boundaries).
FramesInOrder ==
    /\ \A i \in 1..Len(processed) :
          i <= Len(Readable) => processed[i] = Readable[i]
    /\ NoneTooLong => Len(processed) <= Len(Readable)

\* An open session has processed every message whose last byte it has read:
\* what is left in the codec is less than a frame, and once the whole stream
\* has been read all of it has been processed.  A message that does not parse
\* ends the loop early, and then the ones behind it wait for the next read;
\* one that is too long leaves anything behind.
NothingWaits ==
    ~session.closed /\ NoneTooLong /\ AllParse =>
        /\ tryDecode(buffer) = [message |-> NoMessage, buffer |-> buffer]
        /\ Len(buffer) < HeaderSize + MaxMessageSize
        /\ wire = <<>> => processed = stream

\* A peer that falls silent is disconnected, where there is a heartbeat.
SilentPeerClosed == HasHeartbeat ~> session.closed

\* A closed session is freed, also if a late read has armed its timer again.
ClosedIsFreed == session.closed ~> ~Alive

=============================================================================
