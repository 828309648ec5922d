--------------------------- MODULE SessionIoProofs ---------------------------
(***************************************************************************)
(* Proofs about the reads and writes of a session (SessionIo), for all     *)
(* four classes, any stream of bytes and any length of the write queue.    *)
(*                                                                         *)
(* IoInv counts what is under way and needs nothing of the codec.  For the *)
(* bytes, StreamInv says that as long as a read can still bring some, what *)
(* the codec holds and what is on the wire begin with a frame of the       *)
(* stream, and what was processed is what came before that frame; or the   *)
(* stream has a message that is too long and everything before it was      *)
(* processed.  The loop of the read handlers keeps this turn by turn, by   *)
(* induction on its turns; what its recursive definitions compute comes    *)
(* from FixedPoint of DataLemmas.                                          *)
(***************************************************************************)
EXTENDS SessionIo, DataLemmas

-----------------------------------------------------------------------------
(* Sessions and their counts.                                              *)

Session == [closed : BOOLEAN, write_queue : Nat,
            pending : SUBSET Operation, ready : Seq(Completion)]

Reading(s) == Count(s.pending, s.ready, {"read"})
Writing(s) == Count(s.pending, s.ready, {"write"})

\* An open session writes once if there is something to write.  On a closed
\* one no write is pending, and what is left of one is in the queue of
\* completions, once, with its message at the front of write_queue_.
WritesSound(s) ==
    /\ ~s.closed => Writing(s) = IF s.write_queue > 0 THEN 1 ELSE 0
    /\ s.closed => "write" \notin s.pending
    /\ Writing(s) <= 1
    /\ Writing(s) = 1 => s.write_queue > 0

\* An open session reads once.  On a closed one no read is pending, and at
\* most one is left in the queue of completions.
ReadsSound(s) ==
    /\ ~s.closed => Reading(s) = 1
    /\ s.closed => "read" \notin s.pending
    /\ Reading(s) <= 1

IoInv == session \in Session /\ WritesSound(session) /\ ReadsSound(session)

\* There are finitely many kinds of operation.
LEMMA OperationFinite == IsFiniteSet(Operation)
  <1>1. IsFiniteSet({"read"})
    BY FS_Singleton
  <1>2. IsFiniteSet({"read"} \cup {"write"})
    BY <1>1, FS_AddElement
  <1>3. IsFiniteSet(({"read"} \cup {"write"}) \cup {"timer"})
    BY <1>2, FS_AddElement
  <1>4. Operation = ({"read"} \cup {"write"}) \cup {"timer"}
    BY DEF Operation
  <1> QED BY <1>3, <1>4

\* The counts of a session are numbers.
LEMMA CountsType ==
  ASSUME NEW s \in Session
  PROVE  /\ s.closed \in BOOLEAN /\ s.write_queue \in Nat
         /\ s.pending \in SUBSET Operation /\ s.ready \in Seq(Completion)
         /\ IsFiniteSet(s.pending) /\ Reading(s) \in Nat /\ Writing(s) \in Nat
  <1>1. /\ s.closed \in BOOLEAN /\ s.write_queue \in Nat
        /\ s.pending \in SUBSET Operation /\ s.ready \in Seq(Completion)
    BY DEF Session
  <1>2. IsFiniteSet(s.pending)
    BY <1>1, OperationFinite, FS_Subset
  <1> QED BY <1>1, <1>2, CountType DEF Reading, Writing

-----------------------------------------------------------------------------
(* What the methods do to a session.                                       *)

\* Taking the completion at the head.
LEMMA Popping ==
  ASSUME NEW s \in Session, s.ready # <<>>
  PROVE  LET p == [s EXCEPT !.ready = Tail(@)]
         IN /\ p \in Session /\ p.closed = s.closed /\ p.pending = s.pending
            /\ p.write_queue = s.write_queue
            /\ Reading(p) = Reading(s) - IF Head(s.ready).op = "read" THEN 1 ELSE 0
            /\ Writing(p) = Writing(s) - IF Head(s.ready).op = "write" THEN 1 ELSE 0
  <1> DEFINE p == [s EXCEPT !.ready = Tail(@)]
  <1>1. s.ready \in Seq(Completion) /\ IsFiniteSet(s.pending)
    BY CountsType
  <1>2. Tail(s.ready) \in Seq(Completion)
    BY <1>1
  <1>3. /\ p \in Session /\ p.closed = s.closed /\ p.pending = s.pending
        /\ p.write_queue = s.write_queue /\ p.ready = Tail(s.ready)
    BY <1>2 DEF Session
  <1>4. /\ Count(s.pending, Tail(s.ready), {"read"}) =
              Count(s.pending, s.ready, {"read"})
              - IF Head(s.ready).op \in {"read"} THEN 1 ELSE 0
        /\ Count(s.pending, Tail(s.ready), {"write"}) =
              Count(s.pending, s.ready, {"write"})
              - IF Head(s.ready).op \in {"write"} THEN 1 ELSE 0
    BY <1>1, CountTail
  <1>5. /\ Reading(p) = Count(s.pending, Tail(s.ready), {"read"})
        /\ Writing(p) = Count(s.pending, Tail(s.ready), {"write"})
    BY <1>3 DEF Reading, Writing
  <1>6. /\ Reading(s) = Count(s.pending, s.ready, {"read"})
        /\ Writing(s) = Count(s.pending, s.ready, {"write"})
    BY DEF Reading, Writing
  <1>7. /\ Head(s.ready).op \in {"read"} <=> Head(s.ready).op = "read"
        /\ Head(s.ready).op \in {"write"} <=> Head(s.ready).op = "write"
    OBVIOUS
  <1> QED BY <1>3, <1>4, <1>5, <1>6, <1>7

\* Starting a read or a write that is not pending.
LEMMA Beginning ==
  ASSUME NEW s \in Session, NEW op \in {"read", "write"}, op \notin s.pending
  PROVE  LET b == begin(s, op)
         IN /\ b \in Session /\ b.closed = s.closed /\ b.write_queue = s.write_queue
            /\ s.closed => b.pending = s.pending
            /\ Reading(b) = Reading(s) + IF op = "read" THEN 1 ELSE 0
            /\ Writing(b) = Writing(s) + IF op = "write" THEN 1 ELSE 0
  <1> DEFINE b == begin(s, op)
             e == [op |-> op, ok |-> FALSE, size |-> 0]
  <1>1. /\ s.closed \in BOOLEAN /\ s.ready \in Seq(Completion) /\ IsFiniteSet(s.pending)
        /\ op \in Operation /\ s.pending \in SUBSET Operation
    BY CountsType DEF Operation
  <1>2. e \in Completion /\ e.op = op
    BY <1>1, SessionIoAssumption DEF Completion
  <1>3. /\ Reading(s) = Count(s.pending, s.ready, {"read"})
        /\ Writing(s) = Count(s.pending, s.ready, {"write"})
    BY DEF Reading, Writing
  <1>4. op \in {"read"} <=> op = "read"
    OBVIOUS
  <1>5. op \in {"write"} <=> op = "write"
    OBVIOUS
  <1>6. CASE s.closed
    <2>1. b = [s EXCEPT !.ready = Append(@, e)]
      BY <1>6 DEF begin
    <2> HIDE DEF e
    <2>2. Append(s.ready, e) \in Seq(Completion)
      BY <1>1, <1>2
    <2>3. /\ b \in Session /\ b.closed = s.closed /\ b.write_queue = s.write_queue
          /\ b.pending = s.pending /\ b.ready = Append(s.ready, e)
      BY <2>1, <2>2 DEF Session
    <2>4. \A ops : Count(s.pending, Append(s.ready, e), ops) =
                      Count(s.pending, s.ready, ops) + IF e.op \in ops THEN 1 ELSE 0
      BY <1>1, <1>2, CountAppend
    <2>5. /\ Reading(b) = Count(s.pending, Append(s.ready, e), {"read"})
          /\ Writing(b) = Count(s.pending, Append(s.ready, e), {"write"})
      BY <2>3 DEF Reading, Writing
    <2> QED BY <1>2, <1>3, <1>4, <1>5, <2>3, <2>4, <2>5
  <1>7. CASE ~s.closed
    <2>1. b = [s EXCEPT !.pending = @ \cup {op}]
      BY <1>7 DEF begin
    <2>2. /\ b \in Session /\ b.closed = s.closed /\ b.write_queue = s.write_queue
          /\ b.pending = s.pending \cup {op} /\ b.ready = s.ready
      BY <1>1, <2>1 DEF Session
    <2>3. \A ops : Count(s.pending \cup {op}, s.ready, ops) =
                      Count(s.pending, s.ready, ops) + IF op \in ops THEN 1 ELSE 0
      BY <1>1, CountStart
    <2>4. /\ Reading(b) = Count(s.pending \cup {op}, s.ready, {"read"})
          /\ Writing(b) = Count(s.pending \cup {op}, s.ready, {"write"})
      BY <2>2 DEF Reading, Writing
    <2> QED BY <1>3, <1>4, <1>5, <1>7, <2>2, <2>3, <2>4
  <1> QED BY <1>1, <1>6, <1>7

\* Starting the wait of the heartbeat timer.
LEMMA Waiting ==
  ASSUME NEW s \in Session
  PROVE  LET b == resetHeartbeatTimer(s)
         IN /\ b \in Session /\ b.closed = s.closed /\ b.write_queue = s.write_queue
            /\ b.pending \subseteq s.pending \cup {"timer"}
            /\ Reading(b) = Reading(s) /\ Writing(b) = Writing(s)
  <1> DEFINE b == resetHeartbeatTimer(s)
  <1>1. /\ s.ready \in Seq(Completion) /\ IsFiniteSet(s.pending)
        /\ "timer" \in Operation /\ s.pending \in SUBSET Operation
        /\ Reading(s) \in Nat /\ Writing(s) \in Nat
    BY CountsType DEF Operation
  <1>2. CASE b = s
    BY <1>2
  <1>3. CASE "timer" \notin s.pending /\ b = [s EXCEPT !.pending = @ \cup {"timer"}]
    <2>1. /\ b \in Session /\ b.closed = s.closed /\ b.write_queue = s.write_queue
          /\ b.pending = s.pending \cup {"timer"} /\ b.ready = s.ready
      BY <1>1, <1>3 DEF Session
    <2>2. \A ops : Count(s.pending \cup {"timer"}, s.ready, ops) =
                      Count(s.pending, s.ready, ops) + IF "timer" \in ops THEN 1 ELSE 0
      BY <1>1, <1>3, CountStart
    <2>3. /\ Reading(b) = Count(s.pending \cup {"timer"}, s.ready, {"read"})
          /\ Writing(b) = Count(s.pending \cup {"timer"}, s.ready, {"write"})
          /\ Reading(s) = Count(s.pending, s.ready, {"read"})
          /\ Writing(s) = Count(s.pending, s.ready, {"write"})
      BY <2>1 DEF Reading, Writing
    <2>4. Reading(b) = Reading(s) + 0 /\ Writing(b) = Writing(s) + 0
      BY <2>2, <2>3
    <2> QED BY <1>1, <2>1, <2>4
  <1>4. b = s \/ b = [s EXCEPT !.pending = @ \cup {"timer"}]
    BY DEF resetHeartbeatTimer
  <1>5. "timer" \in s.pending => [s EXCEPT !.pending = @ \cup {"timer"}] = s
    BY DEF Session
  <1> QED BY <1>2, <1>3, <1>4, <1>5

\* close(): nothing is pending, and what was has failed.
LEMMA Closing ==
  ASSUME NEW s \in Session
  PROVE  LET b == close(s)
         IN /\ b \in Session /\ b.closed /\ b.write_queue = s.write_queue
            /\ b.pending = IF s.closed THEN s.pending ELSE {}
            /\ Reading(b) = Reading(s) /\ Writing(b) = Writing(s)
  <1> DEFINE b == close(s)
             re == [op |-> "read", ok |-> FALSE, size |-> 0]
             we == [op |-> "write", ok |-> FALSE, size |-> 0]
             P1 == s.pending \ {re.op}
             q1 == s.ready \o FailedOf(s.pending, re)
             P2 == P1 \ {we.op}
             q2 == q1 \o FailedOf(P1, we)
  <1>1. CASE s.closed
    BY <1>1 DEF close
  <1>2. CASE ~s.closed
    <2>1. /\ s.ready \in Seq(Completion) /\ IsFiniteSet(s.pending)
          /\ s.pending \in SUBSET Operation
      BY CountsType
    <2>2. re \in Completion /\ we \in Completion /\ re.op = "read" /\ we.op = "write"
      BY SessionIoAssumption DEF Completion, Operation
    <2> HIDE DEF re, we
    <2>3. ASSUME NEW ops
          PROVE  /\ IsFiniteSet(P1) /\ q1 \in Seq(Completion)
                 /\ Count(P1, q1, ops) = Count(s.pending, s.ready, ops)
      BY <2>1, <2>2, CountFail
    <2> HIDE DEF P1, q1
    <2>4. ASSUME NEW ops
          PROVE  /\ IsFiniteSet(P2) /\ q2 \in Seq(Completion)
                 /\ Count(P2, q2, ops) = Count(P1, q1, ops)
      BY <2>2, <2>3, CountFail
    <2>5. q2 = s.ready \o Aborted(s)
      <3>1. Aborted(s) = FailedOf(s.pending, re) \o FailedOf(s.pending, we)
        BY DEF Aborted, Failed, FailedOf, re, we
      <3>2. /\ FailedOf(s.pending, re) \in Seq(Completion)
            /\ FailedOf(s.pending, we) \in Seq(Completion)
        BY <2>2 DEF FailedOf
      <3>3. FailedOf(P1, we) = FailedOf(s.pending, we)
        BY <2>2 DEF FailedOf, P1
      <3>4. \A x, y, z \in Seq(Completion) : (x \o y) \o z = x \o (y \o z)
        BY ConcatAssociative
      <3>5. (s.ready \o FailedOf(s.pending, re)) \o FailedOf(s.pending, we)
               = s.ready \o (FailedOf(s.pending, re) \o FailedOf(s.pending, we))
        BY <2>1, <3>2, <3>4, Zenon
      <3> QED BY <3>1, <3>3, <3>5 DEF q1
    <2>6. P2 = s.pending \ {"read", "write"}
      BY <2>2 DEF P1
    <2> HIDE DEF P2, q2
    <2>7. b = [s EXCEPT !.closed = TRUE, !.pending = {}, !.ready = q2]
      BY <1>2, <2>5 DEF close
    <2>8. /\ b \in Session /\ b.closed /\ b.write_queue = s.write_queue
          /\ b.pending = {} /\ b.ready = q2
      BY <2>4, <2>7 DEF Session
    <2>9. ASSUME NEW op \in {"read", "write"}
          PROVE  Count({}, q2, {op}) = Count(s.pending, s.ready, {op})
      <3>1. Count(P2, q2, {op}) = Count(s.pending, s.ready, {op})
        BY <2>3, <2>4
      <3>2. P2 \cap {op} = {} \cap {op}
        BY <2>6
      <3> QED BY <3>1, <3>2 DEF Count
    <2>10. /\ Reading(b) = Count({}, q2, {"read"}) /\ Writing(b) = Count({}, q2, {"write"})
           /\ Reading(s) = Count(s.pending, s.ready, {"read"})
           /\ Writing(s) = Count(s.pending, s.ready, {"write"})
      BY <2>8 DEF Reading, Writing
    <2> QED BY <1>2, <2>8, <2>9, <2>10
  <1>3. s.closed \in BOOLEAN
    BY CountsType
  <1> QED BY <1>1, <1>2, <1>3

\* doWrite() when no write is under way.
LEMMA NextWrite ==
  ASSUME NEW s \in Session, Writing(s) = 0
  PROVE  LET b == doWrite(s)
         IN /\ b \in Session /\ b.closed = s.closed /\ WritesSound(b)
            /\ Reading(b) = Reading(s)
            /\ s.closed => b.pending = s.pending
  <1> DEFINE b == doWrite(s)
  <1>1. /\ s.closed \in BOOLEAN /\ s.write_queue \in Nat /\ s.ready \in Seq(Completion)
        /\ IsFiniteSet(s.pending) /\ Reading(s) \in Nat
    BY CountsType
  <1>2. "write" \notin s.pending
    <2>1. s.pending \cap {"write"} = {}
      BY <1>1, CountZero DEF Writing
    <2> QED BY <2>1
  <1>3. CASE s.write_queue = 0
    <2>1. b = s
      BY <1>3 DEF doWrite
    <2> QED BY <1>2, <1>3, <2>1 DEF WritesSound
  <1>4. CASE s.write_queue # 0
    <2>1. b = begin(s, "write")
      BY <1>4 DEF doWrite
    <2>2. /\ b \in Session /\ b.closed = s.closed /\ b.write_queue = s.write_queue
          /\ s.closed => b.pending = s.pending
          /\ Reading(b) = Reading(s) + 0 /\ Writing(b) = Writing(s) + 1
      BY <1>2, <2>1, Beginning
    <2>3. Reading(b) = Reading(s) /\ Writing(b) = 1
      BY <1>1, <2>2
    <2>4. b.write_queue > 0 /\ b.closed \in BOOLEAN
      BY <1>1, <1>4, <2>2
    <2> QED BY <1>2, <2>2, <2>3, <2>4 DEF WritesSound
  <1> QED BY <1>3, <1>4

\* send() keeps the account of writes and leaves reads alone.
LEMMA Sending ==
  ASSUME NEW s \in Session, WritesSound(s)
  PROVE  LET b == send(s)
         IN /\ b \in Session /\ b.closed = s.closed /\ WritesSound(b)
            /\ Reading(b) = Reading(s)
            /\ s.closed => b.pending = s.pending
  <1> DEFINE q == [s EXCEPT !.write_queue = @ + 1]
             b == send(s)
  <1>1. /\ s.closed \in BOOLEAN /\ s.write_queue \in Nat /\ Writing(s) \in Nat
    BY CountsType
  <1>2. /\ q \in Session /\ q.closed = s.closed /\ q.write_queue = s.write_queue + 1
        /\ q.pending = s.pending /\ q.ready = s.ready
    BY <1>1 DEF Session
  <1>3. Reading(q) = Reading(s) /\ Writing(q) = Writing(s)
    BY <1>2 DEF Reading, Writing
  <1>4. b = s \/ (s.write_queue = 0 /\ b = doWrite(q)) \/ (s.write_queue # 0 /\ b = q)
    BY DEF send
  <1> HIDE DEF q, b
  <1>5. CASE s.write_queue = 0 /\ b = doWrite(q)
    <2>1. Writing(q) = 0
      <3>1. Writing(s) <= 1 /\ Writing(s) # 1
        BY <1>1, <1>5 DEF WritesSound
      <3>2. Writing(s) = 0
        BY <1>1, <3>1
      <3> QED BY <1>3, <3>2
    <2>2. /\ b \in Session /\ b.closed = q.closed /\ WritesSound(b)
          /\ Reading(b) = Reading(q)
          /\ q.closed => b.pending = q.pending
      BY <1>2, <1>5, <2>1, NextWrite
    <2> QED BY <1>2, <1>3, <2>2 DEF b
  <1>6. CASE s.write_queue # 0 /\ b = q
    <2>1. s.write_queue > 0 /\ q.write_queue > 0
      BY <1>1, <1>2, <1>6
    <2>2. WritesSound(q)
      BY <1>2, <1>3, <2>1 DEF WritesSound
    <2> QED BY <1>2, <1>3, <1>6, <2>2 DEF b
  <1> QED BY <1>4, <1>5, <1>6 DEF b

\* A session that is closed is accounted for if its writes were.
LEMMA ClosedSound ==
  ASSUME NEW s \in Session, Reading(s) <= 1, Writing(s) <= 1,
         Writing(s) = 1 => s.write_queue > 0,
         s.closed => "read" \notin s.pending /\ "write" \notin s.pending
  PROVE  close(s) \in Session /\ WritesSound(close(s)) /\ ReadsSound(close(s))
  <1> DEFINE b == close(s)
  <1>1. /\ b \in Session /\ b.closed /\ b.write_queue = s.write_queue
        /\ b.pending = IF s.closed THEN s.pending ELSE {}
        /\ Reading(b) = Reading(s) /\ Writing(b) = Writing(s)
    BY Closing
  <1> HIDE DEF b
  <1>2. "read" \notin b.pending /\ "write" \notin b.pending
    BY <1>1
  <1>3. WritesSound(b) /\ ReadsSound(b)
    BY <1>1, <1>2 DEF WritesSound, ReadsSound
  <1> QED BY <1>1, <1>3 DEF b

-----------------------------------------------------------------------------
(* The invariant.                                                          *)

\* What the completion at the head leaves behind.
LEMMA PoppedSound ==
  ASSUME IoInv, session.ready # <<>>
  PROVE  /\ Popped \in Session /\ Popped.closed = session.closed
         /\ Popped.write_queue = session.write_queue /\ Popped.pending = session.pending
         /\ Reading(Popped) <= 1 /\ Writing(Popped) <= 1
         /\ Writing(Popped) = 1 => Popped.write_queue > 0
         /\ Popped.closed => "read" \notin Popped.pending /\ "write" \notin Popped.pending
         /\ Head(session.ready).op # "write" => WritesSound(Popped)
         /\ Head(session.ready).op # "read" => ReadsSound(Popped)
         /\ Head(session.ready).op = "read" => Reading(Popped) = 0 /\ "read" \notin Popped.pending
         /\ Head(session.ready).op = "write" => Writing(Popped) = 0 /\ session.write_queue > 0
  <1> DEFINE p == Popped
  <1>1. /\ session \in Session /\ WritesSound(session) /\ ReadsSound(session)
        /\ Reading(session) \in Nat /\ Writing(session) \in Nat
    BY CountsType DEF IoInv
  <1>2. /\ p \in Session /\ p.closed = session.closed /\ p.pending = session.pending
        /\ p.write_queue = session.write_queue
        /\ Reading(p) = Reading(session) - IF Head(session.ready).op = "read" THEN 1 ELSE 0
        /\ Writing(p) = Writing(session) - IF Head(session.ready).op = "write" THEN 1 ELSE 0
    BY <1>1, Popping DEF Popped
  <1> HIDE DEF p
  <1>3. /\ Reading(p) \in Nat /\ Writing(p) \in Nat /\ p.ready \in Seq(Completion)
        /\ IsFiniteSet(p.pending)
    BY <1>2, CountsType
  <1>4. /\ Reading(session) <= 1 /\ Writing(session) <= 1
        /\ Writing(session) = 1 => session.write_queue > 0
        /\ session.closed => "read" \notin session.pending /\ "write" \notin session.pending
    BY <1>1 DEF WritesSound, ReadsSound
  <1>5. /\ Reading(p) <= Reading(session) /\ Writing(p) <= Writing(session)
    BY <1>1, <1>2
  <1>6. ASSUME Head(session.ready).op # "write" PROVE WritesSound(p)
    <2>1. Writing(p) = Writing(session)
      BY <1>1, <1>2, <1>6
    <2> QED BY <1>1, <1>2, <2>1 DEF WritesSound
  <1>7. ASSUME Head(session.ready).op # "read" PROVE ReadsSound(p)
    <2>1. Reading(p) = Reading(session)
      BY <1>1, <1>2, <1>7
    <2> QED BY <1>1, <1>2, <2>1 DEF ReadsSound
  <1>8. ASSUME Head(session.ready).op = "read"
        PROVE  Reading(p) = 0 /\ "read" \notin p.pending
    <2>1. Reading(p) = 0
      BY <1>1, <1>2, <1>3, <1>4, <1>8
    <2>2. p.pending \cap {"read"} = {}
      BY <1>3, <2>1, CountZero DEF Reading
    <2> QED BY <2>1, <2>2
  <1>9. ASSUME Head(session.ready).op = "write"
        PROVE  Writing(p) = 0 /\ session.write_queue > 0
    BY <1>1, <1>2, <1>3, <1>4, <1>9
  <1> QED BY <1>1, <1>2, <1>3, <1>4, <1>5, <1>6, <1>7, <1>8, <1>9 DEF p

\* The next read.
LEMMA NextReading ==
  ASSUME NEW s \in Session, WritesSound(s), Reading(s) = 0, "read" \notin s.pending
  PROVE  doRead(s) \in Session /\ WritesSound(doRead(s)) /\ ReadsSound(doRead(s))
  <1> DEFINE b == doRead(s)
  <1>1. /\ b \in Session /\ b.closed = s.closed /\ b.write_queue = s.write_queue
        /\ s.closed => b.pending = s.pending
        /\ Reading(b) = Reading(s) + 1 /\ Writing(b) = Writing(s) + 0
    BY Beginning DEF doRead
  <1> HIDE DEF b
  <1>2. Reading(b) = 1 /\ Writing(b) = Writing(s)
    BY <1>1, CountsType
  <1>3. WritesSound(b) /\ ReadsSound(b)
    BY <1>1, <1>2 DEF WritesSound, ReadsSound
  <1> QED BY <1>1, <1>3 DEF b

\* Every step keeps the account.
LEMMA IoKept == IoInv /\ [Next]_vars => IoInv'
  <1> SUFFICES ASSUME IoInv, [Next]_vars PROVE IoInv'
    OBVIOUS
  <1>1. /\ session \in Session /\ WritesSound(session) /\ ReadsSound(session)
    BY DEF IoInv
  <1>2. ASSUME NEW op \in Operation, NEW ok \in BOOLEAN, NEW size \in 0..ReadSize,
               Completes(op, ok, size)
        PROVE  IoInv'
    <2> DEFINE e == [op |-> op, ok |-> ok, size |-> size]
    <2>1. /\ op \in session.pending
          /\ session' = [session EXCEPT !.pending = @ \ {op}, !.ready = Append(@, e)]
      BY <1>2 DEF Completes
    <2>2. e \in Completion /\ e.op = op
      BY DEF Completion
    <2> HIDE DEF e
    <2>3. /\ session.ready \in Seq(Completion) /\ IsFiniteSet(session.pending)
          /\ session.pending \in SUBSET Operation
      BY <1>1, CountsType
    <2>4. Append(session.ready, e) \in Seq(Completion) /\ session.pending \ {op} \in SUBSET Operation
      BY <2>2, <2>3
    <2>5. /\ session' \in Session /\ session'.closed = session.closed
          /\ session'.write_queue = session.write_queue
          /\ session'.pending = session.pending \ {op}
          /\ session'.ready = Append(session.ready, e)
      BY <1>1, <2>1, <2>4 DEF Session
    <2>6. \A ops : Count(session.pending \ {op}, Append(session.ready, e), ops)
                     = Count(session.pending, session.ready, ops)
      BY <2>1, <2>2, <2>3, CountComplete
    <2>7. Reading(session') = Reading(session) /\ Writing(session') = Writing(session)
      BY <2>5, <2>6 DEF Reading, Writing
    <2>8. WritesSound(session') /\ ReadsSound(session')
      BY <1>1, <2>5, <2>7 DEF WritesSound, ReadsSound
    <2> QED BY <2>5, <2>8 DEF IoInv
  <1>3. CASE Send
    <2>1. session' = send(session)
      BY <1>3 DEF Send
    <2>2. /\ session' \in Session /\ session'.closed = session.closed /\ WritesSound(session')
          /\ Reading(session') = Reading(session)
          /\ session.closed => session'.pending = session.pending
      BY <1>1, <2>1, Sending
    <2>3. ReadsSound(session')
      BY <1>1, <2>2 DEF ReadsSound
    <2> QED BY <2>2, <2>3 DEF IoInv
  <1>4. CASE (\E op \in {"read", "write"} : OnSocketError(op)) \/ OnTimer
    <2>1. session.ready # <<>> /\ session' = close(Popped)
      BY <1>4 DEF OnSocketError, OnTimer, Handling
    <2>2. session' \in Session /\ WritesSound(session') /\ ReadsSound(session')
      BY <2>1, PoppedSound, ClosedSound
    <2> QED BY <2>2 DEF IoInv
  <1>5. CASE OnRead
    <2> DEFINE t == resetHeartbeatTimer(Popped)
    <2>1. /\ session.ready # <<>> /\ Head(session.ready).op = "read"
          /\ session' = doRead(t)
      BY <1>5 DEF OnRead, Handling, NextRead
    <2>2. /\ Popped \in Session /\ WritesSound(Popped) /\ Reading(Popped) = 0
          /\ "read" \notin Popped.pending
      BY <2>1, PoppedSound
    <2>3. /\ t \in Session /\ t.closed = Popped.closed /\ t.write_queue = Popped.write_queue
          /\ t.pending \subseteq Popped.pending \cup {"timer"}
          /\ Reading(t) = Reading(Popped) /\ Writing(t) = Writing(Popped)
      BY <2>2, Waiting
    <2> HIDE DEF t
    <2>4. WritesSound(t) /\ Reading(t) = 0 /\ "read" \notin t.pending
      BY <2>2, <2>3 DEF WritesSound
    <2>5. session' \in Session /\ WritesSound(session') /\ ReadsSound(session')
      BY <2>1, <2>3, <2>4, NextReading
    <2> QED BY <2>5 DEF IoInv
  <1>6. CASE OnServerRead
    <2>1. /\ session.ready # <<>> /\ Head(session.ready).op = "read"
          /\ session' = doRead(Popped)
      BY <1>6 DEF OnServerRead, Handling, NextRead
    <2>2. /\ Popped \in Session /\ WritesSound(Popped) /\ Reading(Popped) = 0
          /\ "read" \notin Popped.pending
      BY <2>1, PoppedSound
    <2>3. session' \in Session /\ WritesSound(session') /\ ReadsSound(session')
      BY <2>1, <2>2, NextReading
    <2> QED BY <2>3 DEF IoInv
  <1>7. CASE OnLateRead
    <2>1. /\ session.ready # <<>> /\ Head(session.ready).op = "read" /\ session.closed
          /\ session' = Popped
      BY <1>7 DEF OnLateRead, Handling
    <2>2. /\ Popped \in Session /\ WritesSound(Popped) /\ Reading(Popped) = 0
          /\ "read" \notin Popped.pending /\ Popped.closed
      BY <2>1, PoppedSound
    <2>3. ReadsSound(Popped)
      BY <2>2 DEF ReadsSound
    <2> QED BY <2>1, <2>2, <2>3 DEF IoInv
  <1>8. CASE OnReadLimited
    <2> DEFINE t == send(Popped)
    <2>1. /\ session.ready # <<>> /\ Head(session.ready).op = "read" /\ session' = close(t)
      BY <1>8 DEF OnReadLimited, Handling
    <2>2. /\ Popped \in Session /\ WritesSound(Popped) /\ Reading(Popped) <= 1
          /\ "read" \notin Popped.pending
      BY <2>1, PoppedSound
    <2>3. /\ t \in Session /\ t.closed = Popped.closed /\ WritesSound(t)
          /\ Reading(t) = Reading(Popped)
          /\ Popped.closed => t.pending = Popped.pending
      BY <2>2, Sending
    <2> HIDE DEF t
    <2>4. /\ Reading(t) <= 1 /\ Writing(t) <= 1 /\ (Writing(t) = 1 => t.write_queue > 0)
          /\ t.closed => "read" \notin t.pending /\ "write" \notin t.pending
      BY <2>2, <2>3 DEF WritesSound
    <2>5. session' \in Session /\ WritesSound(session') /\ ReadsSound(session')
      BY <2>1, <2>3, <2>4, ClosedSound
    <2> QED BY <2>5 DEF IoInv
  <1>9. CASE OnWrite
    <2> DEFINE t == [Popped EXCEPT !.write_queue = @ - 1]
    <2>1. /\ session.ready # <<>> /\ Head(session.ready).op = "write"
          /\ session' = doWrite(t)
      BY <1>9 DEF OnWrite, Handling
    <2>2. /\ Popped \in Session /\ ReadsSound(Popped) /\ Writing(Popped) = 0
          /\ Popped.write_queue > 0 /\ Popped.write_queue \in Nat
      BY <2>1, PoppedSound DEF Session
    <2>3. /\ t \in Session /\ t.closed = Popped.closed /\ t.pending = Popped.pending
          /\ t.ready = Popped.ready
      BY <2>2 DEF Session
    <2>4. Reading(t) = Reading(Popped) /\ Writing(t) = Writing(Popped)
      BY <2>3 DEF Reading, Writing
    <2> HIDE DEF t
    <2>5. /\ session' \in Session /\ session'.closed = t.closed /\ WritesSound(session')
          /\ Reading(session') = Reading(t)
          /\ t.closed => session'.pending = t.pending
      BY <2>1, <2>2, <2>3, <2>4, NextWrite
    <2>6. ReadsSound(session')
      BY <2>2, <2>3, <2>4, <2>5 DEF ReadsSound
    <2> QED BY <2>5, <2>6 DEF IoInv
  <1>10. CASE UNCHANGED vars
    BY <1>1, <1>10 DEF vars, IoInv
  <1>11. ASSUME Environment PROVE IoInv'
    <2>1. 0 \in 0..ReadSize /\ 1..ReadSize \subseteq 0..ReadSize
      BY SessionIoAssumption
    <2>2. {"read", "write", "timer"} \subseteq Operation
      BY DEF Operation
    <2> QED BY <1>2, <1>3, <1>11, <2>1, <2>2
            DEF Environment, BytesArrive, SocketFails, Written, TimerExpires
  <1> QED
    BY <1>4, <1>5, <1>6, <1>7, <1>8, <1>9, <1>10, <1>11 DEF Next, Handler

\* It holds after start().
LEMMA IoInit == Init => IoInv
  <1> SUFFICES ASSUME Init PROVE IoInv
    OBVIOUS
  <1> DEFINE s == [closed |-> FALSE, write_queue |-> 0, pending |-> {}, ready |-> <<>>]
             t == resetHeartbeatTimer(s)
  <1>1. session = doRead(t)
    BY DEF Init
  <1>2. /\ s \in Session /\ s.closed = FALSE /\ s.write_queue = 0 /\ s.pending = {}
        /\ s.ready = <<>> /\ <<>> \in Seq(Completion)
    BY DEF Session
  <1> HIDE DEF s
  <1>3. Reading(s) = 0 /\ Writing(s) = 0
    <2>1. IsFiniteSet({})
      BY FS_EmptySet
    <2>2. \A ops : \A i \in 1..Len(<<>>) : <<>>[i].op \notin ops
      OBVIOUS
    <2>3. {} \cap {"read"} = {} /\ {} \cap {"write"} = {}
      OBVIOUS
    <2>4. <<>> \in Seq(Completion) /\ Len(<<>>) = 0
      OBVIOUS
    <2>5. Count({}, <<>>, {"read"}) = 0
      BY <2>1, <2>2, <2>3, <2>4, CountZero
    <2>6. Count({}, <<>>, {"write"}) = 0
      BY <2>1, <2>2, <2>3, <2>4, CountZero
    <2> QED BY <1>2, <2>5, <2>6 DEF Reading, Writing
  <1>4. /\ t \in Session /\ t.closed = s.closed /\ t.write_queue = s.write_queue
        /\ t.pending \subseteq s.pending \cup {"timer"}
        /\ Reading(t) = Reading(s) /\ Writing(t) = Writing(s)
    BY <1>2, Waiting
  <1> HIDE DEF t
  <1>5. WritesSound(t) /\ Reading(t) = 0 /\ "read" \notin t.pending
    BY <1>2, <1>3, <1>4 DEF WritesSound
  <1> QED BY <1>1, <1>4, <1>5, NextReading DEF IoInv

\* The account holds in every reachable state.
LEMMA IoAlways == Spec => []IoInv
  BY IoInit, IoKept, PTL DEF Spec

\* Underway is the count of DataLemmas.
LEMMA UnderwayCounts ==
  /\ Underway("read") = Reading(session)
  /\ Underway("write") = Writing(session)
  <1>1. ASSUME NEW op PROVE Underway(op) = Count(session.pending, session.ready, {op})
    <2>1. {i \in 1..Len(session.ready) : session.ready[i].op = op} = At(session.ready, {op})
      BY DEF At
    <2> QED BY <2>1 DEF Underway, Count
  <1> QED BY <1>1 DEF Reading, Writing

\* For every class of session and every order of completions, sends and
\* closes: there is never a second write, never a write whose buffer is not
\* the front of write_queue_, and a message queued on an open session is being
\* written.
THEOREM FrontOwned == Spec => []WriteOwnsFront
  <1>1. IoInv => WriteOwnsFront
    <2> SUFFICES ASSUME IoInv PROVE WriteOwnsFront
      OBVIOUS
    <2>1. WritesSound(session) /\ Underway("write") = Writing(session)
      BY UnderwayCounts DEF IoInv
    <2> QED BY <2>1 DEF WritesSound, WriteOwnsFront
  <1> QED BY <1>1, IoAlways, PTL

\* An open session always has exactly one read under way, so it notices what
\* its peer does and is kept alive; a closed one has at most one left.
THEOREM ReadOnce == Spec => []OneRead
  <1>1. IoInv => OneRead
    <2> SUFFICES ASSUME IoInv PROVE OneRead
      OBVIOUS
    <2>1. ReadsSound(session) /\ Underway("read") = Reading(session)
      BY UnderwayCounts DEF IoInv
    <2> QED BY <2>1 DEF ReadsSound, OneRead
  <1> QED BY <1>1, IoAlways, PTL

-----------------------------------------------------------------------------
(* The codec: the length field.                                            *)

\* Division with remainder.
LEMMA Digits ==
  ASSUME NEW n \in Nat
  PROVE  /\ Shifted(n) \in Nat /\ n % Base \in 0 .. Base - 1
         /\ n = Base * Shifted(n) + (n % Base)
  <1>1. Base \in Nat /\ Base > 0
    BY CodecAssumption
  <1>2. n % Base \in 0 .. Base - 1
    BY <1>1
  <1>3. n \div Base \in Nat
    BY <1>1
  <1>4. n = Base * (n \div Base) + (n % Base)
    BY <1>1
  <1> QED BY <1>2, <1>3, <1>4 DEF Shifted

\* Taking a digit off a number of one digit more leaves one digit less.
LEMMA ShiftedLess ==
  ASSUME NEW n \in Nat, NEW k \in Nat, n < Base * k
  PROVE  Shifted(n) < k
  <1>1. /\ Shifted(n) \in Nat /\ n % Base \in 0 .. Base - 1
        /\ n = Base * Shifted(n) + (n % Base)
    BY Digits
  <1>2. Base \in Nat /\ Base > 0
    BY CodecAssumption
  <1>3. ASSUME NEW a \in Nat, NEW r \in Nat, a >= k PROVE Base * a + r >= Base * k
    <2>1. PICK d \in Nat : a = k + d
      <3>1. a - k \in Nat /\ a = k + (a - k)
        BY <1>3
      <3> QED BY <3>1
    <2>2. Base * a = Base * k + Base * d
      BY <1>2, <2>1
    <2>3. Base * d \in Nat /\ Base * k \in Nat
      BY <1>2
    <2> QED BY <2>2, <2>3
  <1>4. Shifted(n) >= k => Base * Shifted(n) + (n % Base) >= Base * k
    BY <1>1, <1>2, <1>3
  <1>5. ~(n >= Base * k)
    BY <1>2
  <1> QED BY <1>1, <1>4, <1>5

\* The last digit of a number of one digit is the number.
LEMMA SmallDigit ==
  ASSUME NEW n \in Nat, n < Base
  PROVE  n % Base = n
  BY CodecAssumption

\* encode() writes four bytes before a message.
LEMMA HeaderBytes ==
  ASSUME NEW m \in Seq(Byte)
  PROVE  Header(m) \in Seq(Byte) /\ Len(Header(m)) = 4
  <1> DEFINE n == Len(m)
  <1>1. n \in Nat
    OBVIOUS
  <1>2. Shifted(n) \in Nat /\ n % Base \in Byte
    BY <1>1, Digits DEF Byte
  <1>3. Shifted(Shifted(n)) \in Nat /\ Shifted(n) % Base \in Byte
    BY <1>2, Digits DEF Byte
  <1>4. Shifted(Shifted(Shifted(n))) \in Nat /\ Shifted(Shifted(n)) % Base \in Byte
    BY <1>3, Digits DEF Byte
  <1>5. Shifted(Shifted(Shifted(n))) % Base \in Byte
    BY <1>4, Digits DEF Byte
  <1> QED BY <1>2, <1>3, <1>4, <1>5 DEF Header

\* tryDecode() reads the length that encode() has written.
LEMMA LengthRead ==
  ASSUME NEW m \in Seq(Byte), ~TooLong(Len(m)), NEW b, \A i \in 1..4 : b[i] = Header(m)[i]
  PROVE  FrameLength(b) = Len(m)
  <1> DEFINE n == Len(m)
             B == Base
             n1 == Shifted(n)
             n2 == Shifted(n1)
             n3 == Shifted(n2)
  <1>0. B \in Nat /\ B * B \in Nat /\ B * B * B \in Nat /\ B * (B * B * B) = B * B * B * B
    BY CodecAssumption
  <1>1. n \in Nat /\ n < B * (B * B * B)
    BY <1>0, CodecAssumption DEF TooLong
  <1>2. n1 \in Nat /\ n = B * n1 + (n % B) /\ n1 < B * B * B
    BY <1>0, <1>1, Digits, ShiftedLess
  <1>3. B * B * B = B * (B * B)
    BY <1>0
  <1> HIDE DEF n, n1
  <1>4. n2 \in Nat /\ n1 = B * n2 + (n1 % B) /\ n2 < B * B
    BY <1>0, <1>2, <1>3, Digits, ShiftedLess
  <1> HIDE DEF n2
  <1>5. n3 \in Nat /\ n2 = B * n3 + (n2 % B) /\ n3 < B
    BY <1>0, <1>4, Digits, ShiftedLess
  <1> HIDE DEF n3
  <1>6. n3 % B = n3
    BY <1>5, SmallDigit
  <1>7. Header(m) = <<n % B, n1 % B, n2 % B, n3 % B>>
    BY DEF Header, n, n1, n2, n3
  <1>8. b[1] = (n % B) /\ b[2] = (n1 % B) /\ b[3] = (n2 % B) /\ b[4] = n3
    BY <1>6, <1>7
  <1>9. FrameLength(b) = (n % B) + B * ((n1 % B) + B * ((n2 % B) + B * n3))
    BY <1>8 DEF FrameLength
  <1>10. n % B \in Nat /\ n1 % B \in Nat /\ n2 % B \in Nat
    BY <1>1, <1>2, <1>4, Digits DEF n
  <1>a. B * n3 \in Nat /\ B * n2 \in Nat /\ B * n1 \in Nat
    BY <1>0, <1>2, <1>4, <1>5
  <1>11. (n2 % B) + B * n3 = n2
    BY <1>5, <1>10, <1>a
  <1>12. (n1 % B) + B * n2 = n1
    BY <1>4, <1>10, <1>a
  <1>13. (n % B) + B * n1 = n
    BY <1>2, <1>10, <1>a
  <1> QED BY <1>9, <1>11, <1>12, <1>13 DEF n

\* A length field is a number.
LEMMA FrameLengthType ==
  ASSUME NEW b \in Seq(Byte), Len(b) >= 4
  PROVE  FrameLength(b) \in Nat
  <1>1. Base \in Nat
    BY CodecAssumption
  <1>2. b[1] \in Nat /\ b[2] \in Nat /\ b[3] \in Nat /\ b[4] \in Nat
    BY <1>1 DEF Byte
  <1>3. Base * b[4] \in Nat
    BY <1>1, <1>2
  <1>4. Base * (b[3] + Base * b[4]) \in Nat
    BY <1>1, <1>2, <1>3
  <1>5. Base * (b[2] + Base * (b[3] + Base * b[4])) \in Nat
    BY <1>1, <1>2, <1>4
  <1> QED BY <1>2, <1>5 DEF FrameLength

\* The buffer begins with a whole frame, which the codec takes out of it.
Whole(b) == /\ Len(b) >= 4
            /\ ~TooLong(FrameLength(b))
            /\ Len(b) >= 4 + FrameLength(b)

\* The buffer is the beginning of a frame that fits, or empty: the codec waits
\* for more.
Waits(b) == \/ Len(b) < 4
            \/ ~TooLong(FrameLength(b)) /\ Len(b) < 4 + FrameLength(b)

\* What one call of tryDecode does.
LEMMA DecodeCases ==
  ASSUME NEW b \in Seq(Byte)
  PROVE  LET d == tryDecode(b)
         IN /\ d.buffer \in Seq(Byte)
            /\ d.message \in Seq(Byte) \cup {NoMessage}
            /\ d.message # NoMessage => Whole(b)
            /\ Waits(b) => d = [message |-> NoMessage, buffer |-> b]
            /\ Whole(b) => /\ d.message = Parsed(SubSeq(b, 5, 4 + FrameLength(b)))
                           /\ d.buffer = SubSeq(b, 5 + FrameLength(b), Len(b))
                           /\ Len(d.buffer) + 4 <= Len(b)
                           /\ Len(d.buffer) = Len(b) - (4 + FrameLength(b))
            /\ ~Whole(b) /\ ~Waits(b) => Len(b) >= 4 /\ TooLong(FrameLength(b))
  <1> DEFINE f == FrameLength(b)
             d == tryDecode(b)
  <1>1. CASE Len(b) < 4
    <2>1. d = [message |-> NoMessage, buffer |-> b]
      BY <1>1 DEF tryDecode, HeaderSize
    <2>2. ~Whole(b) /\ Waits(b)
      BY <1>1 DEF Whole, Waits
    <2> QED BY <2>1, <2>2
  <1>2. CASE Len(b) >= 4 /\ TooLong(f)
    <2>1. d = [message |-> NoMessage, buffer |-> <<>>]
      BY <1>2 DEF tryDecode, HeaderSize
    <2>2. ~Whole(b) /\ ~Waits(b)
      BY <1>2 DEF Whole, Waits
    <2> QED BY <1>2, <2>1, <2>2
  <1>3. CASE Len(b) >= 4 /\ ~TooLong(f)
    <2>1. f \in Nat
      BY <1>3, FrameLengthType
    <2>2. CASE Len(b) < 4 + f
      <3>1. d = [message |-> NoMessage, buffer |-> b]
        BY <1>3, <2>2 DEF tryDecode, HeaderSize
      <3>2. ~Whole(b) /\ Waits(b)
        BY <1>3, <2>1, <2>2 DEF Whole, Waits
      <3> QED BY <3>1, <3>2
    <2>3. CASE Len(b) >= 4 + f
      <3> HIDE DEF f
      <3>1. d = [message |-> Parsed(SubSeq(b, 5, 4 + f)), buffer |-> SubSeq(b, 5 + f, Len(b))]
        <4>1. 4 + 1 = 5 /\ (4 + f) + 1 = 5 + f
          BY <2>1
        <4>2. ~(Len(b) < 4) /\ ~TooLong(FrameLength(b)) /\ ~(Len(b) < 4 + FrameLength(b))
          BY <1>3, <2>1, <2>3 DEF f
        <4>3. d = [message |-> Parsed(SubSeq(b, 4 + 1, 4 + FrameLength(b))),
                   buffer  |-> SubSeq(b, (4 + FrameLength(b)) + 1, Len(b))]
          BY <4>2, Zenon DEF tryDecode, HeaderSize
        <4> QED BY <4>1, <4>3, Zenon DEF f
      <3>2. Whole(b) /\ ~Waits(b)
        BY <1>3, <2>1, <2>3 DEF Whole, Waits, f
      <3>3. SubSeq(b, 5, 4 + f) \in Seq(Byte) /\ SubSeq(b, 5 + f, Len(b)) \in Seq(Byte)
        BY <2>1, <2>3
      <3>4. Parsed(SubSeq(b, 5, 4 + f)) \in Seq(Byte) \cup {NoMessage}
        BY <3>3 DEF Parsed
      <3>5. Len(SubSeq(b, 5 + f, Len(b))) = Len(b) - (4 + f)
        BY <2>1, <2>3
      <3>6. Len(SubSeq(b, 5 + f, Len(b))) + 4 <= Len(b)
        BY <2>1, <3>5
      <3> HIDE DEF d
      <3>7. d.message = Parsed(SubSeq(b, 5, 4 + f)) /\ d.buffer = SubSeq(b, 5 + f, Len(b))
        BY <3>1
      <3> QED BY <3>2, <3>3, <3>4, <3>5, <3>6, <3>7, Zenon DEF f, d
    <2> QED BY <2>1, <2>2, <2>3
  <1> QED BY <1>1, <1>2, <1>3

\* What one turn of the loop does.
LEMMA TurnCases ==
  ASSUME NEW loop \in Loop
  PROVE  LET call == tryDecode(loop.buffer)
             t == Turned[loop]
         IN /\ t \in Loop
            /\ loop.done => t = loop
            /\ ~loop.done /\ call.message = NoMessage =>
                  t.messages = loop.messages /\ t.buffer = call.buffer /\ t.done
            /\ ~loop.done /\ call.message # NoMessage =>
                  /\ t.messages = Append(loop.messages, call.message)
                  /\ t.buffer = call.buffer /\ ~t.done
  <1> DEFINE call == tryDecode(loop.buffer)
             t == Turned[loop]
  <1>1. /\ loop.messages \in Seq(Seq(Byte)) /\ loop.buffer \in Seq(Byte)
        /\ loop.done \in BOOLEAN
    BY DEF Loop
  <1>2. call.buffer \in Seq(Byte) /\ call.message \in Seq(Byte) \cup {NoMessage}
    BY <1>1, DecodeCases
  <1>3. t = IF loop.done THEN loop
            ELSE IF call.message = NoMessage
            THEN [loop EXCEPT !.buffer = call.buffer, !.done = TRUE]
            ELSE [loop EXCEPT !.buffer = call.buffer,
                              !.messages = Append(@, call.message)]
    BY DEF Turned
  <1> HIDE DEF call, t
  <1>4. CASE loop.done
    BY <1>3, <1>4 DEF t
  <1>5. CASE ~loop.done /\ call.message = NoMessage
    <2>1. t = [loop EXCEPT !.buffer = call.buffer, !.done = TRUE]
      BY <1>3, <1>5
    <2>2. t \in Loop /\ t.messages = loop.messages /\ t.buffer = call.buffer /\ t.done
      BY <1>2, <2>1 DEF Loop
    <2> QED BY <1>5, <2>2 DEF t, call
  <1>6. CASE ~loop.done /\ call.message # NoMessage
    <2>1. t = [loop EXCEPT !.buffer = call.buffer,
                           !.messages = Append(@, call.message)]
      BY <1>3, <1>6
    <2>2. Append(loop.messages, call.message) \in Seq(Seq(Byte))
      BY <1>1, <1>2, <1>6
    <2>3. /\ t \in Loop /\ t.messages = Append(loop.messages, call.message)
          /\ t.buffer = call.buffer /\ t.done = loop.done
      BY <1>2, <2>1, <2>2 DEF Loop
    <2> QED BY <1>6, <2>3 DEF t, call
  <1> QED BY <1>1, <1>4, <1>5, <1>6 DEF t, call

-----------------------------------------------------------------------------
(* The codec: the loop of the read handlers.                               *)

\* The loop, turn by turn.
LEMMA Turns ==
  ASSUME NEW b \in Seq(Byte)
  PROVE  /\ Drained(b, 0) = Entered(b)
         /\ \A n \in Nat : Drained(b, n) \in Loop
         /\ \A n \in Nat : Drained(b, n + 1) = Turned[Drained(b, n)]
  <1> DEFINE after == CHOOSE f : f = [n \in Nat |-> IF n = 0 THEN Entered(b)
                                                    ELSE Turned[f[n - 1]]]
             step == [n \in Nat |-> [loop \in Loop |-> Turned[loop]]]
             T == {n \in Nat : after[n] \in Loop}
  <1>1. \A n : Drained(b, n) = after[n]
    BY DEF Drained
  <1>2. Entered(b) \in Loop
    BY DEF Entered, Loop
  <1>3. PICK f : Recursive(Nat, Loop, Entered(b), step, f)
    <2>1. step \in Steps(Loop)
      BY TurnCases DEF Steps
    <2> HIDE DEF step
    <2> QED BY <1>2, <2>1, FixedPoint
  <1>4. f = [n \in Nat |-> IF n = 0 THEN Entered(b) ELSE Turned[f[n - 1]]]
    <2>1. /\ f \in [Nat -> Loop]
          /\ f = [n \in Nat |-> IF n = 0 THEN Entered(b) ELSE step[n][f[n - 1]]]
      BY <1>3 DEF Recursive
    <2>2. \A n \in Nat : n # 0 => f[n - 1] \in Loop
      BY <2>1
    <2>3. \A n \in Nat : n # 0 => step[n][f[n - 1]] = Turned[f[n - 1]]
      BY <2>2
    <2> HIDE DEF step
    <2> QED BY <2>1, <2>3
  <1>5. after = [n \in Nat |-> IF n = 0 THEN Entered(b) ELSE Turned[after[n - 1]]]
    BY <1>4, Zenon
  <1> HIDE DEF after
  <1>6. after[0] = Entered(b) /\ \A n \in Nat : after[n + 1] = Turned[after[n]]
    BY <1>5
  <1>7. 0 \in T /\ \A n \in Nat : n \in T => n + 1 \in T
    <2>1. ASSUME NEW n \in Nat, after[n] \in Loop PROVE after[n + 1] \in Loop
      BY <1>6, <2>1, TurnCases
    <2> QED BY <1>2, <1>6, <2>1
  <1> HIDE DEF T
  <1>8. Nat \subseteq T
    BY <1>7, Induction
  <1> QED BY <1>1, <1>6, <1>8 DEF T

\* How many messages the loop has returned, and how many bytes are left.
Given(loop) == Len(loop.messages)
Left(loop) == Len(loop.buffer)

\* Both are numbers.
LEMMA LoopSizes ==
  ASSUME NEW loop \in Loop
  PROVE  Given(loop) \in Nat /\ Left(loop) \in Nat /\ loop.done \in BOOLEAN
  BY DEF Loop, Given, Left

\* As long as the loop runs, every turn returns one message and takes at least
\* a header out of the buffer.
LEMMA TurnProgress ==
  ASSUME NEW d \in Loop
  PROVE  /\ Given(Turned[d]) <= Given(d) + 1
         /\ ~Turned[d].done => /\ ~d.done /\ Given(Turned[d]) = Given(d) + 1
                               /\ Left(Turned[d]) + 4 <= Left(d)
  <1> DEFINE t == Turned[d]
             call == tryDecode(d.buffer)
  <1>1. t \in Loop
    BY TurnCases
  <1>2. /\ d.messages \in Seq(Seq(Byte)) /\ d.buffer \in Seq(Byte) /\ d.done \in BOOLEAN
        /\ Given(d) \in Nat /\ Left(d) \in Nat
    BY LoopSizes DEF Loop
  <1>3. CASE d.done
    BY <1>2, <1>3, TurnCases
  <1>4. CASE ~d.done /\ call.message = NoMessage
    <2>1. t.messages = d.messages /\ t.done
      BY <1>4, TurnCases
    <2>2. Given(t) = Given(d)
      BY <2>1 DEF Given
    <2> QED BY <1>2, <2>1, <2>2
  <1>5. CASE ~d.done /\ call.message # NoMessage
    <2>1. t.messages = Append(d.messages, call.message) /\ t.buffer = call.buffer
      BY <1>5, TurnCases
    <2>2. Len(call.buffer) + 4 <= Len(d.buffer)
      BY <1>2, <1>5, DecodeCases
    <2>3. \A given, m : given \in Seq(Seq(Byte)) => Len(Append(given, m)) = Len(given) + 1
      OBVIOUS
    <2>4. Given(t) = Given(d) + 1
      BY <1>2, <2>1, <2>3 DEF Given
    <2>5. Left(t) + 4 <= Left(d)
      BY <2>1, <2>2, Zenon DEF Left
    <2> QED BY <1>2, <1>5, <2>4, <2>5
  <1> QED BY <1>2, <1>3, <1>4, <1>5

\* So a loop that still runs after n turns has returned n messages and taken
\* 4 * n bytes.
LEMMA LoopProgress ==
  ASSUME NEW b \in Seq(Byte)
  PROVE  \A n \in Nat :
            /\ Given(Drained(b, n)) <= n
            /\ ~Drained(b, n).done =>
                  Given(Drained(b, n)) = n /\ Left(Drained(b, n)) + 4 * n <= Len(b)
  <1> DEFINE P(n) == /\ Given(Drained(b, n)) <= n
                     /\ ~Drained(b, n).done =>
                           Given(Drained(b, n)) = n /\ Left(Drained(b, n)) + 4 * n <= Len(b)
             T == {n \in Nat : P(n)}
  <1>1. P(0)
    <2>1. Given(Entered(b)) = 0 /\ Left(Entered(b)) = Len(b) /\ Len(b) \in Nat
      BY DEF Entered, Given, Left
    <2> QED BY <2>1, Turns
  <1>2. ASSUME NEW n \in Nat, P(n) PROVE P(n + 1)
    <2> DEFINE d == Drained(b, n)
               t == Drained(b, n + 1)
    <2>1. d \in Loop /\ t \in Loop /\ t = Turned[d]
      BY Turns
    <2>2. /\ Given(d) <= n
          /\ ~d.done => Given(d) = n /\ Left(d) + 4 * n <= Len(b)
      BY <1>2
    <2> HIDE DEF d, t
    <2>3. /\ Given(t) <= Given(d) + 1
          /\ ~t.done => ~d.done /\ Given(t) = Given(d) + 1 /\ Left(t) + 4 <= Left(d)
      BY <2>1, TurnProgress
    <2>4. Given(d) \in Nat /\ Left(d) \in Nat /\ Given(t) \in Nat /\ Left(t) \in Nat
      BY <2>1, LoopSizes
    <2>5. Given(t) <= n + 1
      BY <2>2, <2>3, <2>4
    <2>6. ASSUME ~t.done PROVE Given(t) = n + 1 /\ Left(t) + 4 * (n + 1) <= Len(b)
      BY <2>2, <2>3, <2>4, <2>6
    <2> QED BY <2>5, <2>6 DEF t
  <1> HIDE DEF P
  <1>3. 0 \in T /\ \A n \in Nat : n \in T => n + 1 \in T
    BY <1>1, <1>2
  <1> HIDE DEF T
  <1>4. Nat \subseteq T
    BY <1>3, Induction
  <1>5. \A n \in Nat : P(n)
    BY <1>4 DEF T
  <1> QED BY <1>5 DEF P

\* Once it has ended, nothing changes.
LEMMA LoopStays ==
  ASSUME NEW b \in Seq(Byte), NEW n \in Nat, Drained(b, n).done
  PROVE  \A k \in Nat : Drained(b, n + k) = Drained(b, n)
  <1> DEFINE T == {k \in Nat : Drained(b, n + k) = Drained(b, n)}
  <1>1. 0 \in T
    <2>1. n + 0 = n
      OBVIOUS
    <2> QED BY <2>1
  <1>2. ASSUME NEW k \in Nat, Drained(b, n + k) = Drained(b, n)
        PROVE  Drained(b, n + (k + 1)) = Drained(b, n)
    <2>1. n + k \in Nat /\ (n + k) + 1 = n + (k + 1)
      OBVIOUS
    <2>2. Drained(b, n + (k + 1)) = Turned[Drained(b, n + k)] /\ Drained(b, n) \in Loop
      BY <2>1, Turns
    <2>3. Turned[Drained(b, n)] = Drained(b, n)
      BY <2>2, TurnCases
    <2> QED BY <1>2, <2>2, <2>3
  <1>3. \A k \in Nat : k \in T => k + 1 \in T
    BY <1>2
  <1> HIDE DEF T
  <1>4. Nat \subseteq T
    BY <1>1, <1>3, Induction
  <1> QED BY <1>4 DEF T

\* DrainedAll is the end of the loop: its bound on the number of messages is
\* never the reason why the loop ends.
LEMMA LoopEnds ==
  ASSUME NEW b \in Seq(Byte)
  PROVE  /\ DrainedAll(b) \in Loop /\ DrainedAll(b).done
         /\ \A n \in Nat : n <= Given(DrainedAll(b)) =>
               Drained(b, n) \in Loop /\ Given(Drained(b, n)) = n
  <1> DEFINE M == Len(b) \div 4 + 1
             d == Drained(b, M)
  <1>1. M \in Nat /\ 4 * M > Len(b) /\ DrainedAll(b) = d
    BY DEF DrainedAll, HeaderSize
  <1> HIDE DEF M
  <1>2. d \in Loop
    BY <1>1, Turns
  <1>3. Given(d) \in Nat /\ Left(d) \in Nat /\ d.done \in BOOLEAN
    BY <1>2, LoopSizes
  <1>4. /\ Given(d) <= M
        /\ ~d.done => Left(d) + 4 * M <= Len(b)
    BY <1>1, LoopProgress
  <1>5. d.done
    BY <1>1, <1>3, <1>4
  <1>6. ASSUME NEW n \in Nat, n <= Given(d)
        PROVE  Drained(b, n) \in Loop /\ Given(Drained(b, n)) = n
    <2> DEFINE e == Drained(b, n)
    <2>1. e \in Loop
      BY Turns
    <2>2. /\ Given(e) <= n /\ (~e.done => Given(e) = n)
      BY LoopProgress
    <2>3. CASE e.done
      <3>1. M - n \in Nat /\ n + (M - n) = M
        BY <1>1, <1>3, <1>4, <1>6
      <3>2. d = e
        BY <2>3, <3>1, LoopStays
      <3> QED BY <1>3, <1>6, <2>1, <2>2, <3>2
    <2> QED BY <2>1, <2>2, <2>3
  <1> QED BY <1>1, <1>2, <1>5, <1>6

-----------------------------------------------------------------------------
(* The bytes and the messages of a stream.                                 *)

\* A message from the end is a message.
LEMMA FromEndType ==
  ASSUME NEW ms \in Seq(Seq(Byte)), NEW n \in 1..Len(ms)
  PROVE  /\ FromEnd(ms, n) \in Seq(Byte) /\ encode(FromEnd(ms, n)) \in Seq(Byte)
         /\ Len(ms) - n + 1 \in 1..Len(ms)
  <1>1. Len(ms) - n + 1 \in 1..Len(ms)
    OBVIOUS
  <1>2. FromEnd(ms, n) \in Seq(Byte)
    BY <1>1 DEF FromEnd
  <1> QED BY <1>1, <1>2, HeaderBytes DEF encode

\* The bytes of the last n messages.
LEMMA LastBytesStep ==
  ASSUME NEW ms \in Seq(Seq(Byte))
  PROVE  /\ LastBytes(ms)[0] = <<>>
         /\ \A n \in 0..Len(ms) : LastBytes(ms)[n] \in Seq(Byte)
         /\ \A n \in 1..Len(ms) :
               LastBytes(ms)[n] = encode(FromEnd(ms, n)) \o LastBytes(ms)[n - 1]
  <1> DEFINE D == 0..Len(ms)
             S == Seq(Byte)
             put(n, x) == encode(FromEnd(ms, n)) \o x
             last == CHOOSE f : f = [n \in D |-> IF n = 0 THEN <<>> ELSE put(n, f[n - 1])]
  <1>1. LastBytes(ms) = last
    BY DEF LastBytes
  <1>2. ASSUME NEW n \in 1..Len(ms), NEW x \in S PROVE put(n, x) \in S
    BY FromEndType
  <1>3. <<>> \in S /\ Len(ms) \in Nat
    OBVIOUS
  <1> HIDE DEF S, put
  <1>4. /\ last[0] = <<>>
        /\ \A n \in 0..Len(ms) : last[n] \in S
        /\ \A n \in 1..Len(ms) : last[n] = put(n, last[n - 1])
    <2> DEFINE step == [n \in Nat |-> [x \in S |-> IF n \in 1..Len(ms) THEN put(n, x) ELSE x]]
    <2>1. step \in Steps(S)
      BY <1>2 DEF Steps
    <2>2. \A n \in 1..Len(ms), x \in S : step[n][x] = put(n, x)
      OBVIOUS
    <2> HIDE DEF step
    <2>3. PICK f : Recursive(D, S, <<>>, step, f)
      BY <1>3, <2>1, FixedPoint
    <2>4. f \in [D -> S] /\ f = [n \in D |-> IF n = 0 THEN <<>> ELSE step[n][f[n - 1]]]
      BY <2>3 DEF Recursive
    <2>5. \A n \in D : n # 0 => n \in 1..Len(ms) /\ n - 1 \in D
      BY <1>3
    <2>6. \A n \in D : n # 0 => step[n][f[n - 1]] = put(n, f[n - 1])
      BY <2>2, <2>4, <2>5
    <2>7. f = [n \in D |-> IF n = 0 THEN <<>> ELSE put(n, f[n - 1])]
      BY <2>4, <2>6
    <2>8. last = [n \in D |-> IF n = 0 THEN <<>> ELSE put(n, last[n - 1])]
      BY <2>7, Zenon
    <2> HIDE DEF last
    <2> DEFINE T == {n \in Nat : n <= Len(ms) => last[n] \in S}
    <2>9. last[0] = <<>> /\ \A n \in 1..Len(ms) : last[n] = put(n, last[n - 1])
      <3>1. 0 \in D /\ \A n \in 1..Len(ms) : n \in D /\ n # 0
        BY <1>3
      <3> HIDE DEF D
      <3>2. \A n \in D : last[n] = IF n = 0 THEN <<>> ELSE put(n, last[n - 1])
        BY <2>8, Zenon
      <3> QED BY <3>1, <3>2
    <2>10. 0 \in T /\ \A n \in Nat : n \in T => n + 1 \in T
      <3>1. ASSUME NEW n \in Nat, n + 1 <= Len(ms), last[n] \in S PROVE last[n + 1] \in S
        <4>1. n + 1 \in 1..Len(ms) /\ (n + 1) - 1 = n
          BY <1>3, <3>1
        <4> QED BY <1>2, <2>9, <3>1, <4>1
      <3>2. \A n \in Nat : n + 1 <= Len(ms) => n <= Len(ms)
        BY <1>3
      <3> QED BY <1>3, <2>9, <3>1, <3>2
    <2> HIDE DEF T
    <2>11. Nat \subseteq T
      BY <2>10, Induction
    <2>12. \A n \in 0..Len(ms) : last[n] \in S
      BY <1>3, <2>11 DEF T
    <2> QED BY <2>9, <2>12
  <1> QED BY <1>1, <1>4 DEF S, put

\* The last n messages as far as they can be read.
LEMMA LastReadableStep ==
  ASSUME NEW ms \in Seq(Seq(Byte))
  PROVE  /\ LastReadable(ms)[0] = <<>>
         /\ \A n \in 0..Len(ms) : LastReadable(ms)[n] \in Seq(Seq(Byte))
         /\ \A n \in 1..Len(ms) :
               LastReadable(ms)[n] =
                  IF TooLong(Len(FromEnd(ms, n))) THEN <<>>
                  ELSE IF FromEnd(ms, n) \in Unparsable THEN LastReadable(ms)[n - 1]
                  ELSE <<FromEnd(ms, n)>> \o LastReadable(ms)[n - 1]
  <1> DEFINE D == 0..Len(ms)
             S == Seq(Seq(Byte))
             put(n, x) == IF TooLong(Len(FromEnd(ms, n))) THEN <<>>
                          ELSE IF FromEnd(ms, n) \in Unparsable THEN x
                          ELSE <<FromEnd(ms, n)>> \o x
             last == CHOOSE f : f = [n \in D |->
                        IF n = 0 \/ TooLong(Len(FromEnd(ms, n))) THEN <<>>
                        ELSE IF FromEnd(ms, n) \in Unparsable THEN f[n - 1]
                        ELSE <<FromEnd(ms, n)>> \o f[n - 1]]
  <1>1. LastReadable(ms) = last
    BY DEF LastReadable
  <1>2. ASSUME NEW n \in 1..Len(ms), NEW x \in S PROVE put(n, x) \in S
    <2>1. FromEnd(ms, n) \in Seq(Byte)
      BY FromEndType
    <2> HIDE DEF S
    <2>2. <<>> \in S /\ <<FromEnd(ms, n)>> \in S
      BY <2>1 DEF S
    <2>3. <<FromEnd(ms, n)>> \o x \in S
      BY <2>2 DEF S
    <2> QED BY <2>2, <2>3
  <1>3. <<>> \in S /\ Len(ms) \in Nat
    OBVIOUS
  <1> HIDE DEF S, put
  <1>4. /\ last[0] = <<>>
        /\ \A n \in 0..Len(ms) : last[n] \in S
        /\ \A n \in 1..Len(ms) : last[n] = put(n, last[n - 1])
    <2> DEFINE step == [n \in Nat |-> [x \in S |-> IF n \in 1..Len(ms) THEN put(n, x) ELSE x]]
    <2>1. step \in Steps(S)
      BY <1>2 DEF Steps
    <2>2. \A n \in 1..Len(ms), x \in S : step[n][x] = put(n, x)
      OBVIOUS
    <2> HIDE DEF step
    <2>3. PICK f : Recursive(D, S, <<>>, step, f)
      BY <1>3, <2>1, FixedPoint
    <2>4. f \in [D -> S] /\ f = [n \in D |-> IF n = 0 THEN <<>> ELSE step[n][f[n - 1]]]
      BY <2>3 DEF Recursive
    <2>5. \A n \in D : n # 0 => n \in 1..Len(ms) /\ n - 1 \in D
      BY <1>3
    <2>6. \A n \in D : n # 0 => step[n][f[n - 1]] = put(n, f[n - 1])
      BY <2>2, <2>4, <2>5
    <2>7. f = [n \in D |-> IF n = 0 THEN <<>> ELSE put(n, f[n - 1])]
      BY <2>4, <2>6
    <2>8. last = [n \in D |-> IF n = 0 \/ TooLong(Len(FromEnd(ms, n))) THEN <<>>
                              ELSE IF FromEnd(ms, n) \in Unparsable THEN last[n - 1]
                              ELSE <<FromEnd(ms, n)>> \o last[n - 1]]
      <3> DEFINE g == [n \in D |-> IF n = 0 \/ TooLong(Len(FromEnd(ms, n))) THEN <<>>
                              ELSE IF FromEnd(ms, n) \in Unparsable THEN f[n - 1]
                              ELSE <<FromEnd(ms, n)>> \o f[n - 1]]
      <3>1. \A n \in D : g[n] = IF n = 0 THEN <<>> ELSE put(n, f[n - 1])
        BY DEF put
      <3>2. g = [n \in D |-> g[n]]
        OBVIOUS
      <3> HIDE DEF g
      <3>3. f = g
        BY <2>7, <3>1, <3>2
      <3> QED BY <3>3, Zenon DEF g
    <2> HIDE DEF last
    <2> DEFINE T == {n \in Nat : n <= Len(ms) => last[n] \in S}
    <2>9. last[0] = <<>> /\ \A n \in 1..Len(ms) : last[n] = put(n, last[n - 1])
      <3>1. 0 \in D /\ \A n \in 1..Len(ms) : n \in D /\ n # 0
        BY <1>3
      <3> HIDE DEF D
      <3>2. \A n \in D : last[n] = IF n = 0 \/ TooLong(Len(FromEnd(ms, n))) THEN <<>>
                                   ELSE IF FromEnd(ms, n) \in Unparsable THEN last[n - 1]
                                   ELSE <<FromEnd(ms, n)>> \o last[n - 1]
        BY <2>8, Zenon
      <3>3. \A n \in D : last[n] = IF n = 0 THEN <<>> ELSE put(n, last[n - 1])
        BY <3>2, Zenon DEF put
      <3> QED BY <3>1, <3>3
    <2>10. 0 \in T /\ \A n \in Nat : n \in T => n + 1 \in T
      <3>1. ASSUME NEW n \in Nat, n + 1 <= Len(ms), last[n] \in S PROVE last[n + 1] \in S
        <4>1. n + 1 \in 1..Len(ms) /\ (n + 1) - 1 = n
          BY <1>3, <3>1
        <4> QED BY <1>2, <2>9, <3>1, <4>1
      <3>2. \A n \in Nat : n + 1 <= Len(ms) => n <= Len(ms)
        BY <1>3
      <3> QED BY <1>3, <2>9, <3>1, <3>2
    <2> HIDE DEF T
    <2>11. Nat \subseteq T
      BY <2>10, Induction
    <2>12. \A n \in 0..Len(ms) : last[n] \in S
      BY <1>3, <2>11 DEF T
    <2> QED BY <2>9, <2>12
  <1> QED BY <1>1, <1>4 DEF S, put

\* A frame is its header and its message.
LEMMA FrameBytes ==
  ASSUME NEW m \in Seq(Byte)
  PROVE  /\ encode(m) \in Seq(Byte) /\ Len(encode(m)) = 4 + Len(m)
         /\ \A i \in 1..4 : encode(m)[i] = Header(m)[i]
         /\ \A i \in 1..Len(m) : encode(m)[4 + i] = m[i]
  <1> DEFINE h == Header(m)
  <1>1. h \in Seq(Byte) /\ Len(h) = 4
    BY HeaderBytes
  <1>2. encode(m) = h \o m
    BY DEF encode
  <1> HIDE DEF h
  <1>3. h \in Seq(Byte)
    BY <1>1
  <1>4. /\ h \o m \in Seq(Byte) /\ Len(h \o m) = Len(h) + Len(m)
        /\ \A i \in 1..Len(h) : (h \o m)[i] = h[i]
        /\ \A i \in 1..Len(m) : (h \o m)[Len(h) + i] = m[i]
    <2>1. h \o m \in Seq(Byte) /\ Len(h \o m) = Len(h) + Len(m)
      BY <1>3
    <2>2. \A i \in 1..Len(h) : (h \o m)[i] = h[i]
      BY <1>3, ConcatAt
    <2>3. \A i \in 1..Len(m) : (h \o m)[Len(h) + i] = m[i]
      BY <1>3, ConcatAt
    <2> QED BY <2>1, <2>2, <2>3
  <1> QED BY <1>1, <1>2, <1>4, Zenon DEF h

\* The bytes b, and w behind them, are the frame of m and then rest.
Begins(b, w, m, rest) == b \o w = encode(m) \o rest

\* The codec sees how long the frame is, and can cut it off.
Cuts(b, w, m, rest) ==
    /\ FrameLength(b) = Len(m)
    /\ Len(b) >= 4 + Len(m) => /\ SubSeq(b, 5, 4 + Len(m)) = m
                               /\ SubSeq(b, 5 + Len(m), Len(b)) \o w = rest

\* A buffer at the front of which a frame begins.
LEMMA FrameAtFront ==
  ASSUME NEW m \in Seq(Byte), NEW rest \in Seq(Byte), NEW b \in Seq(Byte), NEW w \in Seq(Byte),
         Begins(b, w, m, rest), Len(b) >= 4, ~TooLong(Len(m))
  PROVE  Cuts(b, w, m, rest)
  <1> DEFINE e == encode(m)
  <1>1. /\ e \in Seq(Byte) /\ Len(e) = 4 + Len(m)
        /\ \A i \in 1..4 : e[i] = Header(m)[i]
        /\ \A i \in 1..Len(m) : e[4 + i] = m[i]
    BY FrameBytes
  <1> HIDE DEF e
  <1>2. b \o w = e \o rest
    BY Zenon DEF e, Begins
  <1>3. e \in Seq(Byte)
    BY <1>1
  <1>4. /\ \A i \in 1..Len(b) : i <= Len(e) => b[i] = e[i]
        /\ Len(e) <= Len(b) => SubSeq(b, Len(e) + 1, Len(b)) \o w = rest
    BY <1>2, <1>3, SameTail
  <1>5. Len(m) \in Nat /\ Len(b) \in Nat
    OBVIOUS
  <1>6. \A i \in 1..4 : b[i] = Header(m)[i]
    <2> TAKE i \in 1..4
    <2>1. i \in 1..Len(b) /\ i <= Len(e)
      BY <1>1, <1>5
    <2> QED BY <1>1, <1>4, <2>1
  <1>7. FrameLength(b) = Len(m)
    BY <1>6, LengthRead
  <1>8. ASSUME Len(b) >= 4 + Len(m)
        PROVE  SubSeq(b, 5, 4 + Len(m)) = m
    <2> DEFINE s == SubSeq(b, 5, 4 + Len(m))
               n == 4 + Len(m)
    <2>1. 5 \in 1..Len(b) + 1 /\ n \in 5 - 1..Len(b)
      BY <1>5, <1>8
    <2>2. /\ s \in Seq(Byte) /\ Len(s) = n - 5 + 1
          /\ \A i \in 1..n - 5 + 1 : s[i] = b[5 - 1 + i]
      BY <2>1, SubSeqAt
    <2> HIDE DEF s
    <2>3. Len(s) = Len(m) /\ s \in Seq(Byte)
      BY <1>5, <2>2
    <2>4. ASSUME NEW i \in 1..Len(s) PROVE s[i] = m[i]
      <3>1. i \in 1..n - 5 + 1 /\ 5 - 1 + i = 4 + i /\ 4 + i \in 1..Len(b)
            /\ 4 + i <= 4 + Len(m) /\ i \in 1..Len(m)
        BY <1>5, <1>8, <2>3
      <3>2. s[i] = b[4 + i]
        BY <2>2, <3>1
      <3>3. 4 + i <= Len(e)
        BY <1>1, <3>1
      <3>4. b[4 + i] = e[4 + i]
        BY <1>4, <3>1, <3>3
      <3> QED BY <1>1, <3>1, <3>2, <3>4
    <2>5. s = m
      BY <2>3, <2>4, SeqEqual
    <2> QED BY <2>5 DEF s
  <1>9. ASSUME Len(b) >= 4 + Len(m)
        PROVE  SubSeq(b, 5 + Len(m), Len(b)) \o w = rest
    <2>1. Len(e) <= Len(b) /\ Len(e) + 1 = 5 + Len(m)
      BY <1>1, <1>5, <1>9
    <2> QED BY <1>4, <2>1, Zenon
  <1> QED BY <1>7, <1>8, <1>9 DEF Cuts

-----------------------------------------------------------------------------
(* What the loop makes of a stream.                                        *)

\* All of a stream that can be read, whether every message fits, and whether
\* every one parses.
All(ms) == LastReadable(ms)[Len(ms)]
Fitting(ms) == \A i \in 1..Len(ms) : ~TooLong(Len(ms[i]))
Parsing(ms) == \A i \in 1..Len(ms) : ms[i] \notin Unparsable

\* What was got of a stream has all of it that can be read, and maybe more.
Ahead(ms, got) ==
    Len(All(ms)) <= Len(got) /\ \A i \in 1..Len(All(ms)) : got[i] = All(ms)[i]

\* The bytes that are left begin with a frame, and what was got is what came
\* before it.
InStep(ms, got, bytes) ==
    \E n \in 0..Len(ms) : /\ bytes = LastBytes(ms)[n]
                          /\ got \o LastReadable(ms)[n] = All(ms)

\* The codec is at a frame, or beyond a message that was too long.
Sound(ms, got, bytes) ==
    InStep(ms, got, bytes) \/ (~Fitting(ms) /\ Ahead(ms, got))

\* Sequences of messages can be regrouped.
LEMMA MessagesRegroup ==
  \A x, y, z \in Seq(Seq(Byte)) : (x \o y) \o z = x \o (y \o z)
  <1> DEFINE S == Seq(Byte)
  <1> HIDE DEF S
  <1>1. \A x, y, z \in Seq(S) : (x \o y) \o z = x \o (y \o z)
    BY ConcatRegroup
  <1> QED BY <1>1 DEF S

\* One more message keeps what was got ahead.
LEMMA AheadAppend ==
  ASSUME NEW ms \in Seq(Seq(Byte)), NEW got \in Seq(Seq(Byte)), NEW m \in Seq(Byte),
         Ahead(ms, got)
  PROVE  Ahead(ms, Append(got, m))
  <1> DEFINE all == All(ms)
             more == Append(got, m)
  <1>1. all \in Seq(Seq(Byte)) /\ Len(all) \in Nat /\ Len(got) \in Nat
    BY LastReadableStep DEF All
  <1>2. Len(all) <= Len(got) /\ \A i \in 1..Len(all) : got[i] = all[i]
    BY DEF Ahead
  <1> HIDE DEF all
  <1>3. Len(more) = Len(got) + 1 /\ \A i \in 1..Len(got) : more[i] = got[i]
    BY AppendProperties
  <1> HIDE DEF more
  <1>4. Len(all) <= Len(more) /\ \A i \in 1..Len(all) : i \in 1..Len(got)
    BY <1>1, <1>2, <1>3
  <1>5. \A i \in 1..Len(all) : more[i] = all[i]
    BY <1>2, <1>3, <1>4
  <1> QED BY <1>4, <1>5 DEF Ahead, all, more

\* One call of tryDecode on a buffer that begins with a frame.
LEMMA DecodeSound ==
  ASSUME NEW ms \in Seq(Seq(Byte)), NEW got \in Seq(Seq(Byte)),
         NEW b \in Seq(Byte), NEW w \in Seq(Byte), InStep(ms, got, b \o w)
  PROVE  LET d == tryDecode(b)
         IN /\ d.message = NoMessage => Sound(ms, got, d.buffer \o w)
            /\ d.message # NoMessage => Sound(ms, Append(got, d.message), d.buffer \o w)
            /\ Fitting(ms) /\ Parsing(ms) /\ d.message = NoMessage => Waits(d.buffer)
  <1> DEFINE d == tryDecode(b)
             L == LastBytes(ms)
             R == LastReadable(ms)
             all == All(ms)
  <1>1. /\ d.buffer \in Seq(Byte)
        /\ d.message \in Seq(Byte) \cup {NoMessage}
        /\ Waits(b) => d = [message |-> NoMessage, buffer |-> b]
        /\ Whole(b) => /\ d.message = Parsed(SubSeq(b, 5, 4 + FrameLength(b)))
                       /\ d.buffer = SubSeq(b, 5 + FrameLength(b), Len(b))
    BY DecodeCases
  <1>2. PICK n \in 0..Len(ms) : b \o w = L[n] /\ got \o R[n] = all
    BY DEF InStep
  <1>3. /\ L[0] = <<>>
        /\ \A k \in 0..Len(ms) : L[k] \in Seq(Byte)
        /\ \A k \in 1..Len(ms) : L[k] = encode(FromEnd(ms, k)) \o L[k - 1]
    BY LastBytesStep
  <1>4. /\ R[0] = <<>>
        /\ \A k \in 0..Len(ms) : R[k] \in Seq(Seq(Byte))
        /\ \A k \in 1..Len(ms) :
              R[k] = IF TooLong(Len(FromEnd(ms, k))) THEN <<>>
                     ELSE IF FromEnd(ms, k) \in Unparsable THEN R[k - 1]
                     ELSE <<FromEnd(ms, k)>> \o R[k - 1]
    BY LastReadableStep
  <1>5. all \in Seq(Seq(Byte))
    BY LastReadableStep DEF All
  <1> HIDE DEF d, L, R, all
  <1>6. CASE Waits(b)
    <2>1. d.message = NoMessage /\ d.buffer = b
      BY <1>1, <1>6
    <2>2. Sound(ms, got, d.buffer \o w)
      BY <2>1 DEF Sound
    <2> QED BY <1>6, <2>1, <2>2 DEF d
  <1>7. CASE ~Waits(b)
    <2> DEFINE m == FromEnd(ms, n)
               rest == L[n - 1]
    <2>1. Len(b) >= 4
      BY <1>7 DEF Waits
    <2>2. n \in 1..Len(ms) /\ n - 1 \in 0..Len(ms)
      <3>1. n # 0
        <4> SUFFICES ASSUME n = 0 PROVE FALSE
          OBVIOUS
        <4>1. b \o w = <<>>
          BY <1>2, <1>3
        <4>2. Len(b \o w) = Len(b) + Len(w) /\ Len(b) \in Nat /\ Len(w) \in Nat
          OBVIOUS
        <4>3. Len(b \o w) = 0
          BY <4>1
        <4> QED BY <2>1, <4>2, <4>3
      <3> QED BY <3>1
    <2>3. m \in Seq(Byte) /\ m = ms[Len(ms) - n + 1] /\ Len(ms) - n + 1 \in 1..Len(ms)
      BY <2>2, FromEndType DEF FromEnd
    <2>4. rest \in Seq(Byte) /\ b \o w = encode(m) \o rest
      BY <1>2, <1>3, <2>2
    <2>5. /\ R[n - 1] \in Seq(Seq(Byte))
          /\ R[n] = IF TooLong(Len(m)) THEN <<>>
                    ELSE IF m \in Unparsable THEN R[n - 1] ELSE <<m>> \o R[n - 1]
      BY <1>4, <2>2
    <2> HIDE DEF m, rest
    <2>6. CASE TooLong(Len(m))
      <3>1. ~Fitting(ms)
        BY <2>3, <2>6 DEF Fitting
      <3>2. got = all
        <4>1. R[n] = <<>>
          BY <2>5, <2>6
        <4>2. got \o <<>> = all
          BY <1>2, <4>1
        <4> QED BY <4>2
      <3>3. Ahead(ms, got)
        <4>1. Len(all) \in Nat
          BY <1>5
        <4> QED BY <3>2, <4>1 DEF Ahead, all
      <3>4. d.message # NoMessage => Ahead(ms, Append(got, d.message))
        BY <1>1, <3>3, AheadAppend
      <3> QED BY <3>1, <3>3, <3>4 DEF Sound, d
    <2>7. CASE ~TooLong(Len(m))
      <3>1. /\ FrameLength(b) = Len(m)
            /\ Len(b) >= 4 + Len(m) => /\ SubSeq(b, 5, 4 + Len(m)) = m
                                       /\ SubSeq(b, 5 + Len(m), Len(b)) \o w = rest
        <4>1. b \o w = encode(m) \o rest
          BY <2>4
        <4>2. m \in Seq(Byte) /\ rest \in Seq(Byte)
          BY <2>3, <2>4
        <4>3. Begins(b, w, m, rest)
          BY <4>1 DEF Begins
        <4>4. Cuts(b, w, m, rest)
          BY <2>1, <2>7, <4>2, <4>3, FrameAtFront
        <4> QED BY <4>4 DEF Cuts
      <3>2. Len(b) >= 4 + Len(m)
        <4>1. Len(b) \in Nat /\ Len(m) \in Nat
          BY <2>3
        <4> QED BY <1>7, <2>7, <3>1, <4>1 DEF Waits
      <3>3. Whole(b)
        BY <2>1, <2>7, <3>1, <3>2 DEF Whole
      <3>4. d.message = Parsed(m) /\ d.buffer \o w = rest
        BY <1>1, <3>1, <3>2, <3>3, Zenon
      <3>5. CASE m \in Unparsable
        <4>1. d.message = NoMessage
          BY <3>4, <3>5 DEF Parsed
        <4>2. got \o R[n - 1] = all
          BY <1>2, <2>5, <2>7, <3>5, Zenon
        <4>3. InStep(ms, got, d.buffer \o w)
          BY <2>2, <3>4, <4>2 DEF InStep, rest, L, R, all
        <4>4. ~Parsing(ms)
          BY <2>3, <3>5 DEF Parsing
        <4> QED BY <4>1, <4>3, <4>4 DEF Sound, d
      <3>6. CASE m \notin Unparsable
        <4>1. d.message = m
          BY <3>4, <3>6 DEF Parsed
        <4>2. m # NoMessage
          BY <2>3, CodecAssumption
        <4>3. Append(got, m) \o R[n - 1] = all
          <5>1. R[n] = <<m>> \o R[n - 1]
            BY <2>5, <2>7, <3>6, Zenon
          <5>2. got \o (<<m>> \o R[n - 1]) = all
            BY <1>2, <5>1, Zenon
          <5>4. <<m>> \in Seq(Seq(Byte)) /\ Append(got, m) = got \o <<m>>
            BY <2>3, AppendIsConcat
          <5>5. (got \o <<m>>) \o R[n - 1] = got \o (<<m>> \o R[n - 1])
            BY <2>5, <5>4, MessagesRegroup, Zenon
          <5> QED BY <5>2, <5>4, <5>5, Zenon
        <4>4. InStep(ms, Append(got, d.message), d.buffer \o w)
          BY <2>2, <3>4, <4>1, <4>3 DEF InStep, rest, L, R, all
        <4> QED BY <4>1, <4>2, <4>4 DEF Sound, d
      <3> QED BY <3>5, <3>6
    <2> QED BY <2>6, <2>7
  <1> QED BY <1>6, <1>7

\* The loop of a read handler, with p processed before it and w not yet read:
\* what it returned follows what came before, and it ends with a buffer that
\* waits, if every message fits and parses.
Keeps(ms, p, w, loop) ==
    /\ Sound(ms, p \o loop.messages, loop.buffer \o w)
    /\ Fitting(ms) /\ Parsing(ms) /\ loop.done => Waits(loop.buffer)

\* A turn of the loop keeps it so.
LEMMA TurnKeeps ==
  ASSUME NEW ms \in Seq(Seq(Byte)), NEW p \in Seq(Seq(Byte)), NEW w \in Seq(Byte),
         NEW loop \in Loop, Keeps(ms, p, w, loop)
  PROVE  Keeps(ms, p, w, Turned[loop])
  <1> DEFINE t == Turned[loop]
             b == loop.buffer
             d == tryDecode(b)
             got == p \o loop.messages
  <1>1. /\ loop.messages \in Seq(Seq(Byte)) /\ b \in Seq(Byte) /\ loop.done \in BOOLEAN
    BY DEF Loop
  <1>2. got \in Seq(Seq(Byte))
    <2> DEFINE S == Seq(Byte)
               q == loop.messages
    <2> HIDE DEF S, q
    <2>1. p \in Seq(S) /\ q \in Seq(S)
      BY <1>1 DEF S, q
    <2>2. p \o q \in Seq(S)
      BY <2>1
    <2> QED BY <2>2 DEF S, q
  <1>3. Sound(ms, got, b \o w)
    BY DEF Keeps
  <1>4. d.message \in Seq(Byte) \cup {NoMessage}
    BY <1>1, DecodeCases
  <1>5. CASE loop.done
    <2>1. t = loop
      BY <1>5, TurnCases
    <2> QED BY <2>1
  <1>6. CASE ~loop.done
    <2>1. /\ d.message = NoMessage =>
                t.messages = loop.messages /\ t.buffer = d.buffer /\ t.done
          /\ d.message # NoMessage =>
                /\ t.messages = Append(loop.messages, d.message)
                /\ t.buffer = d.buffer /\ ~t.done
      BY <1>6, TurnCases
    <2>2. d.message # NoMessage => p \o Append(loop.messages, d.message) = Append(got, d.message)
      <3> SUFFICES ASSUME d.message # NoMessage
                   PROVE  p \o Append(loop.messages, d.message) = Append(got, d.message)
        OBVIOUS
      <3> DEFINE m == d.message
                 q == loop.messages
                 S == Seq(Byte)
      <3>1. m \in S /\ p \in Seq(S) /\ q \in Seq(S)
        BY <1>1, <1>4
      <3> HIDE DEF m, q, S
      <3>2. p \o Append(q, m) = Append(p \o q, m)
        BY <3>1
      <3> QED BY <3>2 DEF m, q
    <2> HIDE DEF d, t, b, got
    <2>3. /\ d.message = NoMessage => Sound(ms, got, d.buffer \o w)
          /\ d.message # NoMessage => Sound(ms, Append(got, d.message), d.buffer \o w)
          /\ Fitting(ms) /\ Parsing(ms) /\ d.message = NoMessage => Waits(d.buffer)
      <3>1. CASE InStep(ms, got, b \o w)
        BY <1>1, <1>2, <3>1, DecodeSound DEF d
      <3>2. CASE ~Fitting(ms) /\ Ahead(ms, got)
        <4>1. d.message # NoMessage => Ahead(ms, Append(got, d.message))
          BY <1>2, <1>4, <3>2, AheadAppend
        <4> QED BY <3>2, <4>1 DEF Sound
      <3> QED BY <1>3, <3>1, <3>2 DEF Sound
    <2>4. CASE d.message = NoMessage
      <3>1. t.messages = loop.messages /\ t.buffer = d.buffer
        BY <2>1, <2>4
      <3>2. p \o t.messages = got /\ t.buffer \o w = d.buffer \o w
        BY <3>1, Zenon DEF got
      <3>3. Sound(ms, p \o t.messages, t.buffer \o w)
        BY <2>3, <2>4, <3>2, Zenon
      <3>4. Fitting(ms) /\ Parsing(ms) => Waits(t.buffer)
        BY <2>3, <2>4, <3>1
      <3> QED BY <3>3, <3>4 DEF Keeps, t
    <2>5. CASE d.message # NoMessage
      <3>1. t.messages = Append(loop.messages, d.message) /\ t.buffer = d.buffer /\ ~t.done
        BY <2>1, <2>5
      <3>2. p \o t.messages = Append(got, d.message) /\ t.buffer \o w = d.buffer \o w
        BY <2>2, <2>5, <3>1, Zenon
      <3>3. Sound(ms, p \o t.messages, t.buffer \o w)
        BY <2>3, <2>5, <3>2, Zenon
      <3> QED BY <3>1, <3>3 DEF Keeps, t
    <2> QED BY <2>4, <2>5
  <1> QED BY <1>1, <1>5, <1>6

\* So the whole loop does.
LEMMA LoopKeeps ==
  ASSUME NEW ms \in Seq(Seq(Byte)), NEW p \in Seq(Seq(Byte)), NEW w \in Seq(Byte),
         NEW b \in Seq(Byte), Sound(ms, p, b \o w)
  PROVE  \A n \in Nat : Keeps(ms, p, w, Drained(b, n))
  <1> DEFINE T == {n \in Nat : Keeps(ms, p, w, Drained(b, n))}
  <1>1. Keeps(ms, p, w, Drained(b, 0))
    <2>1. Drained(b, 0) = Entered(b)
      BY Turns
    <2>2. Entered(b).messages = <<>> /\ Entered(b).buffer = b /\ ~Entered(b).done
      BY DEF Entered
    <2>3. p \o <<>> = p
      OBVIOUS
    <2> QED BY <2>1, <2>2, <2>3, Zenon DEF Keeps
  <1>2. ASSUME NEW n \in Nat, Keeps(ms, p, w, Drained(b, n))
        PROVE  Keeps(ms, p, w, Drained(b, n + 1))
    <2>1. Drained(b, n) \in Loop /\ Drained(b, n + 1) = Turned[Drained(b, n)]
      BY Turns
    <2> QED BY <1>2, <2>1, TurnKeeps
  <1>3. 0 \in T /\ \A n \in Nat : n \in T => n + 1 \in T
    BY <1>1, <1>2
  <1> HIDE DEF T
  <1>4. Nat \subseteq T
    BY <1>3, Induction
  <1> QED BY <1>4 DEF T

\* DrainedAll is one of them.
LEMMA AllKeeps ==
  ASSUME NEW ms \in Seq(Seq(Byte)), NEW p \in Seq(Seq(Byte)), NEW w \in Seq(Byte),
         NEW b \in Seq(Byte), Sound(ms, p, b \o w)
  PROVE  Keeps(ms, p, w, DrainedAll(b))
  <1>1. Len(b) \div HeaderSize + 1 \in Nat
    BY DEF HeaderSize
  <1> QED BY <1>1, LoopKeeps DEF DrainedAll

\* What was got in step is a beginning of what can be read.
LEMMA SoundInOrder ==
  ASSUME NEW ms \in Seq(Seq(Byte)), NEW got \in Seq(Seq(Byte)), NEW bytes,
         Sound(ms, got, bytes)
  PROVE  /\ \A i \in 1..Len(got) : i <= Len(All(ms)) => got[i] = All(ms)[i]
         /\ Fitting(ms) => Len(got) <= Len(All(ms))
  <1> DEFINE all == All(ms)
  <1>1. all \in Seq(Seq(Byte)) /\ Len(all) \in Nat /\ Len(got) \in Nat
    BY LastReadableStep DEF All
  <1>2. CASE InStep(ms, got, bytes)
    <2>1. PICK n \in 0..Len(ms) : got \o LastReadable(ms)[n] = all
      BY <1>2 DEF InStep
    <2> DEFINE r == LastReadable(ms)[n]
    <2>2. r \in Seq(Seq(Byte))
      BY LastReadableStep
    <2> HIDE DEF r
    <2>3. got \o r = all
      BY <2>1 DEF r
    <2>4. Len(got \o r) = Len(got) + Len(r) /\ Len(r) \in Nat
      BY <2>2
    <2>5. \A i \in 1..Len(got) : (got \o r)[i] = got[i]
      BY <2>2, ConcatAt
    <2> HIDE DEF all
    <2>6. Len(got) <= Len(all)
      BY <1>1, <2>3, <2>4
    <2>7. \A i \in 1..Len(got) : all[i] = got[i]
      BY <2>3, <2>5, Zenon
    <2> QED BY <2>6, <2>7 DEF all
  <1>3. CASE ~Fitting(ms) /\ Ahead(ms, got)
    <2> HIDE DEF all
    <2>1. \A i \in 1..Len(all) : got[i] = all[i]
      BY <1>3 DEF Ahead, all
    <2>2. \A i \in 1..Len(got) : i <= Len(all) => i \in 1..Len(all)
      BY <1>1
    <2> QED BY <1>3, <2>1, <2>2 DEF all
  <1> QED BY <1>2, <1>3 DEF Sound

-----------------------------------------------------------------------------
(* Reads that bring bytes.                                                 *)

\* A read that has brought bytes, and those that wait in a queue.
GoodRead(c) == c.op = "read" /\ c.ok
Size(c) == c.size
Good(q) == {c \in Completion : GoodRead(c) /\ \E i \in 1..Len(q) : q[i] = c}

\* From s to t the session stays closed, starts no read and completes none.
Quiet(s, t) ==
    /\ s.closed => t.closed
    /\ "read" \in t.pending => "read" \in s.pending
    /\ Good(t.ready) \subseteq Good(s.ready)

\* Quiet steps add up.
LEMMA QuietTwice ==
  ASSUME NEW s, NEW t, NEW u, Quiet(s, t), Quiet(t, u)
  PROVE  Quiet(s, u)
  BY DEF Quiet

\* A completion at the end of the queue.
LEMMA GoodAppend ==
  ASSUME NEW q \in Seq(Completion), NEW e \in Completion
  PROVE  Good(Append(q, e)) = Good(q) \cup IF GoodRead(e) THEN {e} ELSE {}
  <1> DEFINE r == Append(q, e)
  <1>1. /\ Len(r) = Len(q) + 1 /\ Len(q) \in Nat
        /\ \A i \in 1..Len(q) : r[i] = q[i]
        /\ r[Len(q) + 1] = e
    OBVIOUS
  <1> HIDE DEF r
  <1>2. \A c : (\E i \in 1..Len(r) : r[i] = c) <=> c = e \/ \E i \in 1..Len(q) : q[i] = c
    BY <1>1
  <1>3. Good(r) = Good(q) \cup IF GoodRead(e) THEN {e} ELSE {}
    BY <1>2 DEF Good
  <1> QED BY <1>3 DEF r

\* The completion at the head is taken.
LEMMA GoodTail ==
  ASSUME NEW q \in Seq(Completion), q # <<>>
  PROVE  /\ Good(Tail(q)) \subseteq Good(q)
         /\ GoodRead(Head(q)) => Head(q) \in Good(q)
         /\ Head(q) \in Completion
  <1> DEFINE r == Tail(q)
  <1>1. /\ Len(q) \in Nat /\ Len(q) >= 1 /\ Head(q) = q[1] /\ q[1] \in Completion
        /\ Len(r) = Len(q) - 1
        /\ \A i \in 1..Len(r) : r[i] = q[i + 1]
    OBVIOUS
  <1> HIDE DEF r
  <1>2. \A c : (\E i \in 1..Len(r) : r[i] = c) => \E i \in 1..Len(q) : q[i] = c
    BY <1>1
  <1>3. Good(r) \subseteq Good(q)
    BY <1>2 DEF Good
  <1>4. GoodRead(Head(q)) => Head(q) \in Good(q)
    BY <1>1 DEF Good
  <1> QED BY <1>1, <1>3, <1>4 DEF r

\* An operation that failed is no good read.
LEMMA FailedNotGood ==
  ASSUME NEW op \in Operation
  PROVE  LET e == [op |-> op, ok |-> FALSE, size |-> 0]
         IN e \in Completion /\ ~GoodRead(e)
  BY SessionIoAssumption DEF Completion, GoodRead

\* begin() of a write.
LEMMA BeginningQuiet ==
  ASSUME NEW s \in Session, NEW op \in Operation
  PROVE  LET b == begin(s, op)
         IN /\ b.write_queue = s.write_queue /\ b.closed = s.closed
            /\ Good(b.ready) = Good(s.ready)
            /\ op # "read" => Quiet(s, b)
  <1> DEFINE b == begin(s, op)
             e == [op |-> op, ok |-> FALSE, size |-> 0]
  <1>1. s.ready \in Seq(Completion) /\ s.closed \in BOOLEAN
    BY CountsType
  <1>2. e \in Completion /\ ~GoodRead(e)
    BY FailedNotGood
  <1>3. CASE s.closed
    <2>1. b = [s EXCEPT !.ready = Append(@, e)]
      BY <1>3 DEF begin
    <2> HIDE DEF e
    <2>2. /\ b.ready = Append(s.ready, e) /\ b.closed = s.closed /\ b.pending = s.pending
          /\ b.write_queue = s.write_queue
      BY <2>1 DEF Session
    <2>3. Good(b.ready) = Good(s.ready)
      BY <1>1, <1>2, <2>2, GoodAppend
    <2> QED BY <2>2, <2>3 DEF Quiet
  <1>4. CASE ~s.closed
    <2>1. b = [s EXCEPT !.pending = @ \cup {op}]
      BY <1>4 DEF begin
    <2>2. /\ b.ready = s.ready /\ b.closed = s.closed /\ b.pending = s.pending \cup {op}
          /\ b.write_queue = s.write_queue
      BY <2>1 DEF Session
    <2> QED BY <2>2 DEF Quiet
  <1> QED BY <1>1, <1>3, <1>4

\* The heartbeat timer.
LEMMA WaitingQuiet ==
  ASSUME NEW s \in Session
  PROVE  Quiet(s, resetHeartbeatTimer(s)) /\ resetHeartbeatTimer(s).ready = s.ready
  <1> DEFINE b == resetHeartbeatTimer(s)
  <1>1. b = s \/ b = [s EXCEPT !.pending = @ \cup {"timer"}]
    BY DEF resetHeartbeatTimer
  <1>2. b.ready = s.ready /\ b.closed = s.closed /\ b.pending \subseteq s.pending \cup {"timer"}
    BY <1>1 DEF Session
  <1> QED BY <1>2 DEF Quiet

\* doWrite().
LEMMA WritingQuiet ==
  ASSUME NEW s \in Session
  PROVE  Quiet(s, doWrite(s)) /\ doWrite(s).write_queue = s.write_queue
  <1>1. "write" \in Operation /\ "write" # "read"
    BY DEF Operation
  <1>2. doWrite(s) = s \/ doWrite(s) = begin(s, "write")
    BY DEF doWrite
  <1>3. Quiet(s, s)
    BY DEF Quiet
  <1> QED BY <1>1, <1>2, <1>3, BeginningQuiet

\* A message more in the queue, and maybe a write.
LEMMA SendingQuiet ==
  ASSUME NEW s \in Session
  PROVE  Quiet(s, send(s)) /\ send(s).write_queue <= s.write_queue + 1
  <1> DEFINE q == [s EXCEPT !.write_queue = @ + 1]
  <1>1. s.write_queue \in Nat
    BY CountsType
  <1>2. /\ q \in Session /\ q.write_queue = s.write_queue + 1 /\ q.ready = s.ready
        /\ q.closed = s.closed /\ q.pending = s.pending
    BY <1>1 DEF Session
  <1>3. send(s) = s \/ send(s) = q \/ send(s) = doWrite(q)
    BY DEF send
  <1> HIDE DEF q
  <1>4. Quiet(s, s) /\ Quiet(s, q)
    BY <1>2 DEF Quiet
  <1>5. Quiet(q, doWrite(q)) /\ doWrite(q).write_queue = q.write_queue
    BY <1>2, WritingQuiet
  <1>6. Quiet(s, doWrite(q))
    BY <1>4, <1>5, QuietTwice
  <1> QED BY <1>1, <1>2, <1>3, <1>4, <1>5, <1>6

\* close().
LEMMA ClosingQuiet ==
  ASSUME NEW s \in Session
  PROVE  Quiet(s, close(s)) /\ close(s).write_queue = s.write_queue /\ close(s).closed
  <1> DEFINE b == close(s)
  <1>1. /\ b.closed /\ b.write_queue = s.write_queue
        /\ b.pending = IF s.closed THEN s.pending ELSE {}
    BY Closing
  <1>2. s.ready \in Seq(Completion) /\ s.closed \in BOOLEAN
    BY CountsType
  <1>3. Good(b.ready) \subseteq Good(s.ready)
    <2>1. CASE s.closed
      BY <2>1 DEF close
    <2>2. CASE ~s.closed
      <3> DEFINE re == [op |-> "read", ok |-> FALSE, size |-> 0]
                 we == [op |-> "write", ok |-> FALSE, size |-> 0]
      <3>1. re \in Completion /\ we \in Completion /\ ~GoodRead(re) /\ ~GoodRead(we)
        BY FailedNotGood DEF Operation
      <3>2. b.ready = s.ready \o Aborted(s)
        BY <2>2 DEF close, Session
      <3>3. /\ Failed(s, "read") = <<re>> \/ Failed(s, "read") = <<>>
            /\ Failed(s, "write") = <<we>> \/ Failed(s, "write") = <<>>
        BY DEF Failed
      <3> HIDE DEF re, we
      <3>4. \/ b.ready = s.ready
            \/ b.ready = Append(s.ready, re)
            \/ b.ready = Append(s.ready, we)
            \/ b.ready = Append(Append(s.ready, re), we)
        <4>1. /\ s.ready \o (<<>> \o <<>>) = s.ready
              /\ s.ready \o (<<re>> \o <<>>) = Append(s.ready, re)
              /\ s.ready \o (<<>> \o <<we>>) = Append(s.ready, we)
          BY <1>2, <3>1
        <4>2. s.ready \o (<<re>> \o <<we>>) = Append(Append(s.ready, re), we)
          BY <1>2, <3>1
        <4> QED BY <3>2, <3>3, <4>1, <4>2 DEF Aborted
      <3>5. Append(s.ready, re) \in Seq(Completion)
        BY <1>2, <3>1
      <3>6. /\ Good(Append(s.ready, re)) = Good(s.ready)
            /\ Good(Append(s.ready, we)) = Good(s.ready)
            /\ Good(Append(Append(s.ready, re), we)) = Good(Append(s.ready, re))
        BY <1>2, <3>1, <3>5, GoodAppend
      <3> QED BY <3>4, <3>6
    <2> QED BY <1>2, <2>1, <2>2
  <1> QED BY <1>1, <1>3 DEF Quiet

-----------------------------------------------------------------------------
(* The stream and what the session has made of it.                         *)

\* What was got agrees with what can be read of the stream.
InOrder(ms, got) ==
    /\ \A i \in 1..Len(got) : i <= Len(All(ms)) => got[i] = All(ms)[i]
    /\ Fitting(ms) => Len(got) <= Len(All(ms))

\* As long as the session is open or a read can still bring bytes, the codec is
\* at a frame of the stream.  A read that leaves the loop early is the last.
CanRead == ~session.closed \/ "read" \in session.pending \/ Good(session.ready) # {}

StreamInv ==
    /\ kind \in Kind /\ stream \in Streams /\ wire \in Seq(Byte)
    /\ buffer \in Seq(Byte) /\ processed \in Seq(Seq(Byte))
    /\ session.write_queue <= MaxQueue
    /\ \A c \in Good(session.ready) : Size(c) <= Len(wire)
    /\ CanRead => Sound(stream, processed, buffer \o wire)
    /\ InOrder(stream, processed)
    /\ ~session.closed /\ Fitting(stream) /\ Parsing(stream) => Waits(buffer)

\* A beginning of what is in order is in order.
LEMMA InOrderPrefix ==
  ASSUME NEW ms \in Seq(Seq(Byte)), NEW p \in Seq(Seq(Byte)), NEW q \in Seq(Seq(Byte)),
         NEW k \in 0..Len(q), InOrder(ms, p \o q)
  PROVE  p \o SubSeq(q, 1, k) \in Seq(Seq(Byte)) /\ InOrder(ms, p \o SubSeq(q, 1, k))
  <1> DEFINE S == Seq(Byte)
             s == SubSeq(q, 1, k)
             x == p \o q
             y == p \o s
             all == All(ms)
  <1>1. all \in Seq(S) /\ Len(all) \in Nat
    BY LastReadableStep DEF All
  <1>2. p \in Seq(S) /\ q \in Seq(S) /\ Len(p) \in Nat /\ Len(q) \in Nat
    OBVIOUS
  <1> HIDE DEF S
  <1>3. 1 \in 1..Len(q) + 1 /\ k \in 1 - 1..Len(q)
    BY <1>2
  <1>4. /\ s \in Seq(S) /\ Len(s) = k - 1 + 1
        /\ \A i \in 1..k - 1 + 1 : s[i] = q[1 - 1 + i]
    BY <1>2, <1>3, SubSeqAt
  <1> HIDE DEF s
  <1>5. Len(s) = k /\ s \in Seq(S) /\ \A i \in 1..k : s[i] = q[i]
    <2>1. k - 1 + 1 = k /\ \A i \in 1..k : 1 - 1 + i = i
      OBVIOUS
    <2>2. Len(s) = k /\ s \in Seq(S)
      BY <1>4, <2>1
    <2> QED BY <1>4, <2>1, <2>2
  <1>6. /\ Len(x) = Len(p) + Len(q)
        /\ \A i \in 1..Len(p) : x[i] = p[i]
        /\ \A i \in 1..Len(q) : x[Len(p) + i] = q[i]
    <2>1. Len(x) = Len(p) + Len(q)
      BY <1>2
    <2>2. \A i \in 1..Len(p) : x[i] = p[i]
      BY <1>2, ConcatAt
    <2>3. \A i \in 1..Len(q) : x[Len(p) + i] = q[i]
      BY <1>2, ConcatAt
    <2> QED BY <2>1, <2>2, <2>3
  <1>7. /\ y \in Seq(S) /\ Len(y) = Len(p) + k
        /\ \A i \in 1..Len(p) : y[i] = p[i]
        /\ \A i \in 1..k : y[Len(p) + i] = q[i]
    <2>0. s \in Seq(S)
      BY <1>5
    <2>1. y \in Seq(S) /\ Len(y) = Len(p) + Len(s)
      BY <1>2, <2>0
    <2>2. \A i \in 1..Len(p) : y[i] = p[i]
      BY <1>2, <2>0, ConcatAt
    <2>3. \A i \in 1..Len(s) : y[Len(p) + i] = s[i]
      BY <1>2, <2>0, ConcatAt
    <2> HIDE DEF y
    <2> QED BY <1>5, <2>1, <2>2, <2>3
  <1>8. InOrder(ms, x)
    OBVIOUS
  <1> HIDE DEF x, y, all
  <1>9. /\ \A i \in 1..Len(x) : i <= Len(all) => x[i] = all[i]
        /\ Fitting(ms) => Len(x) <= Len(all)
    BY <1>8 DEF InOrder, all
  <1>10. ASSUME NEW i \in 1..Len(y) PROVE i \in 1..Len(x) /\ y[i] = x[i]
    <2>1. i \in 1..Len(x)
      BY <1>2, <1>6, <1>7
    <2>2. CASE i <= Len(p)
      <3>1. i \in 1..Len(p)
        BY <1>2, <2>2
      <3> QED BY <1>6, <1>7, <2>1, <3>1
    <2>3. CASE i > Len(p)
      <3> DEFINE j == i - Len(p)
      <3>1. j \in 1..k /\ j \in 1..Len(q) /\ Len(p) + j = i
        BY <1>2, <1>7, <2>3
      <3> HIDE DEF j
      <3>2. y[Len(p) + j] = q[j] /\ x[Len(p) + j] = q[j]
        BY <1>6, <1>7, <3>1
      <3> QED BY <2>1, <3>1, <3>2
    <2> QED BY <1>2, <2>2, <2>3
  <1>11. Len(y) <= Len(x)
    BY <1>2, <1>6, <1>7
  <1>12. \A i \in 1..Len(y) : i <= Len(all) => y[i] = all[i]
    BY <1>9, <1>10
  <1>13. Fitting(ms) => Len(y) <= Len(all)
    BY <1>1, <1>2, <1>6, <1>7, <1>9, <1>11
  <1>14. InOrder(ms, y)
    BY <1>12, <1>13 DEF InOrder, all
  <1> QED BY <1>7, <1>14 DEF y, s, S

\* A step that starts and completes no read leaves the stream as it is.
LEMMA QuietStep ==
  ASSUME StreamInv, Quiet(session, session'), session'.write_queue <= MaxQueue,
         UNCHANGED <<kind, stream, wire, buffer, processed>>
  PROVE  StreamInv'
  <1>1. CanRead' => CanRead
    BY DEF CanRead, Quiet
  <1>2. /\ kind' = kind /\ stream' = stream /\ wire' = wire /\ buffer' = buffer
        /\ processed' = processed
    OBVIOUS
  <1>3. buffer' \o wire' = buffer \o wire
    BY <1>2, Zenon
  <1>4. CanRead' => Sound(stream', processed', buffer' \o wire')
    BY <1>1, <1>2, <1>3, Zenon DEF StreamInv
  <1>5. InOrder(stream', processed')
    BY <1>2, Zenon DEF StreamInv
  <1>6. \A c \in Good(session'.ready) : Size(c) <= Len(wire')
    BY <1>2 DEF StreamInv, Quiet
  <1>7. session'.closed \/ ~session.closed
    BY DEF Quiet
  <1>8. ~session'.closed /\ Fitting(stream') /\ Parsing(stream') => Waits(buffer')
    BY <1>2, <1>7, Zenon DEF StreamInv
  <1>9. /\ kind' \in Kind /\ stream' \in Streams /\ wire' \in Seq(Byte)
        /\ buffer' \in Seq(Byte) /\ processed' \in Seq(Seq(Byte))
    BY <1>2, Zenon DEF StreamInv
  <1> QED BY <1>4, <1>5, <1>6, <1>8, <1>9 DEF StreamInv

\* The read at the head of the queue: what it feeds, and what is left.
LEMMA Feeding ==
  ASSUME IoInv, StreamInv, Handling("read", TRUE)
  PROVE  LET rest == SubSeq(wire, Arrived + 1, Len(wire))
         IN /\ Fed \in Seq(Byte) /\ rest \in Seq(Byte)
            /\ Sound(stream, processed, Fed \o rest)
            /\ Popped \in Session /\ Good(Popped.ready) = {} /\ "read" \notin Popped.pending
            /\ Popped.closed = session.closed /\ Popped.write_queue = session.write_queue
            /\ Reading(Popped) = 0
  <1> DEFINE rest == SubSeq(wire, Arrived + 1, Len(wire))
             h == Head(session.ready)
             a == Arrived
             first == SubSeq(wire, 1, a)
  <1>1. session.ready # <<>> /\ h.op = "read" /\ h.ok
    BY DEF Handling
  <1>2. /\ session \in Session /\ session.ready \in Seq(Completion)
        /\ session.pending \in SUBSET Operation /\ IsFiniteSet(session.pending)
        /\ Reading(session) <= 1
    BY CountsType DEF IoInv, ReadsSound
  <1>3. h \in Good(session.ready) /\ h \in Completion
    BY <1>1, <1>2, GoodTail DEF GoodRead
  <1>4. a \in Nat /\ a <= Len(wire) /\ wire \in Seq(Byte) /\ Len(wire) \in Nat
    <2>1. a = Size(h) /\ Size(h) \in 0..ReadSize
      BY <1>3 DEF Arrived, Size, Completion
    <2>2. Size(h) <= Len(wire)
      BY <1>3 DEF StreamInv
    <2>3. wire \in Seq(Byte) /\ Len(wire) \in Nat
      BY DEF StreamInv
    <2> QED BY <2>1, <2>2, <2>3, SessionIoAssumption
  <1>5. Sound(stream, processed, buffer \o wire) /\ buffer \in Seq(Byte)
    BY <1>3 DEF StreamInv, CanRead
  <1> HIDE DEF a
  <1>6. /\ first \in Seq(Byte) /\ SubSeq(wire, a + 1, Len(wire)) \in Seq(Byte)
        /\ first \o SubSeq(wire, a + 1, Len(wire)) = wire
    <2>1. 1 \in 1..Len(wire) + 1 /\ a \in 1 - 1..Len(wire) /\ Len(wire) \in a..Len(wire)
          /\ a + 1 \in 1..Len(wire) + 1 /\ Len(wire) \in (a + 1) - 1..Len(wire)
      BY <1>4
    <2>2. first \in Seq(Byte)
      BY <1>4, <2>1, SubSeqAt
    <2>3. SubSeq(wire, a + 1, Len(wire)) \in Seq(Byte)
      BY <1>4, <2>1, SubSeqAt
    <2>4. first \o SubSeq(wire, a + 1, Len(wire)) = SubSeq(wire, 1, Len(wire))
      BY <1>4, <2>1, ConcatAdjacentSubSeq
    <2>5. SubSeq(wire, 1, Len(wire)) = wire
      BY <1>4, SubSeqFull
    <2> QED BY <2>2, <2>3, <2>4, <2>5
  <1>7. rest = SubSeq(wire, a + 1, Len(wire)) /\ Fed = buffer \o first
    BY Zenon DEF a, Fed
  <1> HIDE DEF rest, first
  <1>8. rest \in Seq(Byte) /\ first \in Seq(Byte) /\ first \o rest = wire
    BY <1>6, <1>7, Zenon
  <1>9. Fed \in Seq(Byte)
    <2>1. \A u, v \in Seq(Byte) : u \o v \in Seq(Byte)
      OBVIOUS
    <2> QED BY <1>5, <1>7, <1>8, <2>1, Zenon
  <1>10. Fed \o rest = buffer \o wire
    <2>0. \A x, y, z \in Seq(Byte) : (x \o y) \o z = x \o (y \o z)
      BY ConcatRegroup
    <2>1. (buffer \o first) \o rest = buffer \o (first \o rest)
      BY <1>5, <1>8, <2>0, Zenon
    <2> QED BY <1>7, <1>8, <2>1, Zenon
  <1>11. Sound(stream, processed, Fed \o rest)
    BY <1>5, <1>10, Zenon
  <1>12. /\ Popped \in Session /\ Reading(Popped) = 0 /\ "read" \notin Popped.pending
         /\ Popped.closed = session.closed /\ Popped.write_queue = session.write_queue
    BY <1>1, PoppedSound
  <1>13. Good(Popped.ready) = {}
    <2>1. Popped.ready \in Seq(Completion) /\ IsFiniteSet(Popped.pending)
      BY <1>12, CountsType
    <2>2. \A i \in 1..Len(Popped.ready) : Popped.ready[i].op \notin {"read"}
      BY <1>12, <2>1, CountZero DEF Reading
    <2> QED BY <2>2 DEF Good, GoodRead
  <1> QED BY <1>8, <1>9, <1>11, <1>12, <1>13 DEF rest

\* A read handler whose loop runs to its end, and a session of which no read is
\* known to have brought bytes.
LEMMA DoneStep ==
  ASSUME IoInv, StreamInv, Handling("read", TRUE), LoopDone,
         Good(session'.ready) = {}, session'.write_queue <= MaxQueue
  PROVE  StreamInv'
  <1> DEFINE rest == SubSeq(wire, Arrived + 1, Len(wire))
             d == DrainedAll(Fed)
  <1>1. Fed \in Seq(Byte) /\ rest \in Seq(Byte) /\ Sound(stream, processed, Fed \o rest)
    BY Feeding
  <1>2. /\ wire' = rest /\ buffer' = d.buffer /\ processed' = processed \o d.messages
        /\ kind' = kind /\ stream' = stream
    BY DEF LoopDone
  <1>3. stream \in Seq(Seq(Byte)) /\ processed \in Seq(Seq(Byte))
    BY SessionIoAssumption DEF StreamInv
  <1> HIDE DEF rest, d
  <1>4. d \in Loop /\ d.done
    BY <1>1, LoopEnds DEF d
  <1>5. d.buffer \in Seq(Byte) /\ d.messages \in Seq(Seq(Byte))
    BY <1>4 DEF Loop
  <1>6. Keeps(stream, processed, rest, d)
    BY <1>1, <1>3, AllKeeps DEF d
  <1>7. /\ Sound(stream, processed \o d.messages, d.buffer \o rest)
        /\ Fitting(stream) /\ Parsing(stream) => Waits(d.buffer)
    BY <1>4, <1>6 DEF Keeps
  <1>8. processed' \in Seq(Seq(Byte))
    <2> DEFINE S == Seq(Byte)
               p == processed
               q == d.messages
    <2>1. p \in Seq(S) /\ q \in Seq(S)
      BY <1>3, <1>5
    <2> HIDE DEF S, p, q
    <2>2. p \o q \in Seq(S)
      BY <2>1
    <2> QED BY <1>2, <2>2 DEF S, p, q
  <1>9. Sound(stream', processed', buffer' \o wire')
    BY <1>2, <1>7, Zenon
  <1>10. stream' \in Seq(Seq(Byte))
    BY <1>2, <1>3, Zenon
  <1>11. InOrder(stream', processed')
    BY <1>8, <1>9, <1>10, SoundInOrder DEF InOrder
  <1>12. Fitting(stream') /\ Parsing(stream') => Waits(buffer')
    BY <1>2, <1>7, Zenon
  <1>13. /\ kind' \in Kind /\ stream' \in Streams /\ wire' \in Seq(Byte) /\ buffer' \in Seq(Byte)
    BY <1>1, <1>2, <1>5, Zenon DEF StreamInv
  <1> QED BY <1>8, <1>9, <1>11, <1>12, <1>13 DEF StreamInv

\* One whose loop is left after message number n, on a session that is closed
\* and reads no more.
LEMMA LeftStep ==
  ASSUME IoInv, StreamInv, Handling("read", TRUE), NEW refused \in {0, 1},
         NEW n \in 1..Len(DrainedAll(Fed).messages), LoopLeft(n, refused),
         Good(session'.ready) = {}, "read" \notin session'.pending, session'.closed,
         session'.write_queue <= MaxQueue
  PROVE  StreamInv'
  <1> DEFINE rest == SubSeq(wire, Arrived + 1, Len(wire))
             d == Drained(Fed, n)
             q == d.messages
             k == n - refused
  <1>1. Fed \in Seq(Byte) /\ rest \in Seq(Byte) /\ Sound(stream, processed, Fed \o rest)
    BY Feeding
  <1>2. /\ wire' = rest /\ buffer' = d.buffer /\ processed' = processed \o SubSeq(q, 1, k)
        /\ kind' = kind /\ stream' = stream
    BY DEF LoopLeft
  <1>3. stream \in Seq(Seq(Byte)) /\ processed \in Seq(Seq(Byte))
    BY SessionIoAssumption DEF StreamInv
  <1>4. n \in Nat /\ n <= Given(DrainedAll(Fed)) /\ k \in 0..n
    <2>1. DrainedAll(Fed) \in Loop
      BY <1>1, LoopEnds
    <2>2. Given(DrainedAll(Fed)) \in Nat
      BY <2>1, LoopSizes
    <2>3. n \in 1..Given(DrainedAll(Fed))
      BY DEF Given
    <2> QED BY <2>2, <2>3
  <1> HIDE DEF rest, d
  <1>5. d \in Loop /\ Given(d) = n
    BY <1>1, <1>4, LoopEnds DEF d
  <1>6. d.buffer \in Seq(Byte) /\ q \in Seq(Seq(Byte))
    BY <1>5 DEF Loop
  <1>7. Keeps(stream, processed, rest, d)
    BY <1>1, <1>3, <1>4, LoopKeeps DEF d
  <1>8. Sound(stream, processed \o q, d.buffer \o rest)
    BY <1>7 DEF Keeps
  <1>9. Len(q) = n
    BY <1>5 DEF Given
  <1> HIDE DEF q
  <1>10. processed \o q \in Seq(Seq(Byte))
    <2> DEFINE S == Seq(Byte)
    <2>1. processed \in Seq(S) /\ q \in Seq(S)
      BY <1>3, <1>6
    <2> HIDE DEF S
    <2>2. processed \o q \in Seq(S)
      BY <2>1
    <2> QED BY <2>2 DEF S
  <1>11. InOrder(stream, processed \o q)
    BY <1>3, <1>8, <1>10, SoundInOrder DEF InOrder
  <1>12. k \in 0..Len(q)
    BY <1>4, <1>9
  <1> HIDE DEF k
  <1>13. /\ processed \o SubSeq(q, 1, k) \in Seq(Seq(Byte))
         /\ InOrder(stream, processed \o SubSeq(q, 1, k))
    BY <1>3, <1>6, <1>11, <1>12, InOrderPrefix
  <1>14. processed' \in Seq(Seq(Byte)) /\ InOrder(stream', processed')
    BY <1>2, <1>13, Zenon
  <1>15. /\ kind' \in Kind /\ stream' \in Streams /\ wire' \in Seq(Byte) /\ buffer' \in Seq(Byte)
    BY <1>1, <1>2, <1>6, Zenon DEF StreamInv
  <1> QED BY <1>14, <1>15 DEF StreamInv, CanRead

\* Every step keeps the account of the stream.
LEMMA StreamKept == IoInv /\ StreamInv /\ [Next]_vars => StreamInv'
  <1> SUFFICES ASSUME IoInv, StreamInv, [Next]_vars PROVE StreamInv'
    OBVIOUS
  <1>1. /\ session \in Session /\ session.write_queue \in Nat
        /\ session.ready \in Seq(Completion) /\ session.pending \in SUBSET Operation
        /\ session.write_queue <= MaxQueue /\ MaxQueue \in Nat
    BY CountsType, SessionIoAssumption DEF IoInv, StreamInv
  <1>2. ASSUME session.ready # <<>>
        PROVE  /\ Popped \in Session /\ Quiet(session, Popped)
               /\ Popped.write_queue = session.write_queue
    <2>1. /\ Popped \in Session /\ Popped.closed = session.closed
          /\ Popped.write_queue = session.write_queue /\ Popped.pending = session.pending
      BY <1>2, PoppedSound
    <2>2. Popped.ready = Tail(session.ready)
      BY <1>1 DEF Popped, Session
    <2>3. Good(Popped.ready) \subseteq Good(session.ready)
      BY <1>1, <1>2, <2>2, GoodTail
    <2> QED BY <2>1, <2>3 DEF Quiet
  <1>3. ASSUME NEW op \in Operation, NEW ok \in BOOLEAN, NEW size \in 0..ReadSize,
               Completes(op, ok, size), op = "read" /\ ok => size <= Len(wire)
        PROVE  StreamInv'
    <2> DEFINE e == [op |-> op, ok |-> ok, size |-> size]
    <2>1. /\ op \in session.pending
          /\ session' = [session EXCEPT !.pending = @ \ {op}, !.ready = Append(@, e)]
          /\ UNCHANGED <<kind, stream, wire, buffer, processed>>
      BY <1>3 DEF Completes
    <2>2. /\ e \in Completion /\ (GoodRead(e) <=> op = "read" /\ ok) /\ Size(e) = size
      BY DEF Completion, GoodRead, Size
    <2> HIDE DEF e
    <2>3. /\ session'.closed = session.closed /\ session'.write_queue = session.write_queue
          /\ session'.pending = session.pending \ {op}
          /\ session'.ready = Append(session.ready, e)
      BY <1>1, <2>1 DEF Session
    <2>4. Good(session'.ready) = Good(session.ready) \cup IF GoodRead(e) THEN {e} ELSE {}
      BY <1>1, <2>2, <2>3, GoodAppend
    <2>5. CASE ~GoodRead(e)
      <3>1. Quiet(session, session')
        BY <2>3, <2>4, <2>5 DEF Quiet
      <3>2. session'.write_queue <= MaxQueue
        BY <1>1, <2>3
      <3> QED BY <2>1, <3>1, <3>2, QuietStep
    <2>6. CASE GoodRead(e)
      <3>1. op = "read" /\ size <= Len(wire)
        BY <1>3, <2>2, <2>6
      <3>2. CanRead
        BY <2>1, <3>1 DEF CanRead
      <3>3. Sound(stream, processed, buffer \o wire)
        BY <3>2 DEF StreamInv
      <3>4. /\ kind' = kind /\ stream' = stream /\ wire' = wire /\ buffer' = buffer
            /\ processed' = processed
        BY <2>1
      <3>5. Sound(stream', processed', buffer' \o wire')
        BY <3>3, <3>4, Zenon
      <3>6. \A c \in Good(session'.ready) : Size(c) <= Len(wire')
        BY <2>2, <2>4, <3>1, <3>4 DEF StreamInv
      <3>7. InOrder(stream', processed')
        BY <3>4, Zenon DEF StreamInv
      <3>8. ~session'.closed /\ Fitting(stream') /\ Parsing(stream') => Waits(buffer')
        BY <2>3, <3>4, Zenon DEF StreamInv
      <3>9. /\ kind' \in Kind /\ stream' \in Streams /\ wire' \in Seq(Byte)
            /\ buffer' \in Seq(Byte) /\ processed' \in Seq(Seq(Byte))
        BY <3>4, Zenon DEF StreamInv
      <3>10. session'.write_queue <= MaxQueue
        BY <1>1, <2>3
      <3> QED BY <3>5, <3>6, <3>7, <3>8, <3>9, <3>10 DEF StreamInv
    <2> QED BY <2>5, <2>6
  <1>4. CASE Send
    <2>1. /\ session' = send(session) /\ session.write_queue < MaxQueue
          /\ UNCHANGED <<kind, stream, wire, buffer, processed>>
      BY <1>4 DEF Send
    <2>2. Quiet(session, session') /\ session'.write_queue <= session.write_queue + 1
      BY <1>1, <2>1, SendingQuiet
    <2>3. session'.write_queue \in Nat
      BY <1>1, <1>4, IoKept, CountsType DEF IoInv, Next, Environment
    <2>4. session'.write_queue <= MaxQueue
      BY <1>1, <2>1, <2>2, <2>3
    <2> QED BY <2>1, <2>2, <2>4, QuietStep
  <1>5. CASE (\E op \in {"read", "write"} : OnSocketError(op)) \/ OnTimer
    <2>1. /\ session.ready # <<>> /\ session' = close(Popped)
          /\ UNCHANGED <<kind, stream, wire, buffer, processed>>
      BY <1>5 DEF OnSocketError, OnTimer, Handling
    <2>2. Quiet(Popped, session') /\ session'.write_queue = Popped.write_queue
      BY <1>2, <2>1, ClosingQuiet
    <2>3. Quiet(session, session') /\ session'.write_queue <= MaxQueue
      BY <1>1, <1>2, <2>1, <2>2, QuietTwice
    <2> QED BY <2>1, <2>3, QuietStep
  <1>6. CASE OnWrite
    <2> DEFINE t == [Popped EXCEPT !.write_queue = @ - 1]
    <2>1. /\ session.ready # <<>> /\ Head(session.ready).op = "write"
          /\ session' = doWrite(t)
          /\ UNCHANGED <<kind, stream, wire, buffer, processed>>
      BY <1>6 DEF OnWrite, Handling
    <2>2. /\ Popped \in Session /\ Popped.write_queue = session.write_queue
          /\ session.write_queue > 0
      BY <2>1, PoppedSound
    <2>3. /\ t \in Session /\ t.closed = Popped.closed /\ t.pending = Popped.pending
          /\ t.ready = Popped.ready /\ t.write_queue = session.write_queue - 1
      BY <1>1, <2>2 DEF Session
    <2> HIDE DEF t
    <2>4. Quiet(Popped, t)
      BY <2>3 DEF Quiet
    <2>5. Quiet(t, session') /\ session'.write_queue = t.write_queue
      BY <2>1, <2>3, WritingQuiet
    <2>6. Quiet(session, session')
      BY <1>2, <2>1, <2>4, <2>5, QuietTwice
    <2>7. session'.write_queue <= MaxQueue
      BY <1>1, <2>2, <2>3, <2>5
    <2> QED BY <2>1, <2>6, <2>7, QuietStep
  <1>7. CASE OnRead
    <2> DEFINE t == resetHeartbeatTimer(Popped)
    <2>1. Handling("read", TRUE) /\ LoopDone /\ session' = begin(t, "read")
      BY <1>7 DEF OnRead, NextRead, doRead
    <2>2. /\ Popped \in Session /\ Good(Popped.ready) = {}
          /\ Popped.write_queue = session.write_queue
      BY <2>1, Feeding
    <2>3. /\ t \in Session /\ t.write_queue = Popped.write_queue /\ t.ready = Popped.ready
      BY <2>2, Waiting, WaitingQuiet
    <2> HIDE DEF t
    <2>4. "read" \in Operation
      BY DEF Operation
    <2>5. session'.write_queue = t.write_queue /\ Good(session'.ready) = Good(t.ready)
      BY <2>1, <2>3, <2>4, BeginningQuiet
    <2>6. session'.write_queue <= MaxQueue /\ Good(session'.ready) = {}
      BY <1>1, <2>2, <2>3, <2>5
    <2> QED BY <2>1, <2>6, DoneStep
  <1>8. CASE OnServerRead
    <2>1. Handling("read", TRUE) /\ LoopDone /\ session' = begin(Popped, "read")
      BY <1>8 DEF OnServerRead, NextRead, doRead
    <2>2. /\ Popped \in Session /\ Good(Popped.ready) = {}
          /\ Popped.write_queue = session.write_queue
      BY <2>1, Feeding
    <2>3. "read" \in Operation
      BY DEF Operation
    <2>4. session'.write_queue = Popped.write_queue /\ Good(session'.ready) = Good(Popped.ready)
      BY <2>1, <2>2, <2>3, BeginningQuiet
    <2>5. session'.write_queue <= MaxQueue /\ Good(session'.ready) = {}
      BY <1>1, <2>2, <2>4
    <2> QED BY <2>1, <2>5, DoneStep
  <1>9. CASE OnLateRead
    <2>1. /\ Handling("read", TRUE) /\ session.closed /\ session' = Popped
          /\ DrainedAll(Fed).messages # <<>> /\ LoopLeft(1, 0)
      BY <1>9 DEF OnLateRead
    <2>2. /\ Popped \in Session /\ Good(Popped.ready) = {} /\ "read" \notin Popped.pending
          /\ Popped.closed = session.closed /\ Popped.write_queue = session.write_queue
          /\ Fed \in Seq(Byte)
      BY <2>1, Feeding
    <2>3. 1 \in 1..Len(DrainedAll(Fed).messages)
      <3> DEFINE d == DrainedAll(Fed)
                 q == d.messages
      <3>1. d \in Loop
        BY <2>2, LoopEnds
      <3>2. q \in Seq(Seq(Byte)) /\ q # <<>>
        BY <2>1, <3>1 DEF Loop
      <3> HIDE DEF q
      <3>3. 1 \in 1..Len(q)
        BY <3>2
      <3> QED BY <3>3 DEF q
    <2>4. 0 \in {0, 1}
      OBVIOUS
    <2>5. session'.write_queue <= MaxQueue
      BY <1>1, <2>1, <2>2
    <2> QED BY <2>1, <2>2, <2>3, <2>4, <2>5, LeftStep
  <1>10. CASE OnReadLimited
    <2> DEFINE t == send(Popped)
    <2>1. /\ Handling("read", TRUE) /\ session.write_queue < MaxQueue /\ session' = close(t)
          /\ \E n \in 1..Len(DrainedAll(Fed).messages) : LoopLeft(n, 1)
      BY <1>10 DEF OnReadLimited
    <2>2. /\ Popped \in Session /\ Good(Popped.ready) = {} /\ "read" \notin Popped.pending
          /\ Popped.write_queue = session.write_queue
      BY <2>1, Feeding
    <2>3. WritesSound(Popped)
      BY <2>1, PoppedSound DEF Handling
    <2>4. t \in Session
      BY <2>2, <2>3, Sending
    <2>5. Quiet(Popped, t) /\ t.write_queue <= Popped.write_queue + 1
      BY <2>2, SendingQuiet
    <2> HIDE DEF t
    <2>6. Quiet(t, session') /\ session'.write_queue = t.write_queue /\ session'.closed
      BY <2>1, <2>4, ClosingQuiet
    <2>7. Good(session'.ready) = {} /\ "read" \notin session'.pending
      BY <2>2, <2>5, <2>6 DEF Quiet
    <2>8. t.write_queue \in Nat
      BY <2>4, CountsType
    <2>9. session'.write_queue <= MaxQueue
      BY <1>1, <2>1, <2>2, <2>5, <2>6, <2>8
    <2>10. PICK n \in 1..Len(DrainedAll(Fed).messages) : LoopLeft(n, 1)
      BY <2>1
    <2>11. 1 \in {0, 1}
      OBVIOUS
    <2> QED BY <2>1, <2>6, <2>7, <2>9, <2>10, <2>11, LeftStep
  <1>11. CASE UNCHANGED vars
    <2>1. session' = session /\ UNCHANGED <<kind, stream, wire, buffer, processed>>
      BY <1>11 DEF vars
    <2>2. Quiet(session, session') /\ session'.write_queue <= MaxQueue
      BY <1>1, <2>1 DEF Quiet
    <2> QED BY <2>1, <2>2, QuietStep
  <1>12. ASSUME Environment PROVE StreamInv'
    <2>1. 0 \in 0..ReadSize /\ 1..ReadSize \subseteq 0..ReadSize
      BY SessionIoAssumption
    <2>2. {"read", "write", "timer"} \subseteq Operation
      BY DEF Operation
    <2>3. ASSUME NEW size \in 1..ReadSize, BytesArrive(size) PROVE StreamInv'
      BY <1>3, <2>1, <2>2, <2>3 DEF BytesArrive
    <2>4. ASSUME NEW op \in {"read", "write"}, SocketFails(op) PROVE StreamInv'
      BY <1>3, <2>1, <2>2, <2>4 DEF SocketFails
    <2>5. ASSUME Written \/ TimerExpires PROVE StreamInv'
      <3>1. "write" # "read" /\ "timer" # "read"
        OBVIOUS
      <3> QED BY <1>3, <2>1, <2>2, <2>5, <3>1 DEF Written, TimerExpires
    <2> QED BY <1>4, <1>12, <2>3, <2>4, <2>5 DEF Environment
  <1> QED
    BY <1>5, <1>6, <1>7, <1>8, <1>9, <1>10, <1>11, <1>12 DEF Next, Handler

\* If every message fits and parses, all of the stream can be read.
LEMMA AllReadable ==
  ASSUME NEW ms \in Seq(Seq(Byte)), Fitting(ms), Parsing(ms)
  PROVE  All(ms) = ms
  <1> DEFINE S == Seq(Byte)
             L == Len(ms)
             last == LastReadable(ms)
             Same(n) == /\ last[n] \in Seq(S) /\ Len(last[n]) = n
                        /\ \A i \in 1..n : last[n][i] = ms[L - n + i]
             T == {n \in Nat : n <= L => Same(n)}
  <1>1. L \in Nat /\ ms \in Seq(S)
    OBVIOUS
  <1>2. last[0] = <<>> /\ \A n \in 0..L : last[n] \in Seq(S)
    BY LastReadableStep
  <1>3. ASSUME NEW n \in 1..L
        PROVE  /\ last[n] = <<ms[L - n + 1]>> \o last[n - 1]
               /\ ms[L - n + 1] \in S
    <2>1. L - n + 1 \in 1..L
      BY <1>1
    <2>2. FromEnd(ms, n) = ms[L - n + 1]
      BY DEF FromEnd
    <2>3. ~TooLong(Len(FromEnd(ms, n))) /\ FromEnd(ms, n) \notin Unparsable
      BY <2>1, <2>2 DEF Fitting, Parsing
    <2>4. last[n] = <<FromEnd(ms, n)>> \o last[n - 1]
      BY <2>3, LastReadableStep
    <2> QED BY <1>1, <2>1, <2>2, <2>4
  <1> HIDE DEF S, last
  <1>4. 0 \in T
    BY <1>2
  <1>5. ASSUME NEW n \in Nat, n + 1 <= L, Same(n) PROVE Same(n + 1)
    <2> DEFINE x == ms[L - (n + 1) + 1]
               one == <<x>>
               more == last[n + 1]
    <2>1. n + 1 \in 1..L /\ n + 1 \in 0..L /\ (n + 1) - 1 = n
      BY <1>1, <1>5
    <2>2. more = one \o last[n] /\ x \in S
      BY <1>3, <2>1
    <2>3. last[n] \in Seq(S) /\ Len(last[n]) = n /\ \A i \in 1..n : last[n][i] = ms[L - n + i]
      BY <1>5
    <2> HIDE DEF x
    <2>4. one \in Seq(S) /\ Len(one) = 1 /\ one[1] = x
      BY <2>2
    <2> HIDE DEF one
    <2>5. one \in Seq(S) /\ last[n] \in Seq(S)
      BY <2>3, <2>4
    <2>6. /\ one \o last[n] \in Seq(S) /\ Len(one \o last[n]) = Len(one) + Len(last[n])
          /\ \A i \in 1..Len(one) : (one \o last[n])[i] = one[i]
          /\ \A i \in 1..Len(last[n]) : (one \o last[n])[Len(one) + i] = last[n][i]
      <3>1. /\ one \o last[n] \in Seq(S) /\ Len(one \o last[n]) = Len(one) + Len(last[n])
            /\ \A i \in 1..Len(one) : (one \o last[n])[i] = one[i]
        BY <2>5, ConcatAt
      <3>2. \A i \in 1..Len(last[n]) : (one \o last[n])[Len(one) + i] = last[n][i]
        BY <2>5, ConcatAt
      <3> QED BY <3>1, <3>2
    <2> HIDE DEF more
    <2>7. /\ more \in Seq(S) /\ Len(more) = n + 1 /\ more[1] = x
          /\ \A i \in 1..n : more[1 + i] = ms[L - n + i]
      <3>1. 1 \in 1..1 /\ 1 + n = n + 1
        OBVIOUS
      <3> QED BY <2>2, <2>3, <2>4, <2>6, <3>1
    <2>8. ASSUME NEW i \in 1..n + 1 PROVE more[i] = ms[L - (n + 1) + i]
      <3>1. CASE i = 1
        BY <2>7, <3>1 DEF x
      <3>2. CASE i # 1
        <4> DEFINE j == i - 1
        <4>1. j \in 1..n /\ 1 + j = i /\ L - n + j = L - (n + 1) + i
          BY <1>1, <3>2
        <4> HIDE DEF j
        <4> QED BY <2>7, <4>1
      <3> QED BY <3>1, <3>2
    <2> QED BY <2>7, <2>8 DEF more
  <1>6. \A n \in Nat : n \in T => n + 1 \in T
    <2>1. \A n \in Nat : n + 1 <= L => n <= L
      BY <1>1
    <2> HIDE DEF Same
    <2> QED BY <1>5, <2>1
  <1> HIDE DEF T
  <1>7. L \in T
    BY <1>1, <1>4, <1>6, Induction
  <1>8. Same(L)
    BY <1>1, <1>7 DEF T
  <1>9. \A i \in 1..L : L - L + i = i
    BY <1>1
  <1>10. /\ last[L] \in Seq(S) /\ Len(last[L]) = Len(ms)
         /\ \A i \in 1..Len(last[L]) : last[L][i] = ms[i]
    BY <1>8, <1>9
  <1>11. last[L] = ms
    BY <1>1, <1>10, SeqEqual
  <1> QED BY <1>11 DEF All, last

\* A codec that waits at a frame, with nothing more to come, is at the end.
LEMMA WaitsAtEnd ==
  ASSUME NEW ms \in Seq(Seq(Byte)), Fitting(ms), NEW n \in 0..Len(ms),
         Waits(LastBytes(ms)[n])
  PROVE  n = 0
  <1> SUFFICES ASSUME n # 0 PROVE FALSE
    OBVIOUS
  <1> DEFINE b == LastBytes(ms)[n]
             rest == LastBytes(ms)[n - 1]
             m == FromEnd(ms, n)
             e == encode(m)
  <1>1. n \in 1..Len(ms) /\ n - 1 \in 0..Len(ms)
    OBVIOUS
  <1>2. b = e \o rest /\ rest \in Seq(Byte) /\ b \in Seq(Byte)
    BY <1>1, LastBytesStep
  <1>3. m \in Seq(Byte) /\ ~TooLong(Len(m))
    <2>1. m \in Seq(Byte) /\ Len(ms) - n + 1 \in 1..Len(ms)
      BY <1>1, FromEndType
    <2> QED BY <2>1 DEF Fitting, FromEnd
  <1>4. Waits(b)
    OBVIOUS
  <1> HIDE DEF b, rest, m
  <1>5. e \in Seq(Byte) /\ Len(e) = 4 + Len(m) /\ \A i \in 1..4 : e[i] = Header(m)[i]
    BY <1>3, FrameBytes
  <1> HIDE DEF e
  <1>6. e \in Seq(Byte)
    BY <1>5
  <1>7. Len(b) = Len(e) + Len(rest) /\ \A i \in 1..Len(e) : b[i] = e[i]
    BY <1>2, <1>6, ConcatAt
  <1>8. Len(m) \in Nat /\ Len(rest) \in Nat
    BY <1>2, <1>3
  <1>9. \A i \in 1..4 : b[i] = Header(m)[i]
    <2>1. \A i \in 1..4 : i \in 1..Len(e)
      BY <1>5, <1>8
    <2> QED BY <1>5, <1>7, <2>1
  <1>10. FrameLength(b) = Len(m)
    BY <1>3, <1>9, LengthRead
  <1>11. Len(b) >= 4 + Len(m)
    BY <1>5, <1>7, <1>8
  <1> QED BY <1>4, <1>8, <1>10, <1>11 DEF Waits

\* It holds after start(): nothing has been read and everything is to come.
LEMMA StreamInit == Init => StreamInv
  <1> SUFFICES ASSUME Init PROVE StreamInv
    OBVIOUS
  <1> DEFINE s == [closed |-> FALSE, write_queue |-> 0, pending |-> {}, ready |-> <<>>]
             t == resetHeartbeatTimer(s)
  <1>1. /\ session = doRead(t) /\ kind \in Kind /\ stream \in Streams
        /\ wire = Bytes(stream) /\ buffer = <<>> /\ processed = <<>>
    BY DEF Init
  <1>2. s \in Session /\ s.write_queue = 0 /\ s.ready = <<>>
    BY DEF Session
  <1> HIDE DEF s
  <1>3. t \in Session /\ t.write_queue = 0 /\ t.ready = <<>>
    BY <1>2, Waiting, WaitingQuiet
  <1> HIDE DEF t
  <1>4. session.write_queue = 0 /\ Good(session.ready) = Good(<<>>)
    <2>1. "read" \in Operation
      BY DEF Operation
    <2> QED BY <1>1, <1>3, <2>1, BeginningQuiet DEF doRead
  <1>5. Good(<<>>) = {}
    BY DEF Good
  <1>6. stream \in Seq(Seq(Byte)) /\ Len(stream) \in Nat
    BY <1>1, SessionIoAssumption
  <1> DEFINE n == Len(stream)
  <1>7. n \in 0..Len(stream)
    BY <1>6
  <1>8. wire = LastBytes(stream)[n] /\ wire \in Seq(Byte)
    <2>1. LastBytes(stream)[n] \in Seq(Byte)
      BY <1>6, <1>7, LastBytesStep
    <2> QED BY <1>1, <2>1 DEF Bytes
  <1>9. buffer \o wire = wire
    <2>1. \A x \in Seq(Byte) : <<>> \o x = x
      OBVIOUS
    <2> QED BY <1>1, <1>8, <2>1, Zenon
  <1>10. processed \o LastReadable(stream)[n] = All(stream)
    <2> DEFINE S == Seq(Byte)
    <2>1. All(stream) \in Seq(S)
      BY <1>6, <1>7, LastReadableStep DEF All
    <2> HIDE DEF S
    <2>2. \A x \in Seq(S) : <<>> \o x = x
      OBVIOUS
    <2>3. LastReadable(stream)[n] = All(stream)
      BY DEF All
    <2> QED BY <1>1, <2>1, <2>2, <2>3, Zenon
  <1>11. Sound(stream, processed, buffer \o wire)
    <2>1. InStep(stream, processed, wire)
      BY <1>7, <1>8, <1>10 DEF InStep
    <2> QED BY <1>9, <2>1, Zenon DEF Sound
  <1>12. buffer \in Seq(Byte) /\ processed \in Seq(Seq(Byte)) /\ Len(buffer) = 0
    BY <1>1
  <1>13. InOrder(stream, processed)
    BY <1>6, <1>11, <1>12, SoundInOrder DEF InOrder
  <1>14. Waits(buffer)
    BY <1>12 DEF Waits
  <1>15. session.write_queue <= MaxQueue
    BY <1>4, SessionIoAssumption
  <1> QED
    BY <1>1, <1>4, <1>5, <1>8, <1>11, <1>12, <1>13, <1>14, <1>15 DEF StreamInv

\* The account of the stream holds in every reachable state.
LEMMA StreamAlways == Spec => [](IoInv /\ StreamInv)
  BY IoInit, IoKept, StreamInit, StreamKept, PTL DEF Spec

\* The type invariant: what the codec keeps are bytes, what the session is
\* given are messages, and the bound on the queue is never exceeded, whatever
\* the peer sends and however the reads cut it.
THEOREM TypeCorrect == Spec => []TypeOK
  <1>1. IoInv /\ StreamInv => TypeOK
    <2> SUFFICES ASSUME IoInv, StreamInv PROVE TypeOK
      OBVIOUS
    <2>1. /\ session.closed \in BOOLEAN /\ session.write_queue \in Nat
          /\ session.pending \in SUBSET Operation /\ session.ready \in Seq(Completion)
      BY CountsType DEF IoInv
    <2>2. session.write_queue \in 0..MaxQueue
      BY <2>1, SessionIoAssumption DEF StreamInv
    <2> QED BY <2>1, <2>2, Zenon DEF StreamInv, TypeOK
  <1> QED BY <1>1, StreamAlways, PTL

\* However the reads cut the stream, and whenever the session is closed or the
\* rate limiter refuses a message, the messages given to processMessage are
\* those of the stream, whole, in order, none twice, and none skipped but the
\* ones that do not parse; up to one that is too long for the codec.
THEOREM OrderKept == Spec => []FramesInOrder
  <1>1. IoInv /\ StreamInv => FramesInOrder
    <2> SUFFICES ASSUME StreamInv PROVE FramesInOrder
      OBVIOUS
    <2>1. InOrder(stream, processed)
      BY DEF StreamInv
    <2>2. Readable = All(stream) /\ (NoneTooLong <=> Fitting(stream))
      BY DEF Readable, All, NoneTooLong, Fitting
    <2> QED BY <2>1, <2>2 DEF InOrder, FramesInOrder
  <1> QED BY <1>1, StreamAlways, PTL

\* On an open session, and a stream in which every message fits and parses, the
\* loop of the read handlers leaves less than a frame in the codec, so that no
\* message waits for bytes that are not its own; and once every byte has been
\* read, every message has been processed.
THEOREM NothingLeft == Spec => []NothingWaits
  <1>1. IoInv /\ StreamInv => NothingWaits
    <2> SUFFICES ASSUME StreamInv, ~session.closed, NoneTooLong, AllParse
                 PROVE  /\ tryDecode(buffer) = [message |-> NoMessage, buffer |-> buffer]
                        /\ Len(buffer) < HeaderSize + MaxMessageSize
                        /\ wire = <<>> => processed = stream
      BY DEF NothingWaits
    <2>1. Fitting(stream) /\ Parsing(stream)
      BY DEF NoneTooLong, Fitting, AllParse, Parsing
    <2>2. Waits(buffer) /\ buffer \in Seq(Byte) /\ Len(buffer) \in Nat
      BY <2>1 DEF StreamInv
    <2>3. tryDecode(buffer) = [message |-> NoMessage, buffer |-> buffer]
      BY <2>2, DecodeCases
    <2>4. MaxMessageSize \in Nat
      BY CodecAssumption
    <2>5. Len(buffer) < HeaderSize + MaxMessageSize
      <3>1. CASE Len(buffer) < 4
        BY <2>2, <2>4, <3>1 DEF HeaderSize
      <3>2. CASE Len(buffer) >= 4 /\ ~TooLong(FrameLength(buffer))
                 /\ Len(buffer) < 4 + FrameLength(buffer)
        <4>1. FrameLength(buffer) \in Nat
          BY <2>2, <3>2, FrameLengthType
        <4> QED BY <2>2, <2>4, <3>2, <4>1 DEF HeaderSize, TooLong
      <3> QED BY <2>2, <3>1, <3>2 DEF Waits
    <2>6. ASSUME wire = <<>> PROVE processed = stream
      <3> DEFINE S == Seq(Byte)
      <3>1. stream \in Seq(S) /\ processed \in Seq(S)
        BY SessionIoAssumption DEF StreamInv
      <3>2. InStep(stream, processed, buffer \o wire)
        BY <2>1 DEF StreamInv, CanRead, Sound
      <3>3. buffer \o wire = buffer
        BY <2>2, <2>6
      <3>4. PICK n \in 0..Len(stream) :
                   buffer = LastBytes(stream)[n] /\ processed \o LastReadable(stream)[n] = All(stream)
        BY <3>2, <3>3 DEF InStep
      <3>5. n = 0
        BY <2>1, <2>2, <3>1, <3>4, WaitsAtEnd
      <3>6. LastReadable(stream)[0] = <<>>
        BY <3>1, LastReadableStep
      <3>7. All(stream) = stream
        BY <2>1, <3>1, AllReadable
      <3> HIDE DEF S
      <3>8. \A x \in Seq(S) : x \o <<>> = x
        OBVIOUS
      <3>9. processed \o <<>> = stream
        BY <3>4, <3>5, <3>6, <3>7, Zenon
      <3> QED BY <3>1, <3>8, <3>9, Zenon
    <2> QED BY <2>3, <2>5, <2>6
  <1> QED BY <1>1, StreamAlways, PTL

==============================================================================
