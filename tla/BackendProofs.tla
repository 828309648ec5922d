---------------------------- MODULE BackendProofs ----------------------------
(***************************************************************************)
(* Proofs about the link to the chat server (ChatServerChannel) and about  *)
(* the two servers together (Backend).                                     *)
(*                                                                         *)
(* First the link alone, whatever its callers do: the inductive invariant  *)
(* LinkInv counts the operations under way.  Then every step of Backend is *)
(* a step of the link or leaves it alone, so what is proved of the link    *)
(* holds in Backend, for any number of games, notices and crashes of the   *)
(* chat server.  Last, the agreement of the two servers.                   *)
(***************************************************************************)
EXTENDS Backend, DataLemmas

-----------------------------------------------------------------------------
(* The link: types.                                                        *)

\* There are finitely many kinds of operation.
LEMMA OperationFinite == IsFiniteSet(Operation)
  <1>1. IsFiniteSet({"resolve"})
    BY FS_Singleton
  <1>2. IsFiniteSet({"resolve"} \cup {"connect"})
    BY <1>1, FS_AddElement
  <1>3. IsFiniteSet(({"resolve"} \cup {"connect"}) \cup {"read"})
    BY <1>2, FS_AddElement
  <1>4. IsFiniteSet((({"resolve"} \cup {"connect"}) \cup {"read"}) \cup {"write"})
    BY <1>3, FS_AddElement
  <1>5. IsFiniteSet(((({"resolve"} \cup {"connect"}) \cup {"read"}) \cup {"write"})
                    \cup {"timer"})
    BY <1>4, FS_AddElement
  <1>6. Operation = ((({"resolve"} \cup {"connect"}) \cup {"read"}) \cup {"write"})
                    \cup {"timer"}
    BY DEF Operation
  <1> QED BY <1>5, <1>6

\* What close() adds to the queue of completions.
LEMMA AbortsType ==
  /\ Aborts \in Seq(Completion)
  /\ Aborts = FailedOf(pending, [op |-> "read", ok |-> FALSE])
              \o FailedOf(pending, [op |-> "write", ok |-> FALSE])
  <1>1. /\ [op |-> "read", ok |-> FALSE] \in Completion
        /\ [op |-> "write", ok |-> FALSE] \in Completion
    BY DEF Completion, Operation
  <1> QED BY <1>1 DEF Aborts, Failed, FailedOf

\* The parts of TypeOK that the arguments below use.
LinkType ==
    /\ write_queue \in Nat
    /\ pending \subseteq Operation
    /\ ready \in Seq(Completion)

\* Every step of the link keeps TypeOK.
LEMMA LinkTypeStep == TypeOK /\ [Next]_vars => TypeOK'
  <1> SUFFICES ASSUME TypeOK, [Next]_vars PROVE TypeOK'
    OBVIOUS
  <1> USE QueueAssumption
  <1>1. ASSUME NEW op \in Operation, NEW ok \in BOOLEAN, Complete(op, ok)
        PROVE  TypeOK'
    <2>1. [op |-> op, ok |-> ok] \in Completion
      BY DEF Completion
    <2> QED BY <1>1, <2>1 DEF Complete, TypeOK
  <1>2. CASE Send
    BY <1>2 DEF Send, WritesStarted, TypeOK, Operation
  <1>3. ASSUME NEW ok \in BOOLEAN, OnResolve(ok)
        PROVE  TypeOK'
    BY <1>3 DEF OnResolve, Completed, TimerStarted, TypeOK, Operation
  <1>4. ASSUME NEW ok \in BOOLEAN, OnConnect(ok)
        PROVE  TypeOK'
    <2>1. (connected \/ ok) \in BOOLEAN
      OBVIOUS
    <2> QED BY <1>4, <2>1 DEF OnConnect, Completed, TimerStarted, TypeOK, Operation
  <1>5. CASE OnTimer
    BY <1>5 DEF OnTimer, Completed, TypeOK, Operation
  <1>6. ASSUME NEW op \in {"read", "write"}, OnFailure(op)
        PROVE  TypeOK'
    <2>1. ready' \in Seq(Completion)
      BY <1>6, AbortsType DEF OnFailure, CloseAnd, Completed, TypeOK
    <2>2. write_queue' \in 0..MaxQueue
      BY <1>6 DEF OnFailure, CloseAnd, QueueAfterClose, TypeOK
    <2>3. pending' \subseteq Operation
      BY <1>6 DEF OnFailure, CloseAnd, TimerStarted, TypeOK, Operation
    <2>4. connected' = FALSE /\ stopped' = stopped /\ corrupt' = corrupt
      BY <1>6 DEF OnFailure, CloseAnd
    <2> QED BY <2>1, <2>2, <2>3, <2>4 DEF TypeOK
  <1>7. CASE OnWritten
    <2>1. corrupt' \in BOOLEAN
      BY <1>7, Zenon DEF OnWritten
    <2>2. write_queue' \in 0..MaxQueue
      BY <1>7 DEF OnWritten, TypeOK
    <2> QED BY <1>7, <2>1, <2>2 DEF OnWritten, Completed, TypeOK, Operation
  <1>8. CASE Stop
    <2>1. ready' \in Seq(Completion)
      BY <1>8, AbortsType DEF Stop, TypeOK
    <2>2. write_queue' \in 0..MaxQueue
      BY <1>8 DEF Stop, QueueAfterClose, TypeOK
    <2>3. pending' \subseteq Operation
      BY <1>8 DEF Stop, TypeOK
    <2>4. connected' = FALSE /\ stopped' = TRUE /\ corrupt' = corrupt
      BY <1>8 DEF Stop
    <2> QED BY <2>1, <2>2, <2>3, <2>4 DEF TypeOK
  <1>9. CASE UNCHANGED vars
    BY <1>9 DEF vars, TypeOK
  <1> QED
    BY <1>1, <1>2, <1>3, <1>4, <1>5, <1>6, <1>7, <1>8, <1>9 DEF Next, Handler

-----------------------------------------------------------------------------
(* The link: counting operations.                                          *)

Attempts == {"resolve", "connect", "timer"}

\* The state of a link with n notices in its queue, P pending and q completed.
\* While it is up, it reads once, writes if there is something to write, and
\* attempts nothing; while it is down, its queue is empty, nothing is pending
\* on the socket, and completions of the old socket can be left only as long
\* as the next attempt is still a pending timer.
Sound(up, n, P, q) ==
    /\ Count(P, q, Attempts) <= 1
    /\ up => /\ Count(P, q, Attempts) = 0
             /\ Count(P, q, {"read"}) = 1
             /\ Count(P, q, {"write"}) = IF n > 0 THEN 1 ELSE 0
    /\ ~up => n = 0 /\ "read" \notin P /\ "write" \notin P
    /\ ~up /\ Count(P, q, Attempts) > 0 /\ "timer" \notin P =>
          Count(P, q, {"read"}) = 0 /\ Count(P, q, {"write"}) = 0

LinkInv == Sound(connected, write_queue, pending, ready)

\* Underway is the count of DataLemmas.
LEMMA UnderwayCounts ==
  ASSUME NEW ops
  PROVE  Underway(ops) = Count(pending, ready, ops)
  BY DEF Underway, Count, At

\* The counts of a set of operations and a queue are numbers.
LEMMA CountsType ==
  ASSUME NEW P \in SUBSET Operation, NEW q \in Seq(Completion)
  PROVE  /\ IsFiniteSet(P)
         /\ Count(P, q, Attempts) \in Nat
         /\ Count(P, q, {"read"}) \in Nat
         /\ Count(P, q, {"write"}) \in Nat
  <1>1. IsFiniteSet(P)
    BY OperationFinite, FS_Subset
  <1> QED BY <1>1, CountType

\* The counts once the completion at the head has been taken.
LEMMA Popping ==
  ASSUME NEW P \in SUBSET Operation, NEW q \in Seq(Completion), q # <<>>
  PROVE  /\ Tail(q) \in Seq(Completion)
         /\ Head(q).op \in Attempts =>
               /\ Count(P, Tail(q), Attempts) = Count(P, q, Attempts) - 1
               /\ Count(P, Tail(q), {"read"}) = Count(P, q, {"read"})
               /\ Count(P, Tail(q), {"write"}) = Count(P, q, {"write"})
         /\ Head(q).op = "read" =>
               /\ Count(P, Tail(q), Attempts) = Count(P, q, Attempts)
               /\ Count(P, Tail(q), {"read"}) = Count(P, q, {"read"}) - 1
               /\ Count(P, Tail(q), {"write"}) = Count(P, q, {"write"})
         /\ Head(q).op = "write" =>
               /\ Count(P, Tail(q), Attempts) = Count(P, q, Attempts)
               /\ Count(P, Tail(q), {"read"}) = Count(P, q, {"read"})
               /\ Count(P, Tail(q), {"write"}) = Count(P, q, {"write"}) - 1
  <1>0. /\ IsFiniteSet(P)
        /\ Count(P, q, Attempts) \in Nat
        /\ Count(P, q, {"read"}) \in Nat
        /\ Count(P, q, {"write"}) \in Nat
    BY CountsType
  <1>1. /\ Count(P, Tail(q), Attempts) =
              Count(P, q, Attempts) - IF Head(q).op \in Attempts THEN 1 ELSE 0
        /\ Count(P, Tail(q), {"read"}) =
              Count(P, q, {"read"}) - IF Head(q).op \in {"read"} THEN 1 ELSE 0
        /\ Count(P, Tail(q), {"write"}) =
              Count(P, q, {"write"}) - IF Head(q).op \in {"write"} THEN 1 ELSE 0
    BY <1>0, CountTail
  <1>2. Tail(q) \in Seq(Completion)
    OBVIOUS
  <1>3. "read" \notin Attempts /\ "write" \notin Attempts
    BY DEF Attempts
  <1>4. CASE Head(q).op \in Attempts
    <2>1. Head(q).op # "read" /\ Head(q).op # "write"
      BY <1>3, <1>4
    <2> QED BY <1>0, <1>1, <1>2, <1>4, <2>1
  <1>5. CASE Head(q).op = "read"
    BY <1>0, <1>1, <1>2, <1>3, <1>5
  <1>6. CASE Head(q).op = "write"
    BY <1>0, <1>1, <1>2, <1>3, <1>6
  <1> QED BY <1>2, <1>4, <1>5, <1>6

\* The counts once an operation has been started.
LEMMA Starting ==
  ASSUME NEW P \in SUBSET Operation, NEW q \in Seq(Completion), NEW o \in Operation,
         o \notin P
  PROVE  /\ o \in Attempts =>
               /\ Count(P \cup {o}, q, Attempts) = Count(P, q, Attempts) + 1
               /\ Count(P \cup {o}, q, {"read"}) = Count(P, q, {"read"})
               /\ Count(P \cup {o}, q, {"write"}) = Count(P, q, {"write"})
         /\ o = "read" =>
               /\ Count(P \cup {o}, q, Attempts) = Count(P, q, Attempts)
               /\ Count(P \cup {o}, q, {"read"}) = Count(P, q, {"read"}) + 1
               /\ Count(P \cup {o}, q, {"write"}) = Count(P, q, {"write"})
         /\ o = "write" =>
               /\ Count(P \cup {o}, q, Attempts) = Count(P, q, Attempts)
               /\ Count(P \cup {o}, q, {"read"}) = Count(P, q, {"read"})
               /\ Count(P \cup {o}, q, {"write"}) = Count(P, q, {"write"}) + 1
  <1>0. /\ IsFiniteSet(P)
        /\ Count(P, q, Attempts) \in Nat
        /\ Count(P, q, {"read"}) \in Nat
        /\ Count(P, q, {"write"}) \in Nat
    BY CountsType
  <1>1. /\ Count(P \cup {o}, q, Attempts) =
              Count(P, q, Attempts) + IF o \in Attempts THEN 1 ELSE 0
        /\ Count(P \cup {o}, q, {"read"}) =
              Count(P, q, {"read"}) + IF o \in {"read"} THEN 1 ELSE 0
        /\ Count(P \cup {o}, q, {"write"}) =
              Count(P, q, {"write"}) + IF o \in {"write"} THEN 1 ELSE 0
    <2>1. \A ops : Count(P \cup {o}, q, ops) =
                      Count(P, q, ops) + IF o \in ops THEN 1 ELSE 0
      BY <1>0, CountStart
    <2> QED BY <2>1
  <1>2. "read" \notin Attempts /\ "write" \notin Attempts
    BY DEF Attempts
  <1>3. CASE o \in Attempts
    <2>1. o # "read" /\ o # "write"
      BY <1>2, <1>3
    <2> QED BY <1>0, <1>1, <1>3, <2>1
  <1>4. CASE o = "read"
    BY <1>0, <1>1, <1>2, <1>4
  <1>5. CASE o = "write"
    BY <1>0, <1>1, <1>2, <1>5
  <1> QED BY <1>3, <1>4, <1>5

\* The counts once an operation has completed: they are the same.
LEMMA Completing ==
  ASSUME NEW P \in SUBSET Operation, NEW q \in Seq(Completion),
         NEW e \in Completion, e.op \in P
  PROVE  /\ Count(P \ {e.op}, Append(q, e), Attempts) = Count(P, q, Attempts)
         /\ Count(P \ {e.op}, Append(q, e), {"read"}) = Count(P, q, {"read"})
         /\ Count(P \ {e.op}, Append(q, e), {"write"}) = Count(P, q, {"write"})
  BY CountsType, CountComplete

\* Closing the socket changes no count.
LEMMA Closing ==
  ASSUME NEW q \in Seq(Completion), pending \in SUBSET Operation
  PROVE  /\ q \o Aborts \in Seq(Completion)
         /\ pending \ {"read", "write"} \in SUBSET Operation
         /\ \A ops : Count(pending \ {"read", "write"}, q \o Aborts, ops)
                        = Count(pending, q, ops)
  <1> DEFINE re == [op |-> "read", ok |-> FALSE]
             we == [op |-> "write", ok |-> FALSE]
             P1 == pending \ {re.op}
             q1 == q \o FailedOf(pending, re)
  <1>1. re \in Completion /\ we \in Completion /\ re.op = "read" /\ we.op = "write"
    BY DEF Completion, Operation
  <1>2. IsFiniteSet(pending)
    BY CountsType
  <1> HIDE DEF re, we
  <1>3. IsFiniteSet(P1) /\ q1 \in Seq(Completion)
        /\ \A ops : Count(P1, q1, ops) = Count(pending, q, ops)
    <2>1. ASSUME NEW ops
          PROVE  /\ IsFiniteSet(P1) /\ q1 \in Seq(Completion)
                 /\ Count(P1, q1, ops) = Count(pending, q, ops)
      BY <1>1, <1>2, CountFail
    <2> QED BY <2>1
  <1> HIDE DEF P1, q1
  <1>4. q1 \o FailedOf(P1, we) \in Seq(Completion)
        /\ \A ops : Count(P1 \ {we.op}, q1 \o FailedOf(P1, we), ops)
                       = Count(P1, q1, ops)
    <2>1. ASSUME NEW ops
          PROVE  /\ q1 \o FailedOf(P1, we) \in Seq(Completion)
                 /\ Count(P1 \ {we.op}, q1 \o FailedOf(P1, we), ops)
                       = Count(P1, q1, ops)
      BY <1>1, <1>3, CountFail
    <2> QED BY <2>1
  <1>5. P1 \ {we.op} = pending \ {"read", "write"}
    BY <1>1 DEF P1
  <1>6. FailedOf(P1, we) = FailedOf(pending, we)
    BY <1>1 DEF FailedOf, P1
  <1>7. q \o Aborts = q1 \o FailedOf(P1, we)
    <2>1. Aborts = FailedOf(pending, re) \o FailedOf(pending, we)
      BY AbortsType DEF re, we
    <2>2. /\ FailedOf(pending, re) \in Seq(Completion)
          /\ FailedOf(pending, we) \in Seq(Completion)
      BY <1>1 DEF FailedOf
    <2>3. q \o (FailedOf(pending, re) \o FailedOf(pending, we))
             = (q \o FailedOf(pending, re)) \o FailedOf(pending, we)
      BY <2>2, ConcatAssociative
    <2> QED BY <1>6, <2>1, <2>3 DEF q1
  <1> QED BY <1>3, <1>4, <1>5, <1>7

\* Every step of the link keeps the invariant.
LEMMA LinkKept ==
  ASSUME TypeOK, LinkInv, [Next]_vars
  PROVE  LinkInv'
  <1> DEFINE A == Count(pending, ready, Attempts)
             R == Count(pending, ready, {"read"})
             W == Count(pending, ready, {"write"})
  <1>1. /\ connected \in BOOLEAN /\ write_queue \in Nat
        /\ pending \in SUBSET Operation /\ ready \in Seq(Completion)
        /\ IsFiniteSet(pending)
    BY CountsType, QueueAssumption DEF TypeOK
  <1>2. A \in Nat /\ R \in Nat /\ W \in Nat
    BY <1>1, CountsType
  <1>3. Sound(connected, write_queue, pending, ready)
    BY DEF LinkInv
  <1>4. A \in {0, 1}
    BY <1>2, <1>3 DEF Sound
  <1> SUFFICES Sound(connected', write_queue', pending', ready')
    BY DEF LinkInv
  <1>5. ASSUME NEW op \in Operation, NEW ok \in BOOLEAN, Complete(op, ok)
        PROVE  Sound(connected', write_queue', pending', ready')
    <2> DEFINE e == [op |-> op, ok |-> ok]
    <2>1. /\ connected' = connected /\ write_queue' = write_queue
          /\ pending' = pending \ {op} /\ ready' = Append(ready, e) /\ op \in pending
          /\ op = "timer" => ready = <<>>
      BY <1>5 DEF Complete
    <2>2. e \in Completion /\ e.op = op
      BY DEF Completion
    <2> HIDE DEF e
    <2>3. /\ Count(pending', ready', Attempts) = A
          /\ Count(pending', ready', {"read"}) = R
          /\ Count(pending', ready', {"write"}) = W
      BY <1>1, <2>1, <2>2, Completing
    <2>4. CASE connected
      BY <1>3, <2>1, <2>3, <2>4 DEF Sound
    <2>5. CASE ~connected
      <3>1. "read" \notin pending /\ "write" \notin pending /\ write_queue = 0
        BY <1>3, <2>5 DEF Sound
      <3>2. op \in Attempts
        BY <2>1, <3>1 DEF Operation, Attempts
      <3>3. A <= 1
        BY <1>4
      <3>4. pending \cap Attempts = {op} /\ A = 1
        BY <1>1, <2>1, <3>2, <3>3, CountPending
      <3>5. CASE op = "timer"
        <4>1. \A i \in 1..Len(ready) : ready[i].op \notin {"read"}
          BY <2>1, <3>5
        <4>2. \A i \in 1..Len(ready) : ready[i].op \notin {"write"}
          BY <2>1, <3>5
        <4>3. pending \cap {"read"} = {} /\ pending \cap {"write"} = {}
          BY <3>1
        <4>4. R = 0 /\ W = 0
          BY <1>1, <4>1, <4>2, <4>3, CountZero
        <4> QED BY <1>4, <2>1, <2>3, <2>5, <3>1, <4>4 DEF Sound
      <3>6. CASE op # "timer"
        <4>1. "timer" \notin pending
          BY <3>4, <3>6 DEF Attempts
        <4>2. R = 0 /\ W = 0
          BY <1>3, <2>5, <3>4, <4>1 DEF Sound
        <4> QED BY <1>4, <2>1, <2>3, <2>5, <3>1, <4>2 DEF Sound
      <3> QED BY <3>5, <3>6
    <2> QED BY <1>1, <2>4, <2>5
  <1>6. CASE Send
    <2>1. /\ connected /\ connected' = connected /\ write_queue' = write_queue + 1
          /\ pending' = pending \cup WritesStarted /\ ready' = ready
      BY <1>6 DEF Send
    <2>2. A = 0 /\ R = 1 /\ W = IF write_queue > 0 THEN 1 ELSE 0
      BY <1>3, <2>1 DEF Sound
    <2>3. CASE write_queue = 0
      <3>1. "write" \notin pending
        BY <1>1, <2>2, <2>3, CountZero
      <3>2. pending' = pending \cup {"write"} /\ "write" \in Operation
        BY <2>1, <2>3 DEF WritesStarted, Operation
      <3>3. /\ Count(pending', ready', Attempts) = A
            /\ Count(pending', ready', {"read"}) = R
            /\ Count(pending', ready', {"write"}) = W + 1
        BY <1>1, <2>1, <3>1, <3>2, Starting
      <3> QED BY <2>1, <2>2, <2>3, <3>3 DEF Sound
    <2>4. CASE write_queue # 0
      <3>1. pending' = pending
        BY <2>1, <2>4 DEF WritesStarted
      <3>2. /\ Count(pending', ready', Attempts) = 0
            /\ Count(pending', ready', {"read"}) = 1
            /\ Count(pending', ready', {"write"}) = 1
        <4>1. W = 1
          BY <1>1, <2>2, <2>4
        <4>2. pending' = pending /\ ready' = ready
          BY <2>1, <3>1
        <4> QED BY <2>2, <4>1, <4>2, Zenon
      <3> QED BY <1>1, <2>1, <3>2 DEF Sound
    <2> QED BY <2>3, <2>4
  <1>7. ASSUME ready # <<>>, Head(ready).op \in Attempts
        PROVE  /\ ~connected /\ write_queue = 0 /\ pending \cap Attempts = {}
               /\ "read" \notin pending
               /\ Sound(FALSE, 0, pending, Tail(ready))
               /\ \A o \in Attempts : Sound(FALSE, 0, pending \cup {o}, Tail(ready))
               /\ Sound(TRUE, 0, pending \cup {"read"}, Tail(ready))
    <2>1. A = 1 /\ pending \cap Attempts = {}
      <3>1. A <= 1
        BY <1>4
      <3> QED BY <1>1, <1>7, <3>1, CountHead
    <2>2. ~connected /\ write_queue = 0 /\ "read" \notin pending /\ "write" \notin pending
      BY <1>3, <2>1 DEF Sound
    <2>3. "timer" \notin pending
      BY <2>1 DEF Attempts
    <2>4. R = 0 /\ W = 0
      BY <1>3, <2>1, <2>2, <2>3 DEF Sound
    <2>5. /\ Tail(ready) \in Seq(Completion)
          /\ Count(pending, Tail(ready), Attempts) = 0
          /\ Count(pending, Tail(ready), {"read"}) = 0
          /\ Count(pending, Tail(ready), {"write"}) = 0
      BY <1>1, <1>7, <2>1, <2>4, Popping
    <2>6. Sound(FALSE, 0, pending, Tail(ready))
      BY <2>2, <2>5 DEF Sound
    <2>7. ASSUME NEW o \in Attempts
          PROVE  Sound(FALSE, 0, pending \cup {o}, Tail(ready))
      <3>1. o \notin pending /\ o \in Operation /\ o # "read" /\ o # "write"
        BY <2>1 DEF Attempts, Operation
      <3>2. /\ Count(pending \cup {o}, Tail(ready), Attempts) = 0 + 1
            /\ Count(pending \cup {o}, Tail(ready), {"read"}) = 0
            /\ Count(pending \cup {o}, Tail(ready), {"write"}) = 0
        <4>1. /\ Count(pending \cup {o}, Tail(ready), Attempts)
                    = Count(pending, Tail(ready), Attempts) + 1
              /\ Count(pending \cup {o}, Tail(ready), {"read"})
                    = Count(pending, Tail(ready), {"read"})
              /\ Count(pending \cup {o}, Tail(ready), {"write"})
                    = Count(pending, Tail(ready), {"write"})
          BY <1>1, <2>5, <3>1, Starting
        <4> QED BY <2>5, <4>1
      <3> QED BY <2>2, <3>1, <3>2 DEF Sound
    <2>8. Sound(TRUE, 0, pending \cup {"read"}, Tail(ready))
      <3>1. /\ Count(pending \cup {"read"}, Tail(ready), Attempts) = 0
            /\ Count(pending \cup {"read"}, Tail(ready), {"read"}) = 0 + 1
            /\ Count(pending \cup {"read"}, Tail(ready), {"write"}) = 0
        <4>1. "read" \in Operation
          BY DEF Operation
        <4>2. /\ Count(pending \cup {"read"}, Tail(ready), Attempts)
                    = Count(pending, Tail(ready), Attempts)
              /\ Count(pending \cup {"read"}, Tail(ready), {"read"})
                    = Count(pending, Tail(ready), {"read"}) + 1
              /\ Count(pending \cup {"read"}, Tail(ready), {"write"})
                    = Count(pending, Tail(ready), {"write"})
          BY <1>1, <2>2, <2>5, <4>1, Starting
        <4> QED BY <2>5, <4>2
      <3> QED BY <3>1 DEF Sound
    <2> QED BY <2>1, <2>2, <2>6, <2>7, <2>8
  <1>8. ASSUME NEW ok \in BOOLEAN, OnResolve(ok) \/ OnConnect(ok) \/ OnTimer
        PROVE  Sound(connected', write_queue', pending', ready')
    <2>1. ready # <<>> /\ Head(ready).op \in Attempts /\ ready' = Tail(ready)
      BY <1>8 DEF OnResolve, OnConnect, OnTimer, Completed, Attempts
    <2>2. ~connected /\ write_queue' = 0
      BY <1>7, <1>8, <2>1 DEF OnResolve, OnConnect, OnTimer
    <2>3. \/ connected' = FALSE /\ pending' = pending
          \/ connected' = FALSE /\ \E o \in Attempts : pending' = pending \cup {o}
          \/ connected' = TRUE /\ pending' = pending \cup {"read"}
      <3>1. {"resolve", "connect", "timer"} \subseteq Attempts
        BY DEF Attempts
      <3>2. CASE OnResolve(ok) \/ OnTimer
        BY <1>1, <2>2, <3>1, <3>2 DEF OnResolve, OnTimer, TimerStarted
      <3>3. CASE OnConnect(ok) /\ ok
        <4>1. connected' = TRUE
          BY <3>3 DEF OnConnect
        <4>2. pending' = pending \cup {"read"}
          BY <3>3 DEF OnConnect
        <4> QED BY <4>1, <4>2
      <3>4. CASE OnConnect(ok) /\ ~ok
        <4>1. connected' = FALSE
          BY <2>2, <3>4 DEF OnConnect
        <4>2. pending' = pending \cup TimerStarted
          BY <3>4 DEF OnConnect
        <4> QED BY <3>1, <4>1, <4>2 DEF TimerStarted
      <3> QED BY <1>8, <3>2, <3>3, <3>4
    <2> QED BY <1>7, <2>1, <2>2, <2>3
  <1>9. ASSUME NEW op \in {"read", "write"}, OnFailure(op)
        PROVE  Sound(connected', write_queue', pending', ready')
    <2>1. /\ ready # <<>> /\ Head(ready).op = op
          /\ CloseAnd(TimerStarted, Tail(ready))
      BY <1>9 DEF OnFailure, Completed
    <2>2. /\ Tail(ready) \in Seq(Completion)
          /\ Count(pending, Tail(ready), Attempts) = A
      BY <1>1, <2>1, Popping
    <2>3. Count(pending, Tail(ready), {op}) \in Nat
      BY <1>1, <2>2, CountsType
    <2>4. R > 0 \/ W > 0
      <3>1. CASE op = "read"
        <4>1. Count(pending, Tail(ready), {"read"}) = R - 1
          BY <1>1, <2>1, <3>1, Popping
        <4> QED BY <1>2, <2>3, <3>1, <4>1
      <3>2. CASE op = "write"
        <4>1. Count(pending, Tail(ready), {"write"}) = W - 1
          BY <1>1, <2>1, <3>2, Popping
        <4> QED BY <1>2, <2>3, <3>2, <4>1
      <3> QED BY <3>1, <3>2
    <2>5. CASE connected
      <3> DEFINE P == pending \ {"read", "write"}
      <3>1. A = 0
        BY <1>3, <2>5 DEF Sound
      <3>2. /\ connected' = FALSE /\ write_queue' = 0 /\ ready' = Tail(ready) \o Aborts
            /\ pending' = P \cup TimerStarted
        BY <2>1, <2>5 DEF CloseAnd, QueueAfterClose
      <3>3. ready' \in Seq(Completion) /\ P \in SUBSET Operation
            /\ Count(P, ready', Attempts) = 0
        BY <1>1, <2>2, <3>1, <3>2, Closing
      <3>4. "timer" \notin P
        BY <1>1, <3>1, CountZero DEF Attempts
      <3>5. "timer" \in Attempts /\ "timer" \in Operation
        BY DEF Attempts, Operation
      <3>6. "read" \notin pending' /\ "write" \notin pending'
        BY <3>2 DEF TimerStarted
      <3> HIDE DEF P
      <3>7. CASE stopped
        <4>1. pending' = P
          BY <3>2, <3>7 DEF TimerStarted
        <4>2. Count(pending', ready', Attempts) = 0
          BY <3>3, <4>1
        <4> QED BY <3>2, <3>6, <4>2 DEF Sound
      <3>8. CASE ~stopped
        <4>1. pending' = P \cup {"timer"}
          BY <3>2, <3>8 DEF TimerStarted
        <4>2. Count(pending', ready', Attempts) = 1
          BY <3>3, <3>4, <3>5, <4>1, Starting
        <4> QED BY <3>2, <3>6, <4>1, <4>2 DEF Sound
      <3> QED BY <3>7, <3>8
    <2>6. CASE ~connected
      <3>1. /\ connected' = FALSE /\ write_queue' = write_queue
            /\ ready' = Tail(ready) \o <<>> /\ pending' = pending \cup TimerStarted
        BY <2>1, <2>6 DEF CloseAnd, QueueAfterClose
      <3>2. ready' = Tail(ready)
        BY <2>2, <3>1
      <3>3. write_queue = 0 /\ "read" \notin pending /\ "write" \notin pending
        BY <1>3, <2>6 DEF Sound
      <3>4. "read" \notin pending' /\ "write" \notin pending'
        BY <3>1, <3>3 DEF TimerStarted
      <3>5. A = 0 \/ "timer" \in pending
        BY <1>2, <1>3, <2>4, <2>6 DEF Sound
      <3>6. CASE pending' = pending
        <4>1. Count(pending', ready', Attempts) = A
          BY <2>2, <3>2, <3>6
        <4> QED BY <1>4, <3>1, <3>3, <3>5, <3>6, <4>1 DEF Sound
      <3>7. CASE "timer" \notin pending /\ pending' = pending \cup {"timer"}
        <4>1. "timer" \in Attempts /\ "timer" \in Operation
          BY DEF Attempts, Operation
        <4>2. Count(pending', ready', Attempts) = A + 1
          <5>1. Count(pending \cup {"timer"}, Tail(ready), Attempts)
                   = Count(pending, Tail(ready), Attempts) + 1
            BY <1>1, <2>2, <3>7, <4>1, Starting
          <5> QED BY <2>2, <3>2, <3>7, <5>1
        <4>3. Count(pending', ready', Attempts) = 1
          BY <3>5, <3>7, <4>2
        <4> QED BY <3>1, <3>3, <3>4, <3>7, <4>3 DEF Sound
      <3>8. pending' = pending \/ ("timer" \notin pending /\ pending' = pending \cup {"timer"})
        BY <3>1 DEF TimerStarted
      <3> QED BY <3>6, <3>7, <3>8
    <2> QED BY <1>1, <2>5, <2>6
  <1>10. CASE OnWritten
    <2>1. /\ ready # <<>> /\ Head(ready).op = "write" /\ ready' = Tail(ready)
          /\ connected' = connected
          /\ write_queue' = IF write_queue = 0 THEN 0 ELSE write_queue - 1
          /\ pending' = pending \cup (IF write_queue > 1 /\ connected THEN {"write"}
                                                                      ELSE {})
      BY <1>10 DEF OnWritten, Completed
    <2>2. /\ Tail(ready) \in Seq(Completion)
          /\ Count(pending, Tail(ready), Attempts) = A
          /\ Count(pending, Tail(ready), {"read"}) = R
          /\ Count(pending, Tail(ready), {"write"}) = W - 1
      BY <1>1, <2>1, Popping
    <2>3. W > 0
      <3>1. Count(pending, Tail(ready), {"write"}) \in Nat
        BY <1>1, <2>2, CountsType
      <3> QED BY <1>2, <2>2, <3>1
    <2>4. CASE connected
      <3>1. A = 0 /\ R = 1 /\ write_queue > 0 /\ W = 1
        BY <1>1, <1>3, <2>3, <2>4 DEF Sound
      <3>2. "write" \notin pending
        <4>1. pending \cap {"write"} = {}
          <5>1. W <= 1 /\ Head(ready).op \in {"write"}
            BY <2>1, <3>1
          <5> QED BY <1>1, <2>1, <5>1, CountHead
        <4> QED BY <4>1
      <3>3. CASE write_queue > 1
        <4>1. pending' = pending \cup {"write"} /\ write_queue' = write_queue - 1
          BY <1>1, <2>1, <2>4, <3>3
        <4>2. /\ Count(pending', ready', Attempts) = 0
              /\ Count(pending', ready', {"read"}) = 1
              /\ Count(pending', ready', {"write"}) = 1
          <5>1. "write" \in Operation
            BY DEF Operation
          <5>2. /\ Count(pending', ready', Attempts) = A
                /\ Count(pending', ready', {"read"}) = R
                /\ Count(pending', ready', {"write"}) = (W - 1) + 1
            <6>1. /\ Count(pending \cup {"write"}, Tail(ready), Attempts)
                        = Count(pending, Tail(ready), Attempts)
                  /\ Count(pending \cup {"write"}, Tail(ready), {"read"})
                        = Count(pending, Tail(ready), {"read"})
                  /\ Count(pending \cup {"write"}, Tail(ready), {"write"})
                        = Count(pending, Tail(ready), {"write"}) + 1
              BY <1>1, <2>2, <3>2, <5>1, Starting
            <6> QED BY <2>1, <2>2, <4>1, <6>1
          <5> QED BY <3>1, <5>2
        <4> QED BY <1>1, <2>1, <2>4, <3>3, <4>1, <4>2 DEF Sound
      <3>4. CASE ~(write_queue > 1)
        <4>1. pending' = pending /\ write_queue' = 0
          BY <1>1, <2>1, <3>1, <3>4
        <4>2. /\ Count(pending', ready', Attempts) = 0
              /\ Count(pending', ready', {"read"}) = 1
              /\ Count(pending', ready', {"write"}) = 0
          <5>1. pending' = pending /\ ready' = Tail(ready) /\ W - 1 = 0
            BY <2>1, <3>1, <4>1
          <5> QED BY <2>2, <3>1, <5>1, Zenon
        <4> QED BY <2>1, <2>4, <4>1, <4>2 DEF Sound
      <3> QED BY <3>3, <3>4
    <2>5. CASE ~connected
      <3>1. write_queue = 0 /\ "read" \notin pending /\ "write" \notin pending
        BY <1>3, <2>5 DEF Sound
      <3>2. pending' = pending /\ write_queue' = 0 /\ connected' = FALSE
        BY <1>1, <2>1, <2>5, <3>1
      <3>3. A = 0 \/ "timer" \in pending
        BY <1>2, <1>3, <2>3, <2>5 DEF Sound
      <3> QED BY <1>4, <2>1, <2>2, <3>1, <3>2, <3>3 DEF Sound
    <2> QED BY <1>1, <2>4, <2>5
  <1>11. CASE Stop
    <2>1. connected' = FALSE
      BY <1>11 DEF Stop
    <2>2. CASE connected
      <3>1. A = 0
        BY <1>3, <2>2 DEF Sound
      <3>2. "timer" \notin pending
        BY <1>1, <3>1, CountZero DEF Attempts
      <3>3. /\ write_queue' = 0 /\ ready' = ready \o Aborts
            /\ pending' = pending \ {"read", "write"}
        BY <1>11, <2>2, <3>2 DEF Stop, QueueAfterClose
      <3>4. Count(pending', ready', Attempts) = 0
        BY <1>1, <3>1, <3>3, Closing
      <3> QED BY <2>1, <3>3, <3>4 DEF Sound
    <2>3. CASE ~connected
      <3>1. write_queue = 0 /\ "read" \notin pending /\ "write" \notin pending
        BY <1>3, <2>3 DEF Sound
      <3>2. /\ write_queue' = 0 /\ ready' = ready \o <<>> /\ pending' = pending \ {"timer"}
        BY <1>11, <2>3, <3>1 DEF Stop, QueueAfterClose
      <3>3. ready' = ready
        BY <1>1, <3>2
      <3>4. CASE "timer" \in pending
        <4>1. "timer" \in Attempts /\ A <= 1
          BY <1>4 DEF Attempts
        <4>2. A = 1
          BY <1>1, <3>4, <4>1, CountPending
        <4>3. Count(pending', ready', Attempts) = A - 1
          BY <1>1, <3>2, <3>3, <3>4, <4>1, CountDrop
        <4>4. Count(pending', ready', Attempts) = 0
          BY <4>2, <4>3
        <4> QED BY <2>1, <3>1, <3>2, <4>4 DEF Sound
      <3>5. CASE "timer" \notin pending
        <4>1. pending' = pending
          BY <3>2, <3>5
        <4> QED BY <1>3, <2>1, <2>3, <3>1, <3>2, <3>3, <4>1 DEF Sound
      <3> QED BY <3>4, <3>5
    <2> QED BY <1>1, <2>2, <2>3
  <1>12. CASE UNCHANGED vars
    BY <1>3, <1>12 DEF vars
  <1> HIDE DEF A, R, W
  <1> QED BY <1>5, <1>6, <1>8, <1>9, <1>10, <1>11, <1>12 DEF Next, Handler

-----------------------------------------------------------------------------
(* The link in both specifications.                                        *)

\* The invariant holds when start() has been called.
LEMMA LinkInit == Init => TypeOK /\ LinkInv
  <1> SUFFICES ASSUME Init PROVE TypeOK /\ LinkInv
    OBVIOUS
  <1>1. TypeOK
    <2>1. 0 \in 0..MaxQueue /\ {"resolve"} \subseteq Operation /\ <<>> \in Seq(Completion)
      BY QueueAssumption DEF Operation
    <2> QED BY <2>1, Zenon DEF Init, TypeOK
  <1>2. /\ pending = {"resolve"} /\ ready = <<>> /\ write_queue = 0 /\ connected = FALSE
        /\ <<>> \in Seq(Completion) /\ Len(<<>>) = 0
    BY DEF Init
  <1>3. IsFiniteSet({"resolve"}) /\ IsFiniteSet({})
    BY FS_Singleton, FS_EmptySet
  <1>4. /\ Count({"resolve"}, <<>>, {"read"}) = 0
        /\ Count({"resolve"}, <<>>, {"write"}) = 0
        /\ Count({}, <<>>, Attempts) = 0
    <2>1. \A ops : \A i \in 1..Len(<<>>) : <<>>[i].op \notin ops
      BY <1>2
    <2>2. /\ {"resolve"} \cap {"read"} = {} /\ {"resolve"} \cap {"write"} = {}
          /\ {} \cap Attempts = {}
      OBVIOUS
    <2> QED BY <1>2, <1>3, <2>1, <2>2, CountZero
  <1>5. Count({} \cup {"resolve"}, <<>>, Attempts) = Count({}, <<>>, Attempts) + 1
    BY <1>2, Starting DEF Operation, Attempts
  <1>6. Count({"resolve"}, <<>>, Attempts) = 1
    <2>1. {} \cup {"resolve"} = {"resolve"}
      OBVIOUS
    <2> QED BY <1>4, <1>5, <2>1
  <1>7. LinkInv
    BY <1>2, <1>4, <1>6 DEF LinkInv, Sound
  <1> QED BY <1>1, <1>7

\* What the invariant says about the properties.
LEMMA LinkMeaning == LinkInv => QueueServed /\ OneAttempt
  <1> SUFFICES ASSUME LinkInv PROVE QueueServed /\ OneAttempt
    OBVIOUS
  <1>1. Sound(connected, write_queue, pending, ready)
    BY DEF LinkInv
  <1>2. QueueServed
    <2>1. Underway({"write"}) = Count(pending, ready, {"write"})
      BY UnderwayCounts
    <2> QED BY <1>1, <2>1 DEF Sound, QueueServed
  <1>3. OneAttempt
    <2>1. Underway(Attempts) = Count(pending, ready, Attempts)
      BY UnderwayCounts
    <2>2. Underway({"resolve", "connect", "timer"}) = Underway(Attempts)
      BY DEF Attempts
    <2> QED BY <1>1, <2>1, <2>2 DEF Sound, OneAttempt
  <1> QED BY <1>2, <1>3

\* Every step of the two servers is a step of the link or leaves it alone.
LEMMA LinkStepOrNone == [BackendNext]_allVars => [Next]_vars
  <1> SUFFICES ASSUME [BackendNext]_allVars PROVE [Next]_vars
    OBVIOUS
  <1>1. CASE Seats \/ Break \/ ChatAccepting \/ ChatReads \/ ChatStops
             \/ ChatCrashes \/ ChatStarts
    BY <1>1 DEF Seats, Break, ChatAccepting, ChatAccepts, ChatReads, ChatStops,
                ChatCrashes, ChatStarts
  <1>2. ASSUME NEW r \in Rooms, NEW s \in Sessions, GameEnds(r) \/ GameStarts(r, s)
        PROVE  [Next]_vars
    BY <1>2 DEF GameEnds, GameStarts, Notify, Next
  <1>3. ASSUME NEW r \in Rooms, GameEnds(r) PROVE [Next]_vars
    BY <1>3 DEF GameEnds, Notify, Next
  <1>4. CASE LinkHandler \/ LinkStops
    BY <1>4 DEF LinkHandler, LinkStops, Next
  <1>5. ASSUME NEW op \in Operation, NEW ok \in BOOLEAN, LinkCompletes(op, ok)
        PROVE  [Next]_vars
    BY <1>5 DEF LinkCompletes, Next
  <1>6. CASE LinkWritten
    BY <1>6 DEF LinkWritten, LinkWrites, Next, Operation
  <1>7. CASE UNCHANGED allVars
    BY <1>7 DEF allVars
  <1> QED
    BY <1>1, <1>2, <1>3, <1>4, <1>5, <1>6, <1>7 DEF BackendNext

\* The invariant of the link holds in Backend as well.
LEMMA LinkAlways ==
  /\ Spec => [](TypeOK /\ LinkInv)
  /\ BackendSpec => [](TypeOK /\ LinkInv)
  <1>1. TypeOK /\ LinkInv /\ [Next]_vars => (TypeOK /\ LinkInv)'
    BY LinkTypeStep, LinkKept
  <1>2. TypeOK /\ LinkInv /\ [BackendNext]_allVars => (TypeOK /\ LinkInv)'
    BY <1>1, LinkStepOrNone
  <1>3. BackendInit => TypeOK /\ LinkInv
    BY LinkInit DEF BackendInit
  <1>4. Spec => [](TypeOK /\ LinkInv)
    BY <1>1, LinkInit, PTL DEF Spec
  <1>5. BackendSpec => [](TypeOK /\ LinkInv)
    BY <1>2, <1>3, PTL DEF BackendSpec
  <1> QED BY <1>4, <1>5

\* Whatever is sent, fails, completes late or is stopped, the link, alone or
\* with its neighbours, writes while there is something to write, and never
\* two notices at once.
THEOREM Served == (Spec => []QueueServed) /\ (BackendSpec => []QueueServed)
  <1>1. LinkInv => QueueServed
    BY LinkMeaning
  <1> QED BY <1>1, LinkAlways, PTL

\* A lost link schedules its reconnect from two handlers, and still there is
\* one attempt at a time and none while the link is up.
THEOREM Attempted == (Spec => []OneAttempt) /\ (BackendSpec => []OneAttempt)
  <1>1. LinkInv => OneAttempt
    BY LinkMeaning
  <1> QED BY <1>1, LinkAlways, PTL

\* Backend composes the link with its neighbours without changing it: its
\* behaviours are behaviours of ChatServerChannel, fairness aside.
THEOREM LinkComposed == BackendSpec => Init /\ [][Next]_vars
  <1>1. BackendInit => Init
    BY DEF BackendInit
  <1> QED BY <1>1, LinkStepOrNone, PTL DEF BackendSpec

-----------------------------------------------------------------------------
(* What a chat server makes of the notices it reads.                       *)

\* A notice that comes last decides about its session and no other.
LEMMA OnceAppend ==
  ASSUME NEW n \in Seq(Notice), NEW x \in Notice, NEW C, NEW s \in Sessions
  PROVE  s \in OnceRead(C, Append(n, x)) <=> \/ x.about = s /\ x.created
                                             \/ x.about # s /\ s \in OnceRead(C, n)
  <1> DEFINE m == Append(n, x)
  <1>1. /\ m \in Seq(Notice) /\ Len(m) = Len(n) + 1 /\ m[Len(n) + 1] = x
        /\ Len(n) \in Nat /\ \A i \in 1..Len(n) : m[i] = n[i]
    OBVIOUS
  <1> HIDE DEF m
  <1>2. CASE x.about = s
    <2>1. s \in About(m)
      BY <1>1, <1>2 DEF About
    <2>2. ASSUME x.created PROVE LastCreates(m, s)
      BY <1>1, <1>2, <2>2 DEF LastCreates
    <2>3. ASSUME LastCreates(m, s) PROVE x.created
      <3>1. PICK i \in 1..Len(m) : /\ m[i].about = s /\ m[i].created
                                   /\ \A j \in (i + 1)..Len(m) : m[j].about # s
        BY <2>3 DEF LastCreates
      <3>2. i = Len(n) + 1
        BY <1>1, <1>2, <3>1
      <3> QED BY <1>1, <3>1, <3>2
    <2> QED BY <1>2, <2>1, <2>2, <2>3 DEF OnceRead, m
  <1>3. CASE x.about # s
    <2>1. s \in About(m) <=> s \in About(n)
      BY <1>1, <1>3 DEF About
    <2>2. ASSUME LastCreates(n, s) PROVE LastCreates(m, s)
      <3>1. PICK i \in 1..Len(n) : /\ n[i].about = s /\ n[i].created
                                   /\ \A j \in (i + 1)..Len(n) : n[j].about # s
        BY <2>2 DEF LastCreates
      <3>2. /\ i \in 1..Len(m) /\ m[i] = n[i]
            /\ \A j \in (i + 1)..Len(m) : m[j].about # s
        BY <1>1, <1>3, <3>1
      <3> QED BY <3>1, <3>2 DEF LastCreates
    <2>3. ASSUME LastCreates(m, s) PROVE LastCreates(n, s)
      <3>1. PICK i \in 1..Len(m) : /\ m[i].about = s /\ m[i].created
                                   /\ \A j \in (i + 1)..Len(m) : m[j].about # s
        BY <2>3 DEF LastCreates
      <3>2. /\ i \in 1..Len(n) /\ m[i] = n[i]
            /\ \A j \in (i + 1)..Len(n) : n[j].about # s
        BY <1>1, <1>3, <3>1
      <3> QED BY <3>1, <3>2 DEF LastCreates
    <2> QED BY <1>3, <2>1, <2>2, <2>3 DEF OnceRead, m
  <1> QED BY <1>2, <1>3

\* Reading the first notice and then the others is reading them all.
LEMMA OnceTail ==
  ASSUME NEW n \in Seq(Notice), n # <<>>, NEW C, NEW D, NEW s \in Sessions,
         s \in D <=> \/ Head(n).about = s /\ Head(n).created
                     \/ Head(n).about # s /\ s \in C
  PROVE  s \in OnceRead(D, Tail(n)) <=> s \in OnceRead(C, n)
  <1> DEFINE t == Tail(n)
  <1>1. /\ t \in Seq(Notice) /\ Len(n) = Len(t) + 1 /\ Head(n) = n[1]
        /\ Len(t) \in Nat /\ \A i \in 1..Len(t) : t[i] = n[i + 1]
    OBVIOUS
  <1> HIDE DEF t
  <1>2. \A j \in 2..Len(n) : j - 1 \in 1..Len(t) /\ t[j - 1] = n[j]
    BY <1>1
  <1>3. s \in About(n) <=> Head(n).about = s \/ s \in About(t)
    <2>1. ASSUME s \in About(n) PROVE Head(n).about = s \/ s \in About(t)
      <3>1. PICK i \in 1..Len(n) : n[i].about = s
        BY <2>1 DEF About
      <3>2. CASE i = 1
        BY <1>1, <3>1, <3>2
      <3>3. CASE i # 1
        <4>1. i - 1 \in 1..Len(t) /\ t[i - 1].about = s
          BY <1>2, <3>1, <3>3
        <4> QED BY <4>1 DEF About
      <3> QED BY <3>2, <3>3
    <2>2. ASSUME s \in About(t) PROVE s \in About(n)
      <3>1. PICK i \in 1..Len(t) : t[i].about = s
        BY <2>2 DEF About
      <3>2. i + 1 \in 1..Len(n) /\ n[i + 1].about = s
        BY <1>1, <3>1
      <3> QED BY <3>2 DEF About
    <2>3. ASSUME Head(n).about = s PROVE s \in About(n)
      <3>1. 1 \in 1..Len(n)
        BY <1>1
      <3> QED BY <1>1, <2>3, <3>1 DEF About
    <2> QED BY <2>1, <2>2, <2>3
  <1>4. ASSUME LastCreates(t, s) PROVE LastCreates(n, s)
    <2>1. PICK i \in 1..Len(t) : /\ t[i].about = s /\ t[i].created
                                 /\ \A j \in (i + 1)..Len(t) : t[j].about # s
      BY <1>4 DEF LastCreates
    <2>2. i + 1 \in 1..Len(n) /\ n[i + 1] = t[i]
      BY <1>1, <2>1
    <2>3. ASSUME NEW j \in ((i + 1) + 1)..Len(n) PROVE n[j].about # s
      <3>1. j - 1 \in (i + 1)..Len(t) /\ j \in 2..Len(n)
        BY <1>1, <2>1
      <3> QED BY <1>2, <2>1, <3>1
    <2> QED BY <2>1, <2>2, <2>3 DEF LastCreates
  <1>5. ASSUME LastCreates(n, s) PROVE \/ LastCreates(t, s)
                                       \/ /\ Head(n).about = s /\ Head(n).created
                                          /\ s \notin About(t)
    <2>1. PICK i \in 1..Len(n) : /\ n[i].about = s /\ n[i].created
                                 /\ \A j \in (i + 1)..Len(n) : n[j].about # s
      BY <1>5 DEF LastCreates
    <2>2. CASE i = 1
      <3>1. ASSUME NEW j \in 1..Len(t) PROVE t[j].about # s
        <4>1. j + 1 \in (i + 1)..Len(n)
          BY <1>1, <2>2
        <4> QED BY <1>1, <2>1, <4>1
      <3> QED BY <1>1, <2>1, <2>2, <3>1 DEF About
    <2>3. CASE i # 1
      <3>1. i - 1 \in 1..Len(t) /\ t[i - 1] = n[i]
        BY <1>2, <2>1, <2>3
      <3>2. ASSUME NEW j \in ((i - 1) + 1)..Len(t) PROVE t[j].about # s
        <4>1. j + 1 \in (i + 1)..Len(n) /\ j \in 1..Len(t)
          BY <1>1, <2>1, <2>3
        <4> QED BY <1>1, <2>1, <4>1
      <3> QED BY <2>1, <3>1, <3>2 DEF LastCreates
    <2> QED BY <2>2, <2>3
  <1>6. ASSUME Head(n).about = s, Head(n).created, s \notin About(t)
        PROVE  LastCreates(n, s)
    <2>1. 1 \in 1..Len(n) /\ n[1].about = s /\ n[1].created
      BY <1>1, <1>6
    <2>2. ASSUME NEW j \in (1 + 1)..Len(n) PROVE n[j].about # s
      <3>1. j - 1 \in 1..Len(t) /\ t[j - 1] = n[j]
        BY <1>2
      <3> QED BY <1>6, <3>1 DEF About
    <2> QED BY <2>1, <2>2 DEF LastCreates
  <1>7. ASSUME LastCreates(t, s) PROVE s \in About(t)
    BY <1>7 DEF LastCreates, About
  <1> QED BY <1>3, <1>4, <1>5, <1>6, <1>7 DEF OnceRead, t

\* Of the channels there were before, only those of sessions that no notice
\* is about matter.
LEMMA OnceSame ==
  ASSUME NEW n, NEW C, NEW D, NEW s \in Sessions,
         s \in About(n) \/ (s \in C <=> s \in D)
  PROVE  s \in OnceRead(C, n) <=> s \in OnceRead(D, n)
  BY DEF OnceRead

\* Notices about other sessions change nothing.
LEMMA OnceSilent ==
  ASSUME NEW n, NEW C, NEW s \in Sessions, s \notin About(n)
  PROVE  s \in OnceRead(C, n) <=> s \in C
  <1>1. ~LastCreates(n, s)
    BY DEF LastCreates, About
  <1> QED BY <1>1 DEF OnceRead

\* Whoever has read the first of the notices already makes the same of the
\* others as of all of them.
LEMMA OncePopped ==
  ASSUME NEW n \in Seq(Notice), n # <<>>, NEW C, NEW s \in Sessions,
         Head(n).about = s => (s \in C <=> Head(n).created)
  PROVE  s \in OnceRead(C, Tail(n)) <=> s \in OnceRead(C, n)
  <1>1. s \in C <=> \/ Head(n).about = s /\ Head(n).created
                    \/ Head(n).about # s /\ s \in C
    OBVIOUS
  <1> QED BY <1>1, OnceTail

-----------------------------------------------------------------------------
(* The two servers agree.                                                  *)

\* A room that plays has a session.
RoomsType ==
    /\ phase \in [Rooms -> {"NONE", "WAITING", "IN_GAME"}]
    /\ \A r \in Rooms : phase[r] = "IN_GAME" => game[r] \in Sessions
    /\ DOMAIN game = Rooms

BackendType ==
    /\ queue \in Seq(Notice) /\ Len(queue) = write_queue
    /\ wire \in Seq(Notice)
    /\ RoomsType

\* A write has succeeded and its handler has not run.
Done(q) == \E i \in 1..Len(q) : q[i] = [op |-> "write", ok |-> TRUE]

\* The first notice of the queue has been put on the wire: what the chat
\* server has read and what is on the wire tell it the same.
Carried(notice, channels, notices, missed) ==
    \/ notice.about \in missed
    \/ notice.about \in OnceRead(channels, notices) <=> notice.created

\* While a write is done and not handled, its notice is both on the wire and
\* in the queue: without this, the pop of the queue could not be told from
\* the loss of a notice.
FrontInv == connected /\ Done(ready) => Carried(Head(queue), session_channels, wire, lost)

\* The agreement itself, which does not depend on corrupt.
Agree == \A s \in Sessions \ lost : s \in announced <=> s \in ChannelsToBe

BackendInv == BackendType /\ FrontInv /\ Agree

\* The queue after a step of the link.
LEMMA Shortening ==
  ASSUME queue \in Seq(Notice), Len(queue) = write_queue
  PROVE  /\ write_queue' = write_queue => QueueShortened = queue
         /\ write_queue' = 0 => QueueShortened = <<>>
         /\ write_queue > 0 /\ write_queue' = write_queue - 1 =>
               QueueShortened = Tail(queue) /\ queue # <<>>
  <1>1. write_queue \in Nat
    OBVIOUS
  <1>2. ASSUME write_queue' = write_queue PROVE QueueShortened = queue
    <2>1. QueueShortened = SubSeq(queue, 1, Len(queue))
      BY <1>1, <1>2 DEF QueueShortened
    <2> QED BY <2>1
  <1>3. ASSUME write_queue' = 0 PROVE QueueShortened = <<>>
    <2>1. QueueShortened = SubSeq(queue, Len(queue) + 1, Len(queue))
      BY <1>1, <1>3 DEF QueueShortened
    <2> QED BY <2>1
  <1>4. ASSUME write_queue > 0, write_queue' = write_queue - 1
        PROVE  QueueShortened = Tail(queue) /\ queue # <<>>
    <2>1. QueueShortened = SubSeq(queue, 2, Len(queue))
      BY <1>1, <1>4 DEF QueueShortened
    <2>2. queue # <<>>
      BY <1>1, <1>4
    <2>3. SubSeq(queue, 2, Len(queue)) = Tail(queue)
      BY <2>2
    <2> QED BY <2>1, <2>2, <2>3
  <1> QED BY <1>2, <1>3, <1>4

\* A write under way has a notice at the front of the queue.
LEMMA FrontThere ==
  ASSUME TypeOK, LinkInv, BackendType
  PROVE  /\ "write" \in pending => connected /\ queue # <<>>
         /\ connected /\ Done(ready) => queue # <<>>
  <1>1. /\ pending \in SUBSET Operation /\ ready \in Seq(Completion)
        /\ IsFiniteSet(pending) /\ Count(pending, ready, {"write"}) \in Nat
    BY CountsType DEF TypeOK
  <1>2. Sound(connected, write_queue, pending, ready)
    BY DEF LinkInv
  <1>3. ASSUME connected, Count(pending, ready, {"write"}) # 0
        PROVE  queue # <<>>
    <2>1. write_queue > 0
      BY <1>2, <1>3 DEF Sound
    <2> QED BY <2>1 DEF BackendType
  <1>4. ASSUME Done(ready) PROVE Count(pending, ready, {"write"}) # 0
    <2>1. PICK i \in 1..Len(ready) : ready[i] = [op |-> "write", ok |-> TRUE]
      BY <1>4 DEF Done
    <2>2. ready[i].op \in {"write"}
      BY <2>1
    <2> QED BY <1>1, <2>2, CountZero
  <1>5. ASSUME "write" \in pending PROVE connected /\ Count(pending, ready, {"write"}) # 0
    <2>1. connected
      BY <1>2, <1>5 DEF Sound
    <2>2. pending \cap {"write"} # {}
      BY <1>5
    <2> QED BY <1>1, <2>1, <2>2, CountZero
  <1> QED BY <1>3, <1>4, <1>5

\* What a handler of the link or its stop() can do: lose the link, pop the
\* notice whose write is done, or neither; no done write is left afterwards.
LEMMA HandlerEffect ==
  ASSUME TypeOK, LinkInv, Handler \/ Stop
  PROVE  /\ \/ connected /\ ~connected' /\ write_queue' = 0
            \/ ~(connected /\ ~connected') /\ write_queue' = write_queue
            \/ /\ connected /\ connected' /\ Done(ready)
               /\ write_queue > 0 /\ write_queue' = write_queue - 1
         /\ ~(connected' /\ Done(ready'))
  <1>1. /\ pending \in SUBSET Operation /\ ready \in Seq(Completion)
        /\ IsFiniteSet(pending) /\ write_queue \in Nat /\ connected \in BOOLEAN
        /\ Count(pending, ready, {"write"}) \in Nat /\ Count(pending, ready, Attempts) \in Nat
    <2>1. /\ pending \in SUBSET Operation /\ ready \in Seq(Completion)
          /\ write_queue \in Nat /\ connected \in BOOLEAN
      BY QueueAssumption DEF TypeOK
    <2> QED BY <2>1, CountsType
  <1>2. Sound(connected, write_queue, pending, ready)
    BY DEF LinkInv
  <1>3. ASSUME NEW ok \in BOOLEAN, OnResolve(ok) \/ OnTimer \/ OnConnect(ok)
        PROVE  /\ ~connected /\ write_queue' = write_queue
               /\ ~(connected' /\ Done(ready'))
    <2>1. /\ ready # <<>> /\ Head(ready).op \in Attempts /\ ready' = Tail(ready)
          /\ write_queue' = write_queue
      BY <1>3 DEF OnResolve, OnConnect, OnTimer, Completed, Attempts
    <2>2. Count(pending, ready, Attempts) = 1 /\ pending \cap Attempts = {}
      <3>1. Count(pending, ready, Attempts) <= 1
        BY <1>2 DEF Sound
      <3> QED BY <1>1, <2>1, <3>1, CountHead
    <2>3. ~connected
      BY <1>2, <2>2 DEF Sound
    <2>4. "timer" \notin pending
      BY <2>2 DEF Attempts
    <2>5. Count(pending, ready, {"write"}) = 0
      BY <1>2, <2>2, <2>3, <2>4 DEF Sound
    <2>6. \A i \in 1..Len(ready) : ready[i].op \notin {"write"}
      BY <1>1, <2>5, CountZero
    <2>7. ~Done(ready')
      <3>1. ASSUME NEW i \in 1..Len(Tail(ready)), Tail(ready)[i] = [op |-> "write", ok |-> TRUE]
            PROVE  FALSE
        <4>1. Tail(ready)[i] = ready[i + 1] /\ i + 1 \in 1..Len(ready)
          BY <1>1, <2>1
        <4> QED BY <2>6, <3>1, <4>1
      <3> QED BY <2>1, <3>1 DEF Done
    <2> QED BY <2>1, <2>3, <2>7
  <1>4. CASE OnWritten
    <2>1. /\ ready # <<>> /\ Head(ready) = [op |-> "write", ok |-> TRUE]
          /\ ready' = Tail(ready) /\ connected' = connected
          /\ write_queue' = IF write_queue = 0 THEN 0 ELSE write_queue - 1
      BY <1>4 DEF OnWritten, Completed
    <2>2. CASE connected
      <3>1. Count(pending, ready, {"write"}) <= 1 /\ Head(ready).op \in {"write"}
        BY <1>2, <2>1, <2>2 DEF Sound
      <3>2. /\ Count(pending, ready, {"write"}) = 1
            /\ \A i \in 1..Len(Tail(ready)) : Tail(ready)[i].op \notin {"write"}
        BY <1>1, <2>1, <3>1, CountHead
      <3>3. write_queue > 0
        BY <1>1, <1>2, <2>2, <3>2 DEF Sound
      <3>4. Done(ready)
        <4>1. Head(ready) = ready[1] /\ 1 \in 1..Len(ready)
          BY <1>1, <2>1
        <4> QED BY <2>1, <4>1 DEF Done
      <3>5. ~Done(ready')
        BY <2>1, <3>2 DEF Done
      <3> QED BY <1>1, <2>1, <2>2, <3>3, <3>4, <3>5
    <2>3. CASE ~connected
      <3>1. write_queue = 0
        BY <1>2, <2>3 DEF Sound
      <3> QED BY <2>1, <2>3, <3>1
    <2> QED BY <1>1, <2>2, <2>3
  <1>5. CASE Stop \/ \E op \in {"read", "write"} : OnFailure(op)
    <2>1. connected' = FALSE /\ write_queue' = QueueAfterClose
      BY <1>5 DEF Stop, OnFailure, CloseAnd
    <2>2. CASE connected
      BY <2>1, <2>2 DEF QueueAfterClose
    <2>3. CASE ~connected
      BY <2>1, <2>3 DEF QueueAfterClose
    <2> QED BY <1>1, <2>2, <2>3
  <1> QED BY <1>3, <1>4, <1>5 DEF Handler

\* Every step of the rooms keeps their type.
LEMMA RoomsStep ==
  ASSUME RoomsType,
         \/ Seats
         \/ \E r \in Rooms, s \in Sessions : M!Start(r, s)
         \/ \E r \in Rooms : M!Finish(r)
         \/ UNCHANGED roomVars
  PROVE  RoomsType'
  <1>1. ASSUME NEW r \in Rooms, M!Remove(r) PROVE RoomsType'
    BY <1>1 DEF M!Remove, RoomsType
  <1>2. ASSUME NEW r \in Rooms, NEW s \in Sessions, M!Start(r, s) PROVE RoomsType'
    BY <1>2 DEF M!Start, RoomsType
  <1>3. ASSUME NEW r \in Rooms, NEW p, NEW n, M!Open(p, r, n) PROVE RoomsType'
    BY <1>3 DEF M!Open, RoomsType
  <1>4. ASSUME phase' = phase, game' = game PROVE RoomsType'
    BY <1>4 DEF RoomsType
  <1>5. CASE Seats
    BY <1>1, <1>3, <1>4, <1>5 DEF Seats, M!Join, M!Leave, M!Abandon
  <1> QED BY <1>1, <1>2, <1>4, <1>5 DEF M!Finish, roomVars

\* The agreement after a step that tells the chat server of a session.
LEMMA Notifying ==
  ASSUME TypeOK, LinkInv, BackendInv, NEW notice \in Notice, Notify(notice),
         \A s \in Sessions : s \in announced' <=>
            \/ notice.about = s /\ notice.created
            \/ notice.about # s /\ s \in announced
  PROVE  FrontInv' /\ Agree' /\ queue' \in Seq(Notice) /\ Len(queue') = write_queue'
         /\ wire' = wire
  <1>1. /\ queue \in Seq(Notice) /\ Len(queue) = write_queue
        /\ wire' = wire /\ session_channels' = session_channels
    BY DEF BackendInv, BackendType, Notify, chatVars
  <1>2. CASE /\ Send /\ queue' = Enqueued(notice) /\ lost' = lost
    <2>1. /\ connected /\ connected' = connected /\ ready' = ready
          /\ write_queue' = write_queue + 1 /\ queue' = Append(queue, notice)
      BY <1>2 DEF Send, Enqueued
    <2>2. queue' \in Seq(Notice) /\ Len(queue') = write_queue'
      BY <1>1, <2>1
    <2>3. FrontInv'
      <3>1. ASSUME Done(ready) PROVE Head(queue') = Head(queue)
        <4>1. queue # <<>>
          BY <2>1, <3>1, FrontThere DEF BackendInv
        <4> QED BY <1>1, <2>1, <4>1
      <3> QED BY <1>1, <1>2, <2>1, <3>1 DEF BackendInv, FrontInv
    <2>4. Agree'
      <3> SUFFICES ASSUME NEW s \in Sessions \ lost
                   PROVE  s \in announced' <=> s \in ChannelsToBe'
        BY <1>2 DEF Agree
      <3> DEFINE C == OnceRead(session_channels, wire)
      <3>1. ChannelsToBe' = OnceRead(C, Append(queue, notice))
        BY <1>1, <2>1 DEF ChannelsToBe
      <3>2. s \in announced <=> s \in OnceRead(C, queue)
        BY DEF BackendInv, Agree, ChannelsToBe
      <3> HIDE DEF C
      <3>3. s \in OnceRead(C, Append(queue, notice)) <=>
               \/ notice.about = s /\ notice.created
               \/ notice.about # s /\ s \in OnceRead(C, queue)
        BY <1>1, OnceAppend
      <3> QED BY <3>1, <3>2, <3>3
    <2> QED BY <1>1, <2>2, <2>3, <2>4
  <1>3. CASE /\ ~connected /\ lost' = lost \cup {notice.about}
             /\ UNCHANGED <<vars, queue>>
    <2>1. /\ connected' = connected /\ queue' = queue /\ write_queue' = write_queue
      BY <1>3 DEF vars
    <2>2. FrontInv'
      BY <1>3, <2>1 DEF FrontInv
    <2>3. ChannelsToBe' = ChannelsToBe
      BY <1>1, <2>1 DEF ChannelsToBe
    <2>4. Agree'
      BY <1>3, <2>3 DEF BackendInv, Agree
    <2> QED BY <1>1, <2>1, <2>2, <2>4
  <1> QED BY <1>2, <1>3 DEF Notify

\* The agreement after a handler of the link or its stop().
LEMMA LinkMoves ==
  ASSUME TypeOK, LinkInv, BackendInv, Handler \/ Stop, LinkStep
  PROVE  FrontInv' /\ Agree' /\ queue' \in Seq(Notice) /\ Len(queue') = write_queue'
         /\ wire' \in Seq(Notice)
  <1>1. /\ queue \in Seq(Notice) /\ Len(queue) = write_queue /\ wire \in Seq(Notice)
        /\ queue' = QueueShortened /\ session_channels' = session_channels
        /\ announced' = announced
    BY DEF BackendInv, BackendType, LinkStep, chatVars, roomVars
  <1>2. FrontInv'
    BY HandlerEffect DEF FrontInv
  <1>3. CASE connected /\ ~connected' /\ write_queue' = 0
    <2>1. queue' = <<>>
      BY <1>1, <1>3, Shortening
    <2>2. /\ lost' = lost \cup About(queue)
          /\ wire' = wire \/ ("write" \in pending /\ wire' = Append(wire, Head(queue)))
      BY <1>3 DEF LinkStep
    <2>3. "write" \in pending => queue # <<>>
      BY FrontThere DEF BackendInv
    <2>4. wire' \in Seq(Notice)
      BY <1>1, <2>2, <2>3
    <2>5. Agree'
      <3> SUFFICES ASSUME NEW s \in Sessions, s \notin lost, s \notin About(queue)
                   PROVE  s \in announced <=> s \in ChannelsToBe'
        BY <1>1, <2>2 DEF Agree
      <3>1. s \in announced <=> s \in OnceRead(session_channels, wire)
        BY OnceSilent DEF BackendInv, Agree, ChannelsToBe
      <3>2. s \in ChannelsToBe' <=> s \in OnceRead(session_channels, wire')
        <4>1. s \notin About(<<>>)
          BY DEF About
        <4>2. ChannelsToBe' = OnceRead(OnceRead(session_channels, wire'), <<>>)
          BY <1>1, <2>1 DEF ChannelsToBe
        <4> QED BY <4>1, <4>2, OnceSilent
      <3>3. s \in OnceRead(session_channels, wire') <=> s \in OnceRead(session_channels, wire)
        <4>1. CASE wire' = wire
          BY <4>1
        <4>2. CASE "write" \in pending /\ wire' = Append(wire, Head(queue))
          <5>1. Head(queue) \in Notice /\ Head(queue).about # s
            BY <1>1, <2>3, <4>2 DEF About
          <5> QED BY <1>1, <4>2, <5>1, OnceAppend
        <4> QED BY <2>2, <4>1, <4>2
      <3> QED BY <3>1, <3>2, <3>3
    <2>6. Len(queue') = write_queue' /\ queue' \in Seq(Notice)
      BY <1>3, <2>1
    <2> QED BY <1>2, <2>4, <2>5, <2>6
  <1>4. CASE ~(connected /\ ~connected') /\ write_queue' = write_queue
    <2>1. queue' = queue /\ wire' = wire /\ lost' = lost
      BY <1>1, <1>4, Shortening DEF LinkStep
    <2>2. Agree'
      BY <1>1, <2>1 DEF BackendInv, Agree, ChannelsToBe
    <2> QED BY <1>1, <1>2, <1>4, <2>1, <2>2
  <1>5. CASE /\ connected /\ connected' /\ Done(ready)
             /\ write_queue > 0 /\ write_queue' = write_queue - 1
    <2>1. queue' = Tail(queue) /\ queue # <<>>
      BY <1>1, <1>5, Shortening
    <2>2. wire' = wire /\ lost' = lost
      BY <1>5 DEF LinkStep
    <2>3. Carried(Head(queue), session_channels, wire, lost)
      BY <1>5 DEF BackendInv, FrontInv
    <2>4. Agree'
      <3> SUFFICES ASSUME NEW s \in Sessions, s \notin lost
                   PROVE  s \in announced <=> s \in ChannelsToBe'
        BY <1>1, <2>2 DEF Agree
      <3> DEFINE C == OnceRead(session_channels, wire)
      <3>1. ChannelsToBe' = OnceRead(C, Tail(queue))
        BY <1>1, <2>1, <2>2 DEF ChannelsToBe
      <3>2. s \in announced <=> s \in OnceRead(C, queue)
        BY DEF BackendInv, Agree, ChannelsToBe
      <3>3. Head(queue).about = s => (s \in C <=> Head(queue).created)
        BY <2>3 DEF Carried
      <3> HIDE DEF C
      <3>4. s \in OnceRead(C, Tail(queue)) <=> s \in OnceRead(C, queue)
        BY <1>1, <2>1, <3>3, OncePopped
      <3> QED BY <3>1, <3>2, <3>4
    <2>5. queue' \in Seq(Notice) /\ Len(queue') = write_queue'
      BY <1>1, <1>5, <2>1
    <2> QED BY <1>1, <1>2, <2>2, <2>4, <2>5
  <1> QED BY <1>3, <1>4, <1>5, HandlerEffect

\* The agreement when the kernel finishes a write: the notice is on the wire,
\* and stays in the queue until the handler runs.
LEMMA Writing ==
  ASSUME TypeOK, LinkInv, BackendInv, NEW ok \in BOOLEAN, LinkWrites(ok)
  PROVE  FrontInv' /\ Agree' /\ wire' \in Seq(Notice)
  <1> DEFINE h == Head(queue)
  <1>1. /\ "write" \in pending /\ connected' = connected
        /\ ready' = Append(ready, [op |-> "write", ok |-> ok])
        /\ queue' = queue /\ session_channels' = session_channels
        /\ announced' = announced
    BY DEF LinkWrites, Complete, chatVars, roomVars
  <1>2. connected /\ queue # <<>> /\ queue \in Seq(Notice) /\ wire \in Seq(Notice)
    BY <1>1, FrontThere DEF BackendInv, BackendType
  <1>3. h \in Notice /\ h.about \in About(queue)
    <2>1. Head(queue) = queue[1] /\ 1 \in 1..Len(queue) /\ queue[1] \in Notice
      BY <1>2
    <2> QED BY <2>1 DEF About
  <1>4. ~Done(ready)
    <2>1. /\ pending \in SUBSET Operation /\ ready \in Seq(Completion)
      BY DEF TypeOK
    <2>2. IsFiniteSet(pending)
      BY <2>1, CountsType
    <2>3. Count(pending, ready, {"write"}) <= 1
      BY <1>2 DEF LinkInv, Sound
    <2>4. \A i \in 1..Len(ready) : ready[i].op \notin {"write"}
      BY <1>1, <2>1, <2>2, <2>3, CountPending
    <2> QED BY <2>4 DEF Done
  <1>5. ~ok => ~Done(ready')
    <2> SUFFICES ASSUME ~ok, NEW i \in 1..Len(ready'),
                        ready'[i] = [op |-> "write", ok |-> TRUE]
                 PROVE  FALSE
      BY DEF Done
    <2>1. ready \in Seq(Completion) /\ [op |-> "write", ok |-> ok] \in Completion
      BY DEF TypeOK, Completion, Operation
    <2>2. i \in 1..Len(ready) => ready'[i] = ready[i]
      BY <1>1, <2>1
    <2>3. i \notin 1..Len(ready) => ready'[i] = [op |-> "write", ok |-> ok]
      BY <1>1, <2>1
    <2>4. [op |-> "write", ok |-> ok].ok = ok /\ [op |-> "write", ok |-> TRUE].ok = TRUE
      OBVIOUS
    <2> QED BY <1>4, <2>2, <2>3, <2>4 DEF Done
  <1> HIDE DEF h
  <1>6. CASE connection = "none"
    <2>1. wire' = wire /\ lost' = lost \cup {h.about}
      <3>1. About(<<h>>) = {h.about}
        BY DEF About
      <3> QED BY <1>6, <3>1 DEF LinkWrites, h
    <2>2. ChannelsToBe' = ChannelsToBe
      BY <1>1, <2>1 DEF ChannelsToBe
    <2>3. Agree'
      BY <1>1, <2>1, <2>2 DEF BackendInv, Agree
    <2>4. FrontInv'
      BY <1>1, <2>1 DEF FrontInv, Carried, h
    <2> QED BY <1>2, <2>1, <2>3, <2>4
  <1>7. CASE connection # "none"
    <2>1. lost' = lost /\ (wire' = Append(wire, h) \/ (~ok /\ wire' = wire))
      BY <1>7 DEF LinkWrites, h
    <2>2. CASE wire' = Append(wire, h)
      <3> DEFINE C == OnceRead(session_channels, wire)
                 D == OnceRead(session_channels, wire')
      <3>1. \A s \in Sessions : s \in D <=> \/ h.about = s /\ h.created
                                            \/ h.about # s /\ s \in C
        BY <1>2, <1>3, <2>2, OnceAppend
      <3>2. ChannelsToBe' = OnceRead(D, queue) /\ ChannelsToBe = OnceRead(C, queue)
        BY <1>1 DEF ChannelsToBe
      <3>3. FrontInv'
        <4>1. h.about \in Sessions
          BY <1>3 DEF Notice
        <4>2. h.about \in D <=> h.created
          BY <3>1, <4>1
        <4> QED BY <1>1, <4>2 DEF FrontInv, Carried, h
      <3> HIDE DEF C, D
      <3>4. ASSUME NEW s \in Sessions \ lost
            PROVE  s \in announced <=> s \in OnceRead(D, queue)
        <4>1. s \in About(queue) \/ (s \in C <=> s \in D)
          BY <1>3, <3>1
        <4>2. s \in OnceRead(C, queue) <=> s \in OnceRead(D, queue)
          BY <4>1, OnceSame
        <4> QED BY <3>2, <4>2 DEF BackendInv, Agree
      <3>5. Agree'
        BY <1>1, <2>1, <3>2, <3>4 DEF Agree
      <3> QED BY <1>2, <1>3, <2>2, <3>3, <3>5
    <2>3. CASE ~ok /\ wire' = wire
      <3>1. FrontInv'
        BY <1>5, <2>3 DEF FrontInv
      <3>2. ChannelsToBe' = ChannelsToBe
        BY <1>1, <2>3 DEF ChannelsToBe
      <3> QED BY <1>1, <1>2, <2>1, <2>3, <3>1, <3>2 DEF BackendInv, Agree
    <2> QED BY <2>1, <2>2, <2>3
  <1> QED BY <1>6, <1>7

\* The agreement when the chat server's side of the connection moves: every
\* session outside lost is left as it was to be.
LEMMA ChatSide ==
  ASSUME BackendInv, UNCHANGED <<vars, roomVars, queue>>, lost \subseteq lost',
         \A s \in Sessions \ lost' :
            s \in OnceRead(session_channels', wire') <=> s \in OnceRead(session_channels, wire)
  PROVE  FrontInv' /\ Agree'
  <1>1. /\ connected' = connected /\ ready' = ready /\ queue' = queue
        /\ announced' = announced
    BY DEF vars, roomVars
  <1>2. Agree'
    <2> SUFFICES ASSUME NEW s \in Sessions \ lost'
                 PROVE  s \in announced <=> s \in ChannelsToBe'
      BY <1>1 DEF Agree
    <2>1. s \in announced <=> s \in ChannelsToBe
      BY DEF BackendInv, Agree
    <2>2. s \in OnceRead(OnceRead(session_channels', wire'), queue)
            <=> s \in OnceRead(OnceRead(session_channels, wire), queue)
      BY OnceSame
    <2> QED BY <1>1, <2>1, <2>2 DEF ChannelsToBe
  <1>3. FrontInv'
    <2> SUFFICES ASSUME connected, Done(ready), Head(queue).about \notin lost'
                 PROVE  Head(queue).about \in OnceRead(session_channels', wire')
                           <=> Head(queue).created
      BY <1>1 DEF FrontInv, Carried
    <2>1. Head(queue).about \in OnceRead(session_channels, wire) <=> Head(queue).created
      BY DEF BackendInv, FrontInv, Carried
    <2>2. CASE Head(queue).about \in Sessions
      BY <2>1, <2>2
    <2>3. CASE Head(queue).about \notin Sessions
      BY <2>1, <2>3 DEF OnceRead
    <2> QED BY <2>2, <2>3
  <1> QED BY <1>2, <1>3

\* Every step of the two servers keeps the agreement.
LEMMA BackendKept ==
  ASSUME TypeOK, LinkInv, BackendInv, [BackendNext]_allVars
  PROVE  BackendInv'
  <1>1. /\ queue \in Seq(Notice) /\ Len(queue) = write_queue /\ wire \in Seq(Notice)
        /\ RoomsType
    BY DEF BackendInv, BackendType
  <1>2. ASSUME RoomsType', FrontInv', Agree', queue' \in Seq(Notice),
               Len(queue') = write_queue', wire' \in Seq(Notice)
        PROVE  BackendInv'
    BY <1>2 DEF BackendInv, BackendType
  <1>3. CASE Seats
    <2>1. UNCHANGED <<vars, queue, wire, connection, chatVars, lost>> /\ announced' = announced
      BY <1>3 DEF Seats, M!Open, M!Join, M!Leave, M!Abandon
    <2>2. RoomsType'
      BY <1>1, <1>3, RoomsStep
    <2>3. /\ connected' = connected /\ ready' = ready /\ write_queue' = write_queue
          /\ queue' = queue /\ wire' = wire /\ session_channels' = session_channels
          /\ lost' = lost
      BY <2>1 DEF vars, chatVars
    <2>4. FrontInv' /\ Agree'
      BY <2>1, <2>3 DEF BackendInv, FrontInv, Agree, ChannelsToBe
    <2> QED BY <1>1, <1>2, <2>2, <2>3, <2>4
  <1>4. ASSUME NEW r \in Rooms, NEW s \in Sessions, GameStarts(r, s)
        PROVE  BackendInv'
    <2> DEFINE notice == [about |-> s, created |-> TRUE]
    <2>1. M!Start(r, s) /\ Notify(notice)
      BY <1>4 DEF GameStarts
    <2>2. notice \in Notice /\ notice.about = s /\ notice.created
      BY DEF Notice
    <2>3. announced' = announced \cup {s}
      BY <2>1 DEF M!Start
    <2>4. \A q \in Sessions : q \in announced' <=>
             \/ notice.about = q /\ notice.created
             \/ notice.about # q /\ q \in announced
      BY <2>2, <2>3
    <2>5. RoomsType'
      BY <1>1, <2>1, RoomsStep
    <2> HIDE DEF notice
    <2> QED BY <1>1, <1>2, <2>1, <2>2, <2>4, <2>5, Notifying
  <1>5. ASSUME NEW r \in Rooms, GameEnds(r)
        PROVE  BackendInv'
    <2> DEFINE notice == [about |-> game[r], created |-> FALSE]
    <2>1. M!Finish(r) /\ Notify(notice)
      BY <1>5 DEF GameEnds
    <2>2. game[r] \in Sessions
      BY <1>1, <2>1 DEF M!Finish, RoomsType
    <2>3. notice \in Notice /\ notice.about = game[r] /\ ~notice.created
      BY <2>2 DEF Notice
    <2>4. announced' = announced \ {game[r]}
      BY <2>1 DEF M!Finish
    <2>5. \A q \in Sessions : q \in announced' <=>
             \/ notice.about = q /\ notice.created
             \/ notice.about # q /\ q \in announced
      BY <2>3, <2>4
    <2>6. RoomsType'
      BY <1>1, <2>1, RoomsStep
    <2> HIDE DEF notice
    <2> QED BY <1>1, <1>2, <2>1, <2>3, <2>5, <2>6, Notifying
  <1>6. CASE LinkHandler \/ LinkStops
    <2>1. (Handler \/ Stop) /\ LinkStep
      BY <1>6 DEF LinkHandler, LinkStops
    <2>2. RoomsType'
      BY <1>1, <2>1, RoomsStep DEF LinkStep
    <2> QED BY <1>2, <2>1, <2>2, LinkMoves
  <1>7. ASSUME NEW op \in Operation, NEW ok \in BOOLEAN, LinkCompletes(op, ok)
        PROVE  BackendInv'
    <2>1. /\ op # "write" /\ connected' = connected /\ write_queue' = write_queue
          /\ ready' = Append(ready, [op |-> op, ok |-> ok])
          /\ queue' = queue /\ wire' = wire /\ session_channels' = session_channels
          /\ lost' = lost /\ UNCHANGED roomVars
      BY <1>7 DEF LinkCompletes, Complete, chatVars
    <2>2. Done(ready') => Done(ready)
      <3> SUFFICES ASSUME NEW i \in 1..Len(ready'),
                          ready'[i] = [op |-> "write", ok |-> TRUE]
                   PROVE  Done(ready)
        BY DEF Done
      <3>1. ready \in Seq(Completion) /\ [op |-> op, ok |-> ok] \in Completion
        BY DEF TypeOK, Completion
      <3>2. i \in 1..Len(ready) /\ ready'[i] = ready[i]
        BY <2>1, <3>1
      <3> QED BY <3>2 DEF Done
    <2>3. RoomsType'
      BY <1>1, <2>1, RoomsStep
    <2>4. announced' = announced
      BY <2>1 DEF roomVars
    <2>5. FrontInv' /\ Agree'
      BY <2>1, <2>2, <2>4 DEF BackendInv, FrontInv, Agree, ChannelsToBe
    <2> QED BY <1>1, <1>2, <2>1, <2>3, <2>5
  <1>8. ASSUME NEW ok \in BOOLEAN, LinkWrites(ok)
        PROVE  BackendInv'
    <2>1. queue' = queue /\ write_queue' = write_queue /\ UNCHANGED roomVars
      BY <1>8 DEF LinkWrites, Complete
    <2>2. RoomsType'
      BY <1>1, <2>1, RoomsStep
    <2> QED BY <1>1, <1>2, <1>8, <2>1, <2>2, Writing
  <1>9. ASSUME UNCHANGED <<vars, roomVars, queue>>, wire' \in Seq(Notice),
               lost \subseteq lost',
               \A s \in Sessions \ lost' :
                  s \in OnceRead(session_channels', wire')
                     <=> s \in OnceRead(session_channels, wire)
        PROVE  BackendInv'
    <2>1. RoomsType'
      BY <1>1, <1>9, RoomsStep
    <2>2. queue' = queue /\ write_queue' = write_queue
      BY <1>9 DEF vars
    <2> QED BY <1>1, <1>2, <1>9, <2>1, <2>2, ChatSide
  <1>10. ASSUME UNCHANGED <<vars, roomVars, queue>>, wire' = <<>>,
                lost \cup About(wire) \subseteq lost',
                \A s \in Sessions \ lost' : s \in session_channels' <=> s \in session_channels
         PROVE  BackendInv'
    <2>1. \A s : s \notin About(<<>>)
      BY DEF About
    <2>2. ASSUME NEW s \in Sessions \ lost'
          PROVE  s \in OnceRead(session_channels', wire') <=> s \in OnceRead(session_channels, wire)
      <3>1. s \notin About(wire) /\ s \notin About(wire')
        BY <1>10, <2>1
      <3>2. s \in OnceRead(session_channels', wire') <=> s \in session_channels'
        BY <3>1, OnceSilent
      <3>3. s \in OnceRead(session_channels, wire) <=> s \in session_channels
        BY <3>1, OnceSilent
      <3> QED BY <1>10, <3>2, <3>3
    <2>3. wire' \in Seq(Notice) /\ lost \subseteq lost'
      BY <1>10
    <2> QED BY <1>9, <1>10, <2>2, <2>3
  <1>11. CASE Break
    BY <1>10, <1>11 DEF Break, chatVars
  <1>12. CASE ChatAccepting \/ ChatStarts
    BY <1>1, <1>9, <1>12 DEF ChatAccepting, ChatAccepts, ChatStarts
  <1>13. CASE ChatReads
    <2>1. /\ wire # <<>> /\ wire' = Tail(wire) /\ lost' = lost
          /\ session_channels' = ChannelsAfter(Head(wire))
          /\ UNCHANGED <<vars, roomVars, queue>>
      BY <1>13 DEF ChatReads
    <2>2. ASSUME NEW s \in Sessions \ lost'
          PROVE  s \in OnceRead(session_channels', wire') <=> s \in OnceRead(session_channels, wire)
      <3>1. s \in session_channels' <=> \/ Head(wire).about = s /\ Head(wire).created
                                        \/ Head(wire).about # s /\ s \in session_channels
        BY <2>1 DEF ChannelsAfter
      <3> QED BY <1>1, <2>1, <3>1, OnceTail
    <2>3. wire' \in Seq(Notice)
      BY <1>1, <2>1
    <2> QED BY <1>9, <2>1, <2>2, <2>3
  <1>14. CASE ChatStops
    <2>1. session_channels' = session_channels /\ UNCHANGED <<vars, roomVars, queue>>
      BY <1>14 DEF ChatStops
    <2>2. CASE connection = "waiting"
      BY <1>10, <1>14, <2>1, <2>2 DEF ChatStops
    <2>3. CASE connection # "waiting"
      BY <1>1, <1>9, <1>14, <2>1, <2>3 DEF ChatStops
    <2> QED BY <2>2, <2>3
  <1>15. CASE ChatCrashes
    BY <1>10, <1>15 DEF ChatCrashes
  <1>16. CASE UNCHANGED allVars
    BY <1>1, <1>9, <1>16 DEF allVars, chatVars
  <1> QED
    BY <1>3, <1>4, <1>5, <1>6, <1>7, <1>8, <1>11, <1>12, <1>13, <1>14, <1>15, <1>16
       DEF BackendNext, LinkWritten

\* However games, writes, failures, crashes and reads interleave, the chat
\* server's channels and the notices on their way to it add up to the games
\* announced and not ended, for every session of which no notice was lost:
\* popping the queue, the one step that forgets a notice, forgets only what
\* is on the wire or has been read.
THEOREM Agreed == BackendSpec => []Agreement
  <1>1. BackendInit => BackendInv
    <2> SUFFICES ASSUME BackendInit PROVE BackendInv
      OBVIOUS
    <2>1. /\ queue = <<>> /\ wire = <<>> /\ session_channels = {} /\ lost = {}
          /\ write_queue = 0 /\ connected = FALSE /\ announced = {}
          /\ phase = [r \in Rooms |-> "NONE"] /\ game = [r \in Rooms |-> NoGame]
      BY DEF BackendInit, Init, M!MmInit
    <2>2. BackendType
      BY <2>1 DEF BackendType, RoomsType
    <2>3. FrontInv
      BY <2>1 DEF FrontInv
    <2>4. Agree
      <3>1. \A s : s \notin About(<<>>)
        BY DEF About
      <3>2. ASSUME NEW s \in Sessions
            PROVE  s \notin OnceRead(OnceRead({}, <<>>), <<>>)
        <4>1. s \notin OnceRead({}, <<>>)
          BY <3>1, OnceSilent
        <4> QED BY <3>1, <4>1, OnceSilent
      <3> QED BY <2>1, <3>2 DEF Agree, ChannelsToBe
    <2> QED BY <2>2, <2>3, <2>4 DEF BackendInv
  <1>2. TypeOK /\ LinkInv /\ BackendInv /\ [BackendNext]_allVars => BackendInv'
    BY BackendKept
  <1>3. BackendInv => Agreement
    BY DEF BackendInv, Agree, Agreement
  <1> QED BY <1>1, <1>2, <1>3, LinkAlways, PTL DEF BackendSpec

=============================================================================
