----------------------------- MODULE DataLemmas -----------------------------
(***************************************************************************)
(* Facts about data that the proofs of several components rest on.         *)
(*                                                                         *)
(* First, counting the asynchronous operations of an object: those that    *)
(* the kernel works on (a set) and those whose completions wait in the     *)
(* queue of the io_context (a sequence of records with a field op).  The   *)
(* modules ChatServerChannel and SessionIo state their properties with     *)
(* such counts, and their handlers do four things to them: start an        *)
(* operation, let one complete, take the completion at the head, and fail  *)
(* a pending operation.  There is a lemma for each.                        *)
(*                                                                         *)
(* Then induction on the natural numbers, and what it takes to reason      *)
(* about a recursive function f[n \in D] == ...: that there is one.  The   *)
(* induction theorems of the library take a predicate, which the provers   *)
(* cannot instantiate; here it is the set of the numbers that satisfy it.  *)
(* Last, sequences position by position.                                   *)
(***************************************************************************)
EXTENDS Integers, Sequences, FiniteSets, FiniteSetTheorems, SequenceTheorems, TLAPS

\* The positions in the queue q of completions of the operations ops.
At(q, ops) == {i \in 1..Len(q) : q[i].op \in ops}

\* How many of the operations ops are under way.
Count(P, q, ops) == Cardinality(P \cap ops) + Cardinality(At(q, ops))

\* What closing a socket adds to the queue: the failure e, if it was pending.
FailedOf(P, e) == IF e.op \in P THEN <<e>> ELSE <<>>

-----------------------------------------------------------------------------

\* A queue has finitely many positions.
LEMMA AtFinite ==
  ASSUME NEW S, NEW q \in Seq(S), NEW ops
  PROVE  IsFiniteSet(At(q, ops)) /\ Cardinality(At(q, ops)) \in Nat
  <1>1. IsFiniteSet(1..Len(q)) /\ At(q, ops) \in SUBSET (1..Len(q))
    BY FS_Interval DEF At
  <1> QED BY <1>1, FS_Subset, FS_CardinalityType

\* Counts are numbers.
LEMMA CountType ==
  ASSUME NEW S, NEW q \in Seq(S), NEW ops, NEW P, IsFiniteSet(P)
  PROVE  /\ Count(P, q, ops) \in Nat
         /\ IsFiniteSet(P \cap ops) /\ Cardinality(P \cap ops) \in Nat
  <1>1. IsFiniteSet(P \cap ops) /\ Cardinality(P \cap ops) \in Nat
    BY FS_Intersection, FS_CardinalityType
  <1> QED BY <1>1, AtFinite DEF Count

\* A completion is put at the end of the queue.
LEMMA AtAppend ==
  ASSUME NEW S, NEW q \in Seq(S), NEW ops, NEW e \in S
  PROVE  Cardinality(At(Append(q, e), ops))
            = Cardinality(At(q, ops)) + IF e.op \in ops THEN 1 ELSE 0
  <1>1. At(Append(q, e), ops) = IF e.op \in ops THEN At(q, ops) \cup {Len(q) + 1}
                                ELSE At(q, ops)
    BY DEF At
  <1>2. Len(q) + 1 \notin At(q, ops)
    BY DEF At
  <1>3. IsFiniteSet(At(q, ops)) /\ Cardinality(At(q, ops)) \in Nat
    BY AtFinite
  <1>4. Cardinality(At(q, ops) \cup {Len(q) + 1}) = Cardinality(At(q, ops)) + 1
    BY <1>2, <1>3, FS_AddElement
  <1> QED BY <1>1, <1>3, <1>4

\* The completion at the head is taken.
LEMMA AtTail ==
  ASSUME NEW S, NEW q \in Seq(S), q # <<>>, NEW ops
  PROVE  Cardinality(At(Tail(q), ops))
            = Cardinality(At(q, ops)) - IF Head(q).op \in ops THEN 1 ELSE 0
  <1> DEFINE later == At(q, ops) \ {1}
             f == [i \in At(Tail(q), ops) |-> i + 1]
  <1>1. /\ Tail(q) \in Seq(S) /\ Len(Tail(q)) = Len(q) - 1 /\ Head(q) = q[1]
        /\ \A i \in 1..Len(Tail(q)) : Tail(q)[i] = q[i + 1]
        /\ Len(q) >= 1
    OBVIOUS
  <1>2. f \in Bijection(At(Tail(q), ops), later)
    <2>1. \A i \in At(Tail(q), ops) : f[i] \in later
      BY <1>1 DEF At
    <2>2. \A j \in later : j - 1 \in At(Tail(q), ops) /\ f[j - 1] = j
      BY <1>1 DEF At
    <2>3. \A i, j \in At(Tail(q), ops) : f[i] = f[j] => i = j
      BY DEF At
    <2>4. f \in [At(Tail(q), ops) -> later]
      BY <2>1
    <2>5. \A j \in later : \E i \in At(Tail(q), ops) : f[i] = j
      BY <2>2
    <2> HIDE DEF f, later
    <2> QED BY <2>3, <2>4, <2>5 DEF Bijection, Injection, IsInjective, Surjection
  <1>3. Cardinality(At(Tail(q), ops)) = Cardinality(later)
    <2>1. IsFiniteSet(At(Tail(q), ops))
      BY <1>1, AtFinite
    <2>2. ExistsBijection(At(Tail(q), ops), later)
      BY <1>2 DEF ExistsBijection
    <2> HIDE DEF later
    <2> QED BY <2>1, <2>2, FS_Bijection
  <1>4. 1 \in At(q, ops) <=> Head(q).op \in ops
    BY <1>1 DEF At
  <1>5. Cardinality(later) = IF Head(q).op \in ops THEN Cardinality(At(q, ops)) - 1
                             ELSE Cardinality(At(q, ops))
    BY <1>4, AtFinite, FS_RemoveElement
  <1> QED BY <1>3, <1>5, AtFinite

-----------------------------------------------------------------------------
(* What handlers and the kernel do to a count.                             *)

\* An operation that was not pending is started.
LEMMA CountStart ==
  ASSUME NEW S, NEW q \in Seq(S), NEW ops, NEW P, IsFiniteSet(P), NEW o, o \notin P
  PROVE  /\ IsFiniteSet(P \cup {o})
         /\ Count(P \cup {o}, q, ops)
               = Count(P, q, ops) + IF o \in ops THEN 1 ELSE 0
  <1>1. (P \cup {o}) \cap ops = IF o \in ops THEN (P \cap ops) \cup {o} ELSE P \cap ops
    OBVIOUS
  <1>2. o \notin P \cap ops
    OBVIOUS
  <1>3. IsFiniteSet(P \cap ops) /\ Cardinality(P \cap ops) \in Nat
    BY CountType
  <1>4. Cardinality((P \cup {o}) \cap ops)
           = Cardinality(P \cap ops) + IF o \in ops THEN 1 ELSE 0
    <2>1. Cardinality((P \cap ops) \cup {o}) = Cardinality(P \cap ops) + 1
      BY <1>2, <1>3, FS_AddElement
    <2>2. CASE o \in ops
      BY <1>1, <2>1, <2>2
    <2>3. CASE o \notin ops
      <3>1. (P \cup {o}) \cap ops = P \cap ops
        BY <2>3
      <3>2. Cardinality((P \cup {o}) \cap ops) = Cardinality(P \cap ops)
        BY <3>1, Zenon
      <3> QED BY <1>3, <2>3, <3>2
    <2> QED BY <2>2, <2>3
  <1> QED BY <1>3, <1>4, AtFinite, FS_AddElement DEF Count

\* A pending operation is given up.
LEMMA CountDrop ==
  ASSUME NEW S, NEW q \in Seq(S), NEW ops, NEW P, IsFiniteSet(P), NEW o \in P
  PROVE  /\ IsFiniteSet(P \ {o})
         /\ Count(P \ {o}, q, ops)
               = Count(P, q, ops) - IF o \in ops THEN 1 ELSE 0
  <1>1. (P \ {o}) \cap ops = IF o \in ops THEN (P \cap ops) \ {o} ELSE P \cap ops
    OBVIOUS
  <1>2. IsFiniteSet(P \cap ops) /\ Cardinality(P \cap ops) \in Nat
    BY CountType
  <1>3. Cardinality((P \ {o}) \cap ops)
           = Cardinality(P \cap ops) - IF o \in ops THEN 1 ELSE 0
    <2>1. ASSUME o \in ops
          PROVE  Cardinality((P \cap ops) \ {o}) = Cardinality(P \cap ops) - 1
      BY <1>2, <2>1, FS_RemoveElement
    <2>2. CASE o \in ops
      BY <1>1, <2>1, <2>2
    <2>3. CASE o \notin ops
      <3>1. (P \ {o}) \cap ops = P \cap ops
        BY <2>3
      <3>2. Cardinality((P \ {o}) \cap ops) = Cardinality(P \cap ops)
        BY <3>1, Zenon
      <3> QED BY <1>2, <2>3, <3>2
    <2> QED BY <2>2, <2>3
  <1> QED BY <1>2, <1>3, AtFinite, FS_RemoveElement DEF Count

\* A completion without a pending operation appears.
LEMMA CountAppend ==
  ASSUME NEW S, NEW q \in Seq(S), NEW ops, NEW P, IsFiniteSet(P), NEW e \in S
  PROVE  Count(P, Append(q, e), ops)
            = Count(P, q, ops) + IF e.op \in ops THEN 1 ELSE 0
  BY AtAppend, AtFinite, CountType DEF Count

\* A pending operation completes.
LEMMA CountComplete ==
  ASSUME NEW S, NEW q \in Seq(S), NEW ops, NEW P, IsFiniteSet(P),
         NEW e \in S, e.op \in P
  PROVE  Count(P \ {e.op}, Append(q, e), ops) = Count(P, q, ops)
  <1> DEFINE r == Append(q, e)
             one == IF e.op \in ops THEN 1 ELSE 0
  <1>1. r \in Seq(S) /\ one \in Nat
    OBVIOUS
  <1>2. Count(P, r, ops) = Count(P, q, ops) + one
    BY CountAppend
  <1>3. Count(P, q, ops) \in Nat
    BY CountType
  <1> HIDE DEF r
  <1>4. Count(P \ {e.op}, r, ops) = Count(P, r, ops) - one
    BY <1>1, CountDrop
  <1> HIDE DEF one
  <1>5. Count(P \ {e.op}, r, ops) = Count(P, q, ops)
    BY <1>1, <1>2, <1>3, <1>4
  <1> QED BY <1>5 DEF r

\* The completion at the head is taken.
LEMMA CountTail ==
  ASSUME NEW S, NEW q \in Seq(S), q # <<>>, NEW ops, NEW P, IsFiniteSet(P)
  PROVE  Count(P, Tail(q), ops)
            = Count(P, q, ops) - IF Head(q).op \in ops THEN 1 ELSE 0
  <1>1. Tail(q) \in Seq(S)
    OBVIOUS
  <1> QED BY <1>1, AtTail, AtFinite, CountType DEF Count

\* A socket is closed: the operation of e fails if it was pending.
LEMMA CountFail ==
  ASSUME NEW S, NEW q \in Seq(S), NEW ops, NEW P, IsFiniteSet(P), NEW e \in S
  PROVE  /\ IsFiniteSet(P \ {e.op}) /\ q \o FailedOf(P, e) \in Seq(S)
         /\ Count(P \ {e.op}, q \o FailedOf(P, e), ops) = Count(P, q, ops)
  <1>1. CASE e.op \in P
    <2>1. q \o FailedOf(P, e) = Append(q, e)
      BY <1>1 DEF FailedOf
    <2> QED BY <1>1, <2>1, CountDrop, CountComplete
  <1>2. CASE e.op \notin P
    <2>1. q \o FailedOf(P, e) = q /\ P \ {e.op} = P
      BY <1>2 DEF FailedOf
    <2> QED BY <2>1
  <1> QED BY <1>1, <1>2

-----------------------------------------------------------------------------
(* What a count says.                                                      *)

\* Nothing is under way exactly if nothing is pending and nothing waits.
LEMMA CountZero ==
  ASSUME NEW S, NEW q \in Seq(S), NEW ops, NEW P, IsFiniteSet(P)
  PROVE  Count(P, q, ops) = 0 <=> /\ P \cap ops = {}
                                  /\ \A i \in 1..Len(q) : q[i].op \notin ops
  <1>1. At(q, ops) = {} <=> \A i \in 1..Len(q) : q[i].op \notin ops
    BY DEF At
  <1>2. Count(P, q, ops) = 0 <=> P \cap ops = {} /\ At(q, ops) = {}
    <2>1. /\ IsFiniteSet(P \cap ops) /\ Cardinality(P \cap ops) \in Nat
          /\ IsFiniteSet(At(q, ops)) /\ Cardinality(At(q, ops)) \in Nat
      BY AtFinite, CountType
    <2>2. /\ Cardinality(P \cap ops) = 0 <=> P \cap ops = {}
          /\ Cardinality(At(q, ops)) = 0 <=> At(q, ops) = {}
      BY <2>1, FS_EmptySet
    <2> QED BY <2>1, <2>2 DEF Count
  <1> QED BY <1>1, <1>2

\* The completion at the head of an operation that is under way once is all
\* there is of it.
LEMMA CountHead ==
  ASSUME NEW S, NEW q \in Seq(S), q # <<>>, NEW ops, NEW P, IsFiniteSet(P),
         Head(q).op \in ops, Count(P, q, ops) <= 1
  PROVE  /\ Count(P, q, ops) = 1 /\ P \cap ops = {}
         /\ \A i \in 1..Len(Tail(q)) : Tail(q)[i].op \notin ops
  <1>1. Tail(q) \in Seq(S)
    OBVIOUS
  <1>2. Count(P, Tail(q), ops) = Count(P, q, ops) - 1
    BY CountTail
  <1>3. Count(P, Tail(q), ops) \in Nat /\ Count(P, q, ops) \in Nat
    BY <1>1, CountType
  <1>4. Count(P, Tail(q), ops) = 0
    BY <1>2, <1>3
  <1>5. /\ P \cap ops = {}
        /\ \A i \in 1..Len(Tail(q)) : Tail(q)[i].op \notin ops
    BY <1>1, <1>4, CountZero
  <1> QED BY <1>2, <1>3, <1>4, <1>5

\* A pending operation that is under way once is all there is of it.
LEMMA CountPending ==
  ASSUME NEW S, NEW q \in Seq(S), NEW ops, NEW P, IsFiniteSet(P), NEW o \in P,
         o \in ops, Count(P, q, ops) <= 1
  PROVE  /\ Count(P, q, ops) = 1 /\ P \cap ops = {o}
         /\ \A i \in 1..Len(q) : q[i].op \notin ops
  <1>1. /\ IsFiniteSet(P \ {o}) /\ Count(P \ {o}, q, ops) = Count(P, q, ops) - 1
    BY CountDrop
  <1>2. Count(P \ {o}, q, ops) \in Nat /\ Count(P, q, ops) \in Nat
    BY <1>1, CountType
  <1>3. Count(P \ {o}, q, ops) = 0
    BY <1>1, <1>2
  <1>4. (P \ {o}) \cap ops = {}
    BY <1>1, <1>3, CountZero
  <1> QED BY <1>1, <1>2, <1>3, <1>4, CountZero

-----------------------------------------------------------------------------
(* Induction.                                                              *)

\* A set with 0 and the successors of its elements has every number: < is well
\* founded, and the least number outside would have a predecessor inside.
LEMMA Induction ==
  ASSUME NEW T, 0 \in T, \A n \in Nat : n \in T => n + 1 \in T
  PROVE  Nat \subseteq T
  <1> DEFINE bad == Nat \ T
             R == OpToRel(<, Nat)
  <1> SUFFICES ASSUME bad # {} PROVE FALSE
    OBVIOUS
  <1>1. IsWellFoundedOn(R, Nat)
    BY NatLessThanWellFounded
  <1>2. bad \subseteq Nat
    OBVIOUS
  <1> HIDE DEF R
  <1>3. PICK m \in bad : \A k \in bad : ~(<<k, m>> \in R)
    BY <1>1, <1>2, WFMin
  <1>4. \A k \in Nat : k < m => <<k, m>> \in R
    BY DEF R, OpToRel
  <1>5. m # 0 /\ m - 1 \in Nat /\ m - 1 < m
    OBVIOUS
  <1>6. m - 1 \in T
    BY <1>3, <1>4, <1>5
  <1> QED BY <1>5, <1>6

-----------------------------------------------------------------------------
(* Recursion.                                                              *)

\* A value for every step, from the number of the step and the value before.
Steps(S) == [Nat -> [S -> S]]

\* g makes the first n steps from c.
Runs(S, c, step, n, g) ==
    /\ g \in [0..n -> S]
    /\ g[0] = c
    /\ \A k \in 1..n : g[k] = step[k][g[k - 1]]

\* f makes all of them.
Follows(S, c, step, f) ==
    /\ f \in [Nat -> S]
    /\ f[0] = c
    /\ \A n \in Nat : f[n + 1] = step[n + 1][f[n]]

\* f is what a recursive definition on D stands for.
Recursive(D, S, c, step, f) ==
    /\ f \in [D -> S]
    /\ f = [n \in D |-> IF n = 0 THEN c ELSE step[n][f[n - 1]]]

\* Any number of steps can be made.
LEMMA RunExists ==
  ASSUME NEW S, NEW c \in S, NEW step \in Steps(S), NEW n \in Nat
  PROVE  \E g : Runs(S, c, step, n, g)
  <1> DEFINE T == {k \in Nat : \E g : Runs(S, c, step, k, g)}
  <1>0. step \in [Nat -> [S -> S]]
    BY DEF Steps
  <1>1. 0 \in T
    <2> DEFINE g == [k \in 0..0 |-> c]
    <2>1. Runs(S, c, step, 0, g)
      BY DEF Runs
    <2> QED BY <2>1
  <1>2. ASSUME NEW m \in Nat, m \in T PROVE m + 1 \in T
    <2>1. PICK g : Runs(S, c, step, m, g)
      BY <1>2
    <2> DEFINE h == [k \in 0..(m + 1) |-> IF k = m + 1 THEN step[m + 1][g[m]] ELSE g[k]]
    <2>2. g \in [0..m -> S] /\ g[0] = c /\ \A k \in 1..m : g[k] = step[k][g[k - 1]]
      BY <2>1 DEF Runs
    <2>3. step[m + 1] \in [S -> S] /\ g[m] \in S
      BY <1>0, <2>2
    <2>4. step[m + 1][g[m]] \in S
      BY <2>3
    <2>5. h \in [0..(m + 1) -> S]
      BY <2>2, <2>4
    <2>6. h[0] = c
      BY <2>2
    <2>7. ASSUME NEW k \in 1..(m + 1) PROVE h[k] = step[k][h[k - 1]]
      <3>1. CASE k = m + 1
        BY <3>1
      <3>2. CASE k # m + 1
        <4>1. k \in 1..m /\ k - 1 \in 0..(m + 1) /\ k - 1 # m + 1 /\ k \in 0..(m + 1)
          BY <3>2
        <4>2. h[k] = g[k] /\ h[k - 1] = g[k - 1]
          BY <3>2, <4>1
        <4> QED BY <2>2, <4>1, <4>2
      <3> QED BY <3>1, <3>2
    <2> HIDE DEF h
    <2>8. Runs(S, c, step, m + 1, h)
      BY <2>5, <2>6, <2>7 DEF Runs
    <2> QED BY <2>8
  <1> HIDE DEF T
  <1>3. Nat \subseteq T
    BY <1>1, <1>2, Induction
  <1> QED BY <1>3 DEF T

\* Two runs agree as far as both go.
LEMMA RunsAgree ==
  ASSUME NEW S, NEW c \in S, NEW step \in Steps(S),
         NEW n \in Nat, NEW m \in Nat, NEW g, NEW h,
         Runs(S, c, step, n, g), Runs(S, c, step, m, h)
  PROVE  \A k \in Nat : k <= n /\ k <= m => g[k] = h[k]
  <1> DEFINE T == {k \in Nat : k <= n /\ k <= m => g[k] = h[k]}
  <1>1. /\ g[0] = c /\ \A k \in 1..n : g[k] = step[k][g[k - 1]]
        /\ h[0] = c /\ \A k \in 1..m : h[k] = step[k][h[k - 1]]
    BY DEF Runs
  <1>2. 0 \in T
    BY <1>1
  <1>3. ASSUME NEW k \in Nat, k \in T PROVE k + 1 \in T
    <2> SUFFICES ASSUME k + 1 <= n /\ k + 1 <= m PROVE g[k + 1] = h[k + 1]
      OBVIOUS
    <2>1. k + 1 \in 1..n /\ k + 1 \in 1..m /\ (k + 1) - 1 = k /\ k <= n /\ k <= m
      OBVIOUS
    <2>2. g[k] = h[k]
      BY <1>3, <2>1
    <2>3. g[k + 1] = step[k + 1][g[k]] /\ h[k + 1] = step[k + 1][h[k]]
      BY <1>1, <2>1
    <2> QED BY <2>2, <2>3
  <1> HIDE DEF T
  <1>4. Nat \subseteq T
    BY <1>2, <1>3, Induction
  <1> QED BY <1>4 DEF T

\* All steps can be made.
LEMMA SequenceOfSteps ==
  ASSUME NEW S, NEW c \in S, NEW step \in Steps(S)
  PROVE  \E f : Follows(S, c, step, f)
  <1> DEFINE run(n) == CHOOSE g : Runs(S, c, step, n, g)
             f == [n \in Nat |-> run(n)[n]]
  <1>1. ASSUME NEW n \in Nat PROVE Runs(S, c, step, n, run(n))
    BY RunExists
  <1> HIDE DEF run
  <1>2. ASSUME NEW n \in Nat PROVE f[n] \in S
    BY <1>1 DEF Runs
  <1>3. f[0] = c
    BY <1>1 DEF Runs
  <1>4. ASSUME NEW n \in Nat PROVE f[n + 1] = step[n + 1][f[n]]
    <2>1. Runs(S, c, step, n, run(n)) /\ Runs(S, c, step, n + 1, run(n + 1))
      BY <1>1
    <2>2. run(n)[n] = run(n + 1)[n]
      BY <2>1, RunsAgree
    <2>3. run(n + 1)[n + 1] = step[n + 1][run(n + 1)[n]]
      BY <2>1 DEF Runs
    <2> QED BY <2>2, <2>3
  <1> HIDE DEF f
  <1>5. f \in [Nat -> S]
    BY <1>2 DEF f
  <1>6. Follows(S, c, step, f)
    BY <1>3, <1>4, <1>5 DEF Follows
  <1> QED BY <1>6

\* A recursive definition on the numbers, or on the numbers up to N, defines
\* a function.
LEMMA FixedPoint ==
  ASSUME NEW S, NEW c \in S, NEW step \in Steps(S),
         NEW D, D = Nat \/ \E N \in Nat : D = 0..N
  PROVE  \E f : Recursive(D, S, c, step, f)
  <1>0. PICK g : Follows(S, c, step, g)
    BY SequenceOfSteps
  <1>1. g \in [Nat -> S] /\ g[0] = c /\ \A n \in Nat : g[n + 1] = step[n + 1][g[n]]
    BY <1>0 DEF Follows
  <1>2. D \subseteq Nat /\ \A n \in D : n # 0 => n - 1 \in D /\ n - 1 \in Nat /\ (n - 1) + 1 = n
    OBVIOUS
  <1> DEFINE f == [n \in D |-> g[n]]
             h == [n \in D |-> IF n = 0 THEN c ELSE step[n][f[n - 1]]]
  <1>3. ASSUME NEW n \in D PROVE f[n] = h[n]
    <2>1. CASE n = 0
      BY <1>1, <2>1
    <2>2. CASE n # 0
      <3>1. n - 1 \in D /\ n - 1 \in Nat /\ (n - 1) + 1 = n
        BY <1>2, <2>2
      <3>2. g[n] = step[n][g[n - 1]]
        BY <1>1, <3>1
      <3> QED BY <2>2, <3>1, <3>2
    <2> QED BY <2>1, <2>2
  <1>4. f \in [D -> S] /\ f = [n \in D |-> f[n]] /\ h = [n \in D |-> h[n]]
    BY <1>1, <1>2
  <1> HIDE DEF h
  <1>5. f = h
    BY <1>3, <1>4
  <1>6. Recursive(D, S, c, step, f)
    BY <1>4, <1>5 DEF h, Recursive
  <1> QED BY <1>6

-----------------------------------------------------------------------------
(* Sequences.                                                              *)

\* Where the elements of a concatenation come from.
LEMMA ConcatAt ==
  ASSUME NEW S, NEW s \in Seq(S), NEW t \in Seq(S)
  PROVE  /\ s \o t \in Seq(S) /\ Len(s \o t) = Len(s) + Len(t)
         /\ Len(s) \in Nat /\ Len(t) \in Nat
         /\ \A i \in 1..Len(s) : (s \o t)[i] = s[i]
         /\ \A i \in 1..Len(t) : (s \o t)[Len(s) + i] = t[i]
  OBVIOUS

\* Concatenation is associative.
LEMMA ConcatRegroup ==
  ASSUME NEW S
  PROVE  \A x, y, z \in Seq(S) : (x \o y) \o z = x \o (y \o z)
  BY ConcatAssociative

\* Where those of a segment come from.
LEMMA SubSeqAt ==
  ASSUME NEW S, NEW s \in Seq(S), NEW m \in 1..Len(s) + 1, NEW n \in m - 1..Len(s)
  PROVE  /\ SubSeq(s, m, n) \in Seq(S) /\ Len(SubSeq(s, m, n)) = n - m + 1
         /\ \A i \in 1..n - m + 1 : SubSeq(s, m, n)[i] = s[m - 1 + i]
  <1>1. \A i \in m..n : s[i] \in S
    OBVIOUS
  <1>2. /\ SubSeq(s, m, n) \in Seq(S)
        /\ Len(SubSeq(s, m, n)) = IF m <= n THEN n - m + 1 ELSE 0
        /\ \A i \in 1..n - m + 1 : SubSeq(s, m, n)[i] = s[m + i - 1]
    BY <1>1, SubSeqProperties
  <1>3. \A i \in 1..n - m + 1 : m + i - 1 = m - 1 + i
    OBVIOUS
  <1>4. Len(SubSeq(s, m, n)) = n - m + 1
    BY <1>2
  <1> QED BY <1>2, <1>3, <1>4

\* A sequence that begins with b and then has w, and also begins with e and then
\* has rest, where e is no longer than b: what follows e in b, and w, is rest.
LEMMA SameTail ==
  ASSUME NEW S, NEW b \in Seq(S), NEW w \in Seq(S), NEW e \in Seq(S), NEW rest \in Seq(S),
         b \o w = e \o rest
  PROVE  /\ \A i \in 1..Len(b) : i <= Len(e) => b[i] = e[i]
         /\ Len(e) <= Len(b) => SubSeq(b, Len(e) + 1, Len(b)) \o w = rest
  <1> DEFINE x == b \o w
  <1>1. /\ x \in Seq(S) /\ Len(x) = Len(b) + Len(w)
        /\ Len(b) \in Nat /\ Len(w) \in Nat
        /\ \A i \in 1..Len(b) : x[i] = b[i]
        /\ \A i \in 1..Len(w) : x[Len(b) + i] = w[i]
    <2>1. x \in Seq(S)
      OBVIOUS
    <2>2. Len(x) = Len(b) + Len(w) /\ Len(b) \in Nat /\ Len(w) \in Nat
      OBVIOUS
    <2>3. \A i \in 1..Len(b) : x[i] = b[i]
      BY ConcatAt
    <2>4. \A i \in 1..Len(w) : x[Len(b) + i] = w[i]
      BY ConcatAt
    <2> QED BY <2>1, <2>2, <2>3, <2>4
  <1>2. /\ Len(x) = Len(e) + Len(rest)
        /\ Len(e) \in Nat /\ Len(rest) \in Nat
        /\ \A i \in 1..Len(e) : x[i] = e[i]
        /\ \A i \in 1..Len(rest) : x[Len(e) + i] = rest[i]
    BY ConcatAt
  <1> HIDE DEF x
  <1>3. ASSUME NEW i \in 1..Len(b), i <= Len(e) PROVE b[i] = e[i]
    <2>1. i \in 1..Len(e)
      BY <1>2, <1>3
    <2> QED BY <1>1, <1>2, <2>1
  <1>4. ASSUME Len(e) <= Len(b) PROVE SubSeq(b, Len(e) + 1, Len(b)) \o w = rest
    <2> DEFINE s == SubSeq(b, Len(e) + 1, Len(b))
               y == s \o w
               k == Len(e)
    <2>1. k + 1 \in 1..Len(b) + 1 /\ Len(b) \in (k + 1) - 1..Len(b)
      BY <1>1, <1>2, <1>4
    <2>2. /\ s \in Seq(S) /\ Len(s) = Len(b) - (k + 1) + 1
          /\ \A i \in 1..Len(b) - (k + 1) + 1 : s[i] = b[(k + 1) - 1 + i]
      BY <2>1, SubSeqAt
    <2> HIDE DEF s
    <2>3. /\ y \in Seq(S) /\ Len(y) = Len(s) + Len(w)
          /\ \A i \in 1..Len(s) : y[i] = s[i]
          /\ \A i \in 1..Len(w) : y[Len(s) + i] = w[i]
      <3>0. s \in Seq(S)
        BY <2>2
      <3>1. y \in Seq(S)
        BY <3>0
      <3>2. Len(y) = Len(s) + Len(w)
        BY <3>0
      <3>3. \A i \in 1..Len(s) : y[i] = s[i]
        BY <3>0, ConcatAt
      <3>4. \A i \in 1..Len(w) : y[Len(s) + i] = w[i]
        BY <3>0, ConcatAt
      <3> QED BY <3>1, <3>2, <3>3, <3>4
    <2> HIDE DEF y, k
    <2>4. k = Len(e)
      BY DEF k
    <2>5. Len(s) = Len(b) - k /\ k \in Nat /\ Len(s) \in Nat
      BY <1>1, <1>2, <1>4, <2>2, <2>4
    <2>6. Len(y) = Len(rest)
      BY <1>1, <1>2, <2>3, <2>4, <2>5
    <2>7. ASSUME NEW i \in 1..Len(y) PROVE y[i] = rest[i]
      <3>1. x[k + i] = rest[i]
        BY <1>2, <2>4, <2>6
      <3>2. CASE i <= Len(s)
        <4>1. i \in 1..Len(s) /\ i \in 1..Len(b) - (k + 1) + 1 /\ k + i \in 1..Len(b)
              /\ (k + 1) - 1 + i = k + i
          BY <1>1, <2>5, <3>2
        <4>2. s[i] = b[k + i]
          BY <2>2, <4>1
        <4> QED BY <1>1, <2>3, <3>1, <4>1, <4>2
      <3>3. CASE i > Len(s)
        <4> DEFINE j == i - Len(s)
        <4>1. j \in 1..Len(w) /\ Len(s) + j = i /\ Len(b) + j = k + i
          BY <1>1, <2>3, <2>5, <3>3
        <4> HIDE DEF j
        <4>2. y[Len(s) + j] = w[j] /\ x[Len(b) + j] = w[j]
          BY <1>1, <2>3, <4>1
        <4>3. y[i] = w[j] /\ x[k + i] = w[j]
          BY <4>1, <4>2, Zenon
        <4> QED BY <3>1, <4>3
      <3> QED BY <2>5, <3>2, <3>3
    <2>8. y = rest
      BY <2>3, <2>6, <2>7, SeqEqual
    <2> QED BY <2>8 DEF y, s
  <1> QED BY <1>3, <1>4

=============================================================================
