--------------------------- MODULE RoomListProofs ---------------------------
(***************************************************************************)
(* Proofs about the pages of the room list (RoomList), for any set of      *)
(* rooms, any sizes of pages and any width of the integers.                *)
(*                                                                         *)
(* The loop that collects the waiting rooms is a recursive function.  By   *)
(* induction on its turns a waiting room stands at its rank: the number of *)
(* waiting rooms up to and including it.  Ranks give the two facts that    *)
(* the theorems need: the list has no room twice, and a room's place can   *)
(* only fall when others go away.  WalkInv then says that, as long as no   *)
(* room was made, the next page begins right after what was shown and no   *)
(* room that was shown stands behind it; since the rooms shown differ,     *)
(* they are no more than there are rooms, and page * page_size cannot      *)
(* wrap.                                                                   *)
(***************************************************************************)
EXTENDS RoomList, DataLemmas

\* No two places of a sequence hold the same.
Distinct(s) == \A i, j \in 1..Len(s) : s[i] = s[j] => i = j

\* The number of waiting rooms among the first n.
Rank(rooms, open, n) == Len(WaitingUpTo(rooms, open)[n])

-----------------------------------------------------------------------------
(* The loop that collects the waiting rooms.                               *)

\* One turn of the loop.
LEMMA WaitingStep ==
  ASSUME NEW rooms \in Seq(Rooms), NEW open
  PROVE  LET W == WaitingUpTo(rooms, open)
         IN /\ W[0] = <<>>
            /\ \A n \in 0..Len(rooms) : W[n] \in Seq(Rooms)
            /\ \A n \in 1..Len(rooms) :
                  W[n] = IF rooms[n] \in open THEN Append(W[n - 1], rooms[n]) ELSE W[n - 1]
  <1> DEFINE D == 0..Len(rooms)
             S == Seq(Rooms)
             put(n, x) == IF rooms[n] \in open THEN Append(x, rooms[n]) ELSE x
             upto == CHOOSE f : f = [n \in D |-> IF n = 0 THEN <<>>
                                                 ELSE IF rooms[n] \in open
                                                      THEN Append(f[n - 1], rooms[n])
                                                      ELSE f[n - 1]]
  <1>1. WaitingUpTo(rooms, open) = upto
    BY DEF WaitingUpTo
  <1>2. ASSUME NEW n \in 1..Len(rooms), NEW x \in S PROVE put(n, x) \in S
    OBVIOUS
  <1>3. <<>> \in S /\ Len(rooms) \in Nat
    OBVIOUS
  <1>4. upto = CHOOSE f : f = [n \in D |-> IF n = 0 THEN <<>> ELSE put(n, f[n - 1])]
    OBVIOUS
  <1> HIDE DEF S, put, upto
  <1>5. /\ upto[0] = <<>>
        /\ \A n \in 0..Len(rooms) : upto[n] \in S
        /\ \A n \in 1..Len(rooms) : upto[n] = put(n, upto[n - 1])
    <2> DEFINE step == [n \in Nat |-> [x \in S |-> IF n \in 1..Len(rooms) THEN put(n, x) ELSE x]]
    <2>1. step \in Steps(S)
      BY <1>2 DEF Steps
    <2>2. \A n \in 1..Len(rooms), x \in S : step[n][x] = put(n, x)
      OBVIOUS
    <2> HIDE DEF step
    <2>3. PICK f : Recursive(D, S, <<>>, step, f)
      BY <1>3, <2>1, FixedPoint
    <2>4. f \in [D -> S] /\ f = [n \in D |-> IF n = 0 THEN <<>> ELSE step[n][f[n - 1]]]
      BY <2>3 DEF Recursive
    <2>5. \A n \in D : n # 0 => n \in 1..Len(rooms) /\ n - 1 \in D
      BY <1>3
    <2>6. \A n \in D : n # 0 => step[n][f[n - 1]] = put(n, f[n - 1])
      BY <2>2, <2>4, <2>5
    <2>7. f = [n \in D |-> IF n = 0 THEN <<>> ELSE put(n, f[n - 1])]
      BY <2>4, <2>6
    <2>8. upto = [n \in D |-> IF n = 0 THEN <<>> ELSE put(n, upto[n - 1])]
      BY <1>4, <2>7, Zenon
    <2> DEFINE T == {n \in Nat : n <= Len(rooms) => upto[n] \in S}
    <2>9. upto[0] = <<>> /\ \A n \in 1..Len(rooms) : upto[n] = put(n, upto[n - 1])
      <3>1. 0 \in D /\ \A n \in 1..Len(rooms) : n \in D /\ n # 0
        BY <1>3
      <3> HIDE DEF D
      <3>2. \A n \in D : upto[n] = IF n = 0 THEN <<>> ELSE put(n, upto[n - 1])
        BY <2>8, Zenon
      <3> QED BY <3>1, <3>2
    <2>10. 0 \in T /\ \A n \in Nat : n \in T => n + 1 \in T
      <3>1. ASSUME NEW n \in Nat, n + 1 <= Len(rooms), upto[n] \in S PROVE upto[n + 1] \in S
        <4>1. n + 1 \in 1..Len(rooms) /\ (n + 1) - 1 = n
          BY <1>3, <3>1
        <4> QED BY <1>2, <2>9, <3>1, <4>1
      <3>2. \A n \in Nat : n + 1 <= Len(rooms) => n <= Len(rooms)
        BY <1>3
      <3> QED BY <1>3, <2>9, <3>1, <3>2
    <2> HIDE DEF T
    <2>11. Nat \subseteq T
      BY <2>10, Induction
    <2>12. \A n \in 0..Len(rooms) : upto[n] \in S
      BY <1>3, <2>11 DEF T
    <2> QED BY <2>9, <2>12
  <1> QED BY <1>1, <1>5 DEF S, put

\* The same turn, seen in the number of rooms collected so far.
LEMMA RankStep ==
  ASSUME NEW rooms \in Seq(Rooms), NEW open
  PROVE  /\ Rank(rooms, open, 0) = 0
         /\ \A n \in 0..Len(rooms) : Rank(rooms, open, n) \in Nat
         /\ \A n \in 1..Len(rooms) :
               Rank(rooms, open, n) =
                  IF rooms[n] \in open THEN Rank(rooms, open, n - 1) + 1
                  ELSE Rank(rooms, open, n - 1)
  <1> DEFINE W == WaitingUpTo(rooms, open)
  <1>1. /\ W[0] = <<>>
        /\ \A n \in 0..Len(rooms) : W[n] \in Seq(Rooms)
        /\ \A n \in 1..Len(rooms) :
              W[n] = IF rooms[n] \in open THEN Append(W[n - 1], rooms[n]) ELSE W[n - 1]
    BY WaitingStep
  <1>2. \A n : Rank(rooms, open, n) = Len(W[n])
    BY DEF Rank
  <1> HIDE DEF W
  <1>3. \A n \in 0..Len(rooms) : Len(W[n]) \in Nat
    BY <1>1
  <1>4. ASSUME NEW n \in 1..Len(rooms)
        PROVE  Len(W[n]) = IF rooms[n] \in open THEN Len(W[n - 1]) + 1 ELSE Len(W[n - 1])
    <2>1. n - 1 \in 0..Len(rooms)
      OBVIOUS
    <2>2. W[n - 1] \in Seq(Rooms) /\ rooms[n] \in Rooms
      BY <1>1, <2>1
    <2>3. W[n] = IF rooms[n] \in open THEN Append(W[n - 1], rooms[n]) ELSE W[n - 1]
      BY <1>1
    <2> QED BY <2>2, <2>3
  <1>5. Len(W[0]) = 0
    BY <1>1
  <1> QED BY <1>2, <1>3, <1>4, <1>5

\* What the loop has collected after n rooms: every waiting one of them, at the
\* place that its rank gives, and nothing else.
Collected(rooms, open, n) ==
    /\ Rank(rooms, open, n) <= n
    /\ \A i \in 0..n : Rank(rooms, open, i) <= Rank(rooms, open, n)
    /\ \A i \in 1..n : rooms[i] \in open =>
          /\ Rank(rooms, open, i) >= 1
          /\ WaitingUpTo(rooms, open)[n][Rank(rooms, open, i)] = rooms[i]
    /\ \A k \in 1..Rank(rooms, open, n) :
          \E i \in 1..n : rooms[i] \in open /\ Rank(rooms, open, i) = k

\* It is so after every turn.
LEMMA CollectedAlways ==
  ASSUME NEW rooms \in Seq(Rooms), NEW open
  PROVE  \A n \in 0..Len(rooms) : Collected(rooms, open, n)
  <1> DEFINE W == WaitingUpTo(rooms, open)
             R(n) == Rank(rooms, open, n)
             T == {n \in Nat : n <= Len(rooms) => Collected(rooms, open, n)}
  <1>1. /\ R(0) = 0
        /\ \A n \in 0..Len(rooms) : R(n) \in Nat
        /\ \A n \in 1..Len(rooms) : R(n) = IF rooms[n] \in open THEN R(n - 1) + 1 ELSE R(n - 1)
    BY RankStep
  <1>2. /\ \A n \in 0..Len(rooms) : W[n] \in Seq(Rooms)
        /\ \A n \in 1..Len(rooms) :
              W[n] = IF rooms[n] \in open THEN Append(W[n - 1], rooms[n]) ELSE W[n - 1]
    BY WaitingStep
  <1>3. \A n : Len(W[n]) = R(n)
    BY DEF Rank
  <1>4. \A n : Collected(rooms, open, n) <=>
                 /\ R(n) <= n
                 /\ \A i \in 0..n : R(i) <= R(n)
                 /\ \A i \in 1..n : rooms[i] \in open => R(i) >= 1 /\ W[n][R(i)] = rooms[i]
                 /\ \A k \in 1..R(n) : \E i \in 1..n : rooms[i] \in open /\ R(i) = k
    BY DEF Collected
  <1>5. Len(rooms) \in Nat
    OBVIOUS
  <1> HIDE DEF W, R
  <1>6. 0 \in T
    BY <1>1, <1>4
  <1>7. ASSUME NEW n \in Nat, n + 1 <= Len(rooms), Collected(rooms, open, n)
        PROVE  Collected(rooms, open, n + 1)
    <2>1. /\ n \in 0..Len(rooms) /\ n + 1 \in 1..Len(rooms) /\ n + 1 \in 0..Len(rooms)
          /\ (n + 1) - 1 = n
      BY <1>5, <1>7
    <2>2. /\ R(n) \in Nat /\ R(n + 1) \in Nat /\ rooms[n + 1] \in Rooms
          /\ W[n] \in Seq(Rooms) /\ Len(W[n]) = R(n)
          /\ R(n + 1) = IF rooms[n + 1] \in open THEN R(n) + 1 ELSE R(n)
          /\ W[n + 1] = IF rooms[n + 1] \in open THEN Append(W[n], rooms[n + 1]) ELSE W[n]
      BY <1>1, <1>2, <1>3, <2>1
    <2>3. /\ R(n) <= n
          /\ \A i \in 0..n : R(i) <= R(n)
          /\ \A i \in 1..n : rooms[i] \in open => R(i) >= 1 /\ W[n][R(i)] = rooms[i]
          /\ \A k \in 1..R(n) : \E i \in 1..n : rooms[i] \in open /\ R(i) = k
      BY <1>4, <1>7
    <2>4. \A i \in 0..n : R(i) \in Nat
      BY <1>1, <2>1
    <2>5. \A i \in 1..n : i \in 0..n
      OBVIOUS
    <2>6. CASE rooms[n + 1] \in open
      <3>1. R(n + 1) = R(n) + 1 /\ W[n + 1] = Append(W[n], rooms[n + 1])
        BY <2>2, <2>6
      <3>2. /\ \A k \in 1..R(n) : W[n + 1][k] = W[n][k]
            /\ W[n + 1][R(n) + 1] = rooms[n + 1]
        <4>1. Append(W[n], rooms[n + 1]) \in Seq(Rooms)
          BY <2>2
        <4> QED BY <2>2, <3>1, AppendProperties
      <3>3. R(n + 1) <= n + 1
        BY <2>2, <2>3, <3>1
      <3>4. \A i \in 0..n + 1 : R(i) <= R(n + 1)
        BY <2>2, <2>3, <2>4, <3>1
      <3>5. ASSUME NEW i \in 1..n + 1, rooms[i] \in open
            PROVE  R(i) >= 1 /\ W[n + 1][R(i)] = rooms[i]
        <4>1. CASE i = n + 1
          BY <2>2, <3>1, <3>2, <4>1
        <4>2. CASE i # n + 1
          <5>1. i \in 1..n /\ i \in 0..n
            BY <4>2
          <5>2. R(i) >= 1 /\ W[n][R(i)] = rooms[i] /\ R(i) <= R(n) /\ R(i) \in Nat
            BY <2>3, <2>4, <3>5, <5>1
          <5>3. R(i) \in 1..R(n)
            BY <2>2, <5>2
          <5> QED BY <3>2, <5>2, <5>3
        <4> QED BY <4>1, <4>2
      <3>6. ASSUME NEW k \in 1..R(n + 1)
            PROVE  \E i \in 1..n + 1 : rooms[i] \in open /\ R(i) = k
        <4>1. CASE k = R(n + 1)
          <5>1. n + 1 \in 1..n + 1
            OBVIOUS
          <5> QED BY <2>6, <4>1, <5>1
        <4>2. CASE k # R(n + 1)
          <5>1. k \in 1..R(n)
            BY <2>2, <3>1, <4>2
          <5>2. PICK i \in 1..n : rooms[i] \in open /\ R(i) = k
            BY <2>3, <5>1
          <5>3. i \in 1..n + 1
            OBVIOUS
          <5> QED BY <5>2, <5>3
        <4> QED BY <4>1, <4>2
      <3> QED BY <1>4, <3>3, <3>4, <3>5, <3>6
    <2>7. CASE rooms[n + 1] \notin open
      <3>1. R(n + 1) = R(n) /\ W[n + 1] = W[n]
        BY <2>2, <2>7
      <3>2. R(n + 1) <= n + 1
        BY <2>2, <2>3, <3>1
      <3>3. \A i \in 0..n + 1 : R(i) <= R(n + 1)
        BY <2>2, <2>3, <2>4, <3>1
      <3>4. ASSUME NEW i \in 1..n + 1, rooms[i] \in open
            PROVE  R(i) >= 1 /\ W[n + 1][R(i)] = rooms[i]
        <4>1. i \in 1..n
          BY <2>7, <3>4
        <4> QED BY <2>3, <3>1, <3>4, <4>1
      <3>5. ASSUME NEW k \in 1..R(n + 1)
            PROVE  \E i \in 1..n + 1 : rooms[i] \in open /\ R(i) = k
        <4>1. PICK i \in 1..n : rooms[i] \in open /\ R(i) = k
          BY <2>3, <3>1
        <4>2. i \in 1..n + 1
          OBVIOUS
        <4> QED BY <4>1, <4>2
      <3> QED BY <1>4, <3>2, <3>3, <3>4, <3>5
    <2> QED BY <2>6, <2>7
  <1>8. \A n \in Nat : n \in T => n + 1 \in T
    <2>1. \A n \in Nat : n + 1 <= Len(rooms) => n <= Len(rooms)
      BY <1>5
    <2> QED BY <1>7, <2>1
  <1> HIDE DEF T
  <1>9. Nat \subseteq T
    BY <1>6, <1>8, Induction
  <1> QED BY <1>5, <1>9 DEF T

\* The waiting rooms, and where each of them is.
Listed(rooms, open, w) ==
    /\ w \in Seq(Rooms) /\ Len(w) = Rank(rooms, open, Len(rooms))
    /\ \A i \in 1..Len(rooms) : rooms[i] \in open =>
          Rank(rooms, open, i) \in 1..Len(w) /\ w[Rank(rooms, open, i)] = rooms[i]
    /\ \A k \in 1..Len(w) : \E i \in 1..Len(rooms) :
          rooms[i] \in open /\ Rank(rooms, open, i) = k /\ w[k] = rooms[i]

\* The loop lists the waiting rooms.
LEMMA WaitingListed ==
  ASSUME NEW rooms \in Seq(Rooms), NEW open
  PROVE  LET w == WaitingUpTo(rooms, open)[Len(rooms)]
         IN /\ Listed(rooms, open, w) /\ Len(w) <= Len(rooms)
            /\ Distinct(rooms) => Distinct(w)
  <1> DEFINE n == Len(rooms)
             w == WaitingUpTo(rooms, open)[n]
             R(i) == Rank(rooms, open, i)
  <1>1. n \in Nat /\ n \in 0..n /\ \A i \in 1..n : i \in 0..n
    OBVIOUS
  <1>2. Collected(rooms, open, n)
    BY <1>1, CollectedAlways
  <1>3. \A i \in 0..n : R(i) \in Nat
    BY RankStep
  <1>4. w \in Seq(Rooms)
    BY <1>1, WaitingStep
  <1>5. Len(w) = R(n)
    BY DEF Rank
  <1>6. /\ R(n) <= n
        /\ \A i \in 0..n : R(i) <= R(n)
        /\ \A i \in 1..n : rooms[i] \in open => R(i) >= 1 /\ w[R(i)] = rooms[i]
        /\ \A k \in 1..R(n) : \E i \in 1..n : rooms[i] \in open /\ R(i) = k
    BY <1>2 DEF Collected
  <1> HIDE DEF w, R
  <1>7. ASSUME NEW i \in 1..n, rooms[i] \in open
        PROVE  R(i) \in 1..Len(w) /\ w[R(i)] = rooms[i]
    BY <1>1, <1>3, <1>5, <1>6, <1>7
  <1>8. ASSUME NEW k \in 1..Len(w)
        PROVE  \E i \in 1..n : rooms[i] \in open /\ R(i) = k /\ w[k] = rooms[i]
    BY <1>5, <1>6
  <1>9. Listed(rooms, open, w)
    BY <1>4, <1>5, <1>7, <1>8 DEF Listed, R
  <1>10. ASSUME Distinct(rooms), NEW k \in 1..Len(w), NEW l \in 1..Len(w), w[k] = w[l]
         PROVE  k = l
    <2>1. PICK i \in 1..n : R(i) = k /\ w[k] = rooms[i]
      BY <1>8
    <2>2. PICK j \in 1..n : R(j) = l /\ w[l] = rooms[j]
      BY <1>8
    <2>3. i = j
      BY <1>10, <2>1, <2>2 DEF Distinct
    <2> QED BY <2>1, <2>2, <2>3
  <1>11. Distinct(rooms) => Distinct(w)
    BY <1>10 DEF Distinct
  <1> QED BY <1>5, <1>6, <1>9, <1>11 DEF w

\* No room is further back in w than it was in v.
NoLater(w, v) == \A k \in 1..Len(w) : \E l \in 1..Len(v) : l >= k /\ v[l] = w[k]

\* rooms are some of the rooms more, in the same order, at the places from.
Thinned(rooms, more, from) ==
    /\ from \in [1..Len(rooms) -> 1..Len(more)]
    /\ \A n \in 1..Len(rooms) : rooms[n] = more[from[n]]
    /\ \A n \in 1..Len(rooms) : n + 1 <= Len(rooms) => from[n] < from[n + 1]

\* Rooms that leave the list, or that are no longer waiting, let the others
\* move to the front.
LEMMA ThinnedNoLater ==
  ASSUME NEW rooms \in Seq(Rooms), NEW more \in Seq(Rooms), NEW open, NEW wide,
         open \subseteq wide, NEW from, Thinned(rooms, more, from)
  PROVE  NoLater(WaitingUpTo(rooms, open)[Len(rooms)], WaitingUpTo(more, wide)[Len(more)])
  <1> DEFINE w == WaitingUpTo(rooms, open)[Len(rooms)]
             v == WaitingUpTo(more, wide)[Len(more)]
             R(n) == Rank(rooms, open, n)
             M(n) == Rank(more, wide, n)
             T == {n \in Nat : n >= 1 /\ n <= Len(rooms) => R(n) <= M(from[n])}
  <1>1. /\ R(0) = 0
        /\ \A n \in 0..Len(rooms) : R(n) \in Nat
        /\ \A n \in 1..Len(rooms) : R(n) = IF rooms[n] \in open THEN R(n - 1) + 1 ELSE R(n - 1)
    BY RankStep
  <1>2. /\ \A n \in 0..Len(more) : M(n) \in Nat
        /\ \A n \in 1..Len(more) : M(n) = IF more[n] \in wide THEN M(n - 1) + 1 ELSE M(n - 1)
    BY RankStep
  <1>3. \A n \in 0..Len(more) : \A i \in 0..n : M(i) <= M(n)
    BY CollectedAlways DEF Collected
  <1>4. Len(rooms) \in Nat /\ Len(more) \in Nat
    OBVIOUS
  <1>5. /\ from \in [1..Len(rooms) -> 1..Len(more)]
        /\ \A n \in 1..Len(rooms) : rooms[n] = more[from[n]]
        /\ \A n \in 1..Len(rooms) : n + 1 <= Len(rooms) => from[n] < from[n + 1]
    BY DEF Thinned
  <1>6. Listed(rooms, open, w) /\ Listed(more, wide, v)
    BY WaitingListed
  <1>7. /\ \A k \in 1..Len(w) : \E i \in 1..Len(rooms) :
               rooms[i] \in open /\ R(i) = k /\ w[k] = rooms[i]
        /\ \A i \in 1..Len(more) : more[i] \in wide =>
               M(i) \in 1..Len(v) /\ v[M(i)] = more[i]
    BY <1>6 DEF Listed
  <1> HIDE DEF w, v, R, M
  <1>8. 0 \in T
    OBVIOUS
  <1>9. ASSUME NEW n \in Nat, n + 1 <= Len(rooms), n >= 1 => R(n) <= M(from[n])
        PROVE  R(n + 1) <= M(from[n + 1])
    <2> DEFINE f == from[n + 1]
    <2>1. n + 1 \in 1..Len(rooms) /\ n \in 0..Len(rooms) /\ (n + 1) - 1 = n
      BY <1>4, <1>9
    <2>2. f \in 1..Len(more) /\ rooms[n + 1] = more[f]
      BY <1>5, <2>1
    <2> HIDE DEF f
    <2>3. f - 1 \in 0..Len(more) /\ f \in 0..Len(more)
      BY <1>4, <2>2
    <2>4. /\ R(n) \in Nat /\ M(f - 1) \in Nat /\ M(f) \in Nat
          /\ R(n + 1) = IF rooms[n + 1] \in open THEN R(n) + 1 ELSE R(n)
          /\ M(f) = IF more[f] \in wide THEN M(f - 1) + 1 ELSE M(f - 1)
      BY <1>1, <1>2, <2>1, <2>2, <2>3
    <2>5. R(n) <= M(f - 1)
      <3>1. CASE n = 0
        BY <1>1, <2>4, <3>1
      <3>2. CASE n # 0
        <4>1. n \in 1..Len(rooms) /\ n >= 1
          BY <2>1, <3>2
        <4>2. from[n] \in 1..Len(more) /\ from[n] < f
          BY <1>5, <1>9, <4>1 DEF f
        <4>3. from[n] \in 0..f - 1 /\ from[n] \in 0..Len(more)
          BY <1>4, <2>2, <4>2
        <4>4. M(from[n]) <= M(f - 1) /\ M(from[n]) \in Nat
          BY <1>2, <1>3, <2>3, <4>3
        <4> QED BY <1>9, <2>4, <4>1, <4>4
      <3> QED BY <3>1, <3>2
    <2>6. rooms[n + 1] \in open => more[f] \in wide
      BY <2>2
    <2>7. R(n + 1) <= M(f)
      BY <2>4, <2>5, <2>6
    <2> QED BY <2>7 DEF f
  <1>10. \A n \in Nat : n \in T => n + 1 \in T
    <2>1. \A n \in Nat : n + 1 <= Len(rooms) => n <= Len(rooms)
      BY <1>4
    <2> QED BY <1>9, <2>1
  <1> HIDE DEF T
  <1>11. Nat \subseteq T
    BY <1>8, <1>10, Induction
  <1>12. \A n \in 1..Len(rooms) : R(n) <= M(from[n])
    BY <1>4, <1>11 DEF T
  <1>13. ASSUME NEW k \in 1..Len(w) PROVE \E l \in 1..Len(v) : l >= k /\ v[l] = w[k]
    <2>1. PICK i \in 1..Len(rooms) : rooms[i] \in open /\ R(i) = k /\ w[k] = rooms[i]
      BY <1>7
    <2>2. from[i] \in 1..Len(more) /\ rooms[i] = more[from[i]] /\ more[from[i]] \in wide
      BY <1>5, <2>1
    <2>3. M(from[i]) \in 1..Len(v) /\ v[M(from[i])] = w[k] /\ M(from[i]) >= k
      BY <1>7, <1>12, <2>1, <2>2
    <2> QED BY <2>3
  <1> QED BY <1>13 DEF NoLater, w, v

\* A list without one of its rooms.
LEMMA Removed ==
  ASSUME NEW rooms \in Seq(Rooms), Distinct(rooms), NEW e \in 1..Len(rooms)
  PROVE  LET fewer == RemoveAt(rooms, e)
         IN /\ fewer \in Seq(Rooms) /\ Distinct(fewer)
            /\ \E from : Thinned(fewer, rooms, from)
  <1> DEFINE a == SubSeq(rooms, 1, e - 1)
             b == SubSeq(rooms, e + 1, Len(rooms))
             fewer == a \o b
             from == [n \in 1..Len(rooms) - 1 |-> IF n < e THEN n ELSE n + 1]
  <1>1. RemoveAt(rooms, e) = fewer
    BY DEF RemoveAt
  <1>2. Len(rooms) \in Nat /\ e \in Nat /\ e >= 1 /\ e <= Len(rooms)
    OBVIOUS
  <1>3. /\ a \in Seq(Rooms) /\ Len(a) = e - 1
        /\ \A i \in 1..e - 1 : a[i] = rooms[i]
    <2>1. 1 \in 1..Len(rooms) + 1 /\ e - 1 \in 1 - 1..Len(rooms)
      BY <1>2
    <2>2. /\ a \in Seq(Rooms) /\ Len(a) = e - 1 - 1 + 1
          /\ \A i \in 1..e - 1 - 1 + 1 : a[i] = rooms[1 - 1 + i]
      BY <1>2, <2>1, SubSeqAt
    <2>3. e - 1 - 1 + 1 = e - 1 /\ \A i \in 1..e - 1 : 1 - 1 + i = i
      BY <1>2
    <2> HIDE DEF a
    <2> QED BY <2>2, <2>3
  <1>4. /\ b \in Seq(Rooms) /\ Len(b) = Len(rooms) - e
        /\ \A i \in 1..Len(rooms) - e : b[i] = rooms[e + i]
    <2>1. e + 1 \in 1..Len(rooms) + 1 /\ Len(rooms) \in (e + 1) - 1..Len(rooms)
      BY <1>2
    <2>2. /\ b \in Seq(Rooms) /\ Len(b) = Len(rooms) - (e + 1) + 1
          /\ \A i \in 1..Len(rooms) - (e + 1) + 1 : b[i] = rooms[(e + 1) - 1 + i]
      BY <1>2, <2>1, SubSeqAt
    <2>3. /\ Len(rooms) - (e + 1) + 1 = Len(rooms) - e
          /\ \A i \in 1..Len(rooms) - e : (e + 1) - 1 + i = e + i
      BY <1>2
    <2> HIDE DEF b
    <2> QED BY <2>2, <2>3
  <1> HIDE DEF a, b
  <1>5. /\ fewer \in Seq(Rooms) /\ Len(fewer) = Len(a) + Len(b)
        /\ \A i \in 1..Len(a) : fewer[i] = a[i]
        /\ \A i \in 1..Len(b) : fewer[Len(a) + i] = b[i]
    <2>1. a \in Seq(Rooms) /\ b \in Seq(Rooms)
      BY <1>3, <1>4
    <2>2. /\ a \o b \in Seq(Rooms) /\ Len(a \o b) = Len(a) + Len(b)
          /\ \A i \in 1..Len(a) : (a \o b)[i] = a[i]
      BY <2>1, ConcatAt
    <2>3. \A i \in 1..Len(b) : (a \o b)[Len(a) + i] = b[i]
      BY <2>1, ConcatAt
    <2> QED BY <2>2, <2>3
  <1> HIDE DEF fewer
  <1>6. Len(fewer) = Len(rooms) - 1
    BY <1>2, <1>3, <1>4, <1>5
  <1>7. ASSUME NEW n \in 1..Len(fewer)
        PROVE  from[n] \in 1..Len(rooms) /\ fewer[n] = rooms[from[n]]
    <2>1. CASE n < e
      <3>1. from[n] = n /\ n \in 1..Len(rooms) /\ n \in 1..e - 1
        BY <1>2, <1>6, <2>1
      <3> QED BY <1>3, <1>5, <3>1
    <2>2. CASE n >= e
      <3> DEFINE j == n - (e - 1)
      <3>1. from[n] = n + 1 /\ n + 1 \in 1..Len(rooms)
        BY <1>2, <1>6, <2>2
      <3>2. j \in 1..Len(rooms) - e /\ (e - 1) + j = n /\ e + j = n + 1
        BY <1>2, <1>6, <2>2
      <3> HIDE DEF j
      <3>3. fewer[(e - 1) + j] = rooms[e + j]
        BY <1>3, <1>4, <1>5, <3>2
      <3> QED BY <3>1, <3>2, <3>3
    <2> QED BY <1>2, <1>6, <2>1, <2>2
  <1>8. \A n \in 1..Len(fewer) : n + 1 <= Len(fewer) => from[n] < from[n + 1]
    BY <1>2, <1>6
  <1>9. \A m, n \in 1..Len(fewer) : from[m] = from[n] => m = n
    BY <1>2, <1>6
  <1>10. from \in [1..Len(fewer) -> 1..Len(rooms)]
    <2>1. from = [n \in 1..Len(fewer) |-> IF n < e THEN n ELSE n + 1]
      BY <1>6
    <2>2. \A n \in 1..Len(fewer) : (IF n < e THEN n ELSE n + 1) \in 1..Len(rooms)
      BY <1>2, <1>6
    <2> QED BY <2>1, <2>2
  <1> HIDE DEF from
  <1>11. Thinned(fewer, rooms, from)
    BY <1>7, <1>8, <1>10 DEF Thinned
  <1>12. Distinct(fewer)
    <2> SUFFICES ASSUME NEW m \in 1..Len(fewer), NEW n \in 1..Len(fewer),
                        fewer[m] = fewer[n]
                 PROVE  m = n
      BY Zenon DEF Distinct
    <2>1. /\ from[m] \in 1..Len(rooms) /\ fewer[m] = rooms[from[m]]
          /\ from[n] \in 1..Len(rooms) /\ fewer[n] = rooms[from[n]]
      BY Zenon, <1>7
    <2>2. from[m] = from[n]
      BY Zenon, <2>1 DEF Distinct
    <2> QED BY Zenon, <1>9, <2>2
  <1> QED BY <1>1, <1>5, <1>11, <1>12

\* Every list is some of its own rooms.
LEMMA ThinnedSelf ==
  ASSUME NEW rooms \in Seq(Rooms)
  PROVE  Thinned(rooms, rooms, [n \in 1..Len(rooms) |-> n])
  BY DEF Thinned

\* A list without repetition is no longer than there are rooms.
LEMMA DistinctLength ==
  ASSUME NEW s \in Seq(Rooms), Distinct(s)
  PROVE  Len(s) <= Cardinality(Rooms) /\ Cardinality(Rooms) \in Nat
  <1>1. IsFiniteSet(Rooms)
    BY RoomListAssumption
  <1>2. s \in [1..Len(s) -> Rooms] /\ Len(s) \in Nat
    OBVIOUS
  <1>3. s \in Injection(1..Len(s), Rooms)
    BY <1>2 DEF Distinct, Injection, IsInjective
  <1>4. Cardinality(1..Len(s)) <= Cardinality(Rooms)
    BY <1>1, <1>3, FS_Injection
  <1>5. Cardinality(1..Len(s)) = Len(s)
    <2>1. Cardinality(1..Len(s)) = IF 1 > Len(s) THEN 0 ELSE Len(s) - 1 + 1
      <3>1. 1 \in Int /\ Len(s) \in Int
        BY <1>2
      <3> HIDE <1>3
      <3> QED BY <3>1, FS_Interval
    <2> QED BY <1>2, <2>1
  <1>6. Cardinality(Rooms) \in Nat
    BY <1>1, FS_CardinalityType
  <1> QED BY <1>4, <1>5, <1>6

-----------------------------------------------------------------------------
(* The arithmetic of pages.                                                *)

\* Division with remainder.
LEMMA Division ==
  ASSUME NEW i \in Nat, NEW size \in Nat \ {0}
  PROVE  /\ i \div size \in Nat /\ i % size \in 0 .. size - 1
         /\ i = size * (i \div size) + (i % size)
  <1>1. i % size \in 0 .. size - 1
    OBVIOUS
  <1>2. i \div size \in Nat
    OBVIOUS
  <1>3. i = size * (i \div size) + (i % size)
    OBVIOUS
  <1> QED BY <1>1, <1>2, <1>3

\* A greater quotient makes a greater number.
LEMMA QuotientLess ==
  ASSUME NEW size \in Nat \ {0}, NEW p \in Nat, NEW q \in Nat, p < q,
         NEW r \in 0 .. size - 1, NEW t \in Nat
  PROVE  size * p + r < size * q + t
  <1>1. PICK d \in Nat : q = p + 1 + d
    <2>1. q - p - 1 \in Nat /\ q = p + 1 + (q - p - 1)
      OBVIOUS
    <2> QED BY <2>1
  <1>2. size * q = size * p + size + size * d
    BY <1>1
  <1>3. size * d \in Nat /\ size * p \in Nat
    OBVIOUS
  <1> QED BY <1>2, <1>3

\* Quotient and remainder are unique.
LEMMA QuotientUnique ==
  ASSUME NEW i \in Nat, NEW size \in Nat \ {0}, NEW p \in Nat, NEW r \in 0 .. size - 1,
         i = size * p + r
  PROVE  i \div size = p /\ i % size = r
  <1> DEFINE q == i \div size
             t == i % size
  <1>1. q \in Nat /\ t \in 0 .. size - 1 /\ i = size * q + t
    BY Division
  <1> HIDE DEF q, t
  <1>2. r \in Nat /\ t \in Nat
    BY <1>1
  <1>3. size * q + t = size * p + r
    BY <1>1
  <1>4. size * q \in Nat /\ size * p \in Nat
    BY <1>1
  <1>5. ~(p < q)
    <2> SUFFICES ASSUME p < q PROVE FALSE
      OBVIOUS
    <2>1. size * p + r < size * q + t
      BY <1>1, <1>2, QuotientLess
    <2> QED BY <1>2, <1>3, <1>4, <2>1
  <1>6. ~(q < p)
    <2> SUFFICES ASSUME q < p PROVE FALSE
      OBVIOUS
    <2>1. size * q + t < size * p + r
      BY <1>1, <1>2, QuotientLess
    <2> QED BY <1>2, <1>3, <1>4, <2>1
  <1>7. q = p
    BY <1>1, <1>5, <1>6
  <1>8. t = r
    BY <1>2, <1>3, <1>4, <1>7
  <1> QED BY <1>7, <1>8 DEF q, t

\* Integers that fit are not cut.
LEMMA NotCut ==
  ASSUME NEW n \in Nat, n < Modulus
  PROVE  n % Modulus = n
  BY RoomListAssumption

\* The size of a page.
LEMMA SizeType ==
  ASSUME NEW page_size \in UInt
  PROVE  PageSize(page_size) \in Nat \ {0} /\ PageSize(page_size) <= MaxPageSize
  <1>1. /\ Modulus \in Nat /\ DefaultPageSize \in UInt \ {0} /\ MaxPageSize \in UInt \ {0}
        /\ DefaultPageSize <= MaxPageSize
    BY RoomListAssumption
  <1> QED BY <1>1 DEF PageSize, UInt

-----------------------------------------------------------------------------
(* What a page shows.                                                      *)

\* reply is the part of w after the first offset rooms, cut to size.
Page(w, offset, size, reply) ==
    /\ reply \in Seq(Rooms) /\ Len(reply) <= size
    /\ \A k \in 1..size : k <= Len(reply) <=> offset + k <= Len(w)
    /\ \A k \in 1..Len(reply) : offset + k \in 1..Len(w) /\ reply[k] = w[offset + k]

\* The number of rooms that the loop visits, as long as there are fewer rooms
\* than integers by a page.
LEMMA IndicesCount ==
  ASSUME NEW offset \in Nat, NEW size \in Nat \ {0}, NEW total \in Nat,
         total + size < Modulus
  PROVE  Cardinality(Indices(offset, size, total)) =
            IF total <= offset THEN 0
            ELSE IF total < offset + size THEN total - offset ELSE size
  <1> DEFINE S == Indices(offset, size, total)
  <1>1. S = {i \in offset .. total - 1 : i < (offset + size) % Modulus}
    BY DEF Indices
  <1> HIDE DEF S
  <1>2. CASE total <= offset
    <2>1. S = {}
      BY <1>1, <1>2
    <2>2. Cardinality(S) = 0
      BY <2>1, FS_EmptySet
    <2> QED BY <1>2, <2>2 DEF S
  <1>3. CASE offset < total
    <2> DEFINE last == IF total < offset + size THEN total - 1 ELSE offset + size - 1
    <2>0. Modulus \in Nat
      BY RoomListAssumption
    <2>1. offset + size \in Nat /\ offset + size < Modulus
      BY <1>3, <2>0
    <2>2. (offset + size) % Modulus = offset + size
      BY <2>1, NotCut
    <2>3. S = offset .. last
      BY <1>1, <2>2
    <2>4. last \in Int /\ offset \in Int /\ offset <= last
      BY <1>3
    <2> HIDE DEF last
    <2>5. Cardinality(offset .. last) = IF offset > last THEN 0 ELSE last - offset + 1
      BY <2>4, FS_Interval
    <2>6. Cardinality(S) = last - offset + 1
      BY <2>3, <2>4, <2>5
    <2>7. last - offset + 1 = IF total < offset + size THEN total - offset ELSE size
      BY DEF last
    <2> QED BY <1>3, <2>6, <2>7 DEF S
  <1> QED BY <1>2, <1>3

\* A reply is a page, also when the product of page and size does not fit.
LEMMA ReplyIsPage ==
  ASSUME NEW page \in UInt, NEW page_size \in UInt,
         waiting_rooms \in Seq(Rooms), Len(waiting_rooms) <= Cardinality(Rooms)
  PROVE  Page(waiting_rooms, Offset(page, PageSize(page_size)), PageSize(page_size),
              Reply(page, page_size))
  <1> DEFINE w == waiting_rooms
             size == PageSize(page_size)
             offset == Offset(page, size)
             c == Cardinality(Indices(offset, size, Len(w)))
             reply == [k \in 1..c |-> w[offset + k]]
  <1>1. Reply(page, page_size) = reply
    BY DEF Reply
  <1>2. size \in Nat \ {0} /\ size <= MaxPageSize
    BY SizeType
  <1>3. page \in Nat /\ Modulus \in Nat /\ Modulus > 0
    BY RoomListAssumption DEF UInt
  <1>4. offset \in Nat
    <2>1. page * size \in Nat
      BY <1>2, <1>3
    <2>2. \A n \in Nat : n % Modulus \in Nat
      BY <1>3
    <2> QED BY <2>1, <2>2 DEF Offset
  <1>5. w \in Seq(Rooms) /\ Len(w) \in Nat
    OBVIOUS
  <1>6. Len(w) + size < Modulus
    <2>1. /\ Cardinality(Rooms) + MaxPageSize < Modulus /\ Modulus \in Nat
          /\ MaxPageSize \in Nat
      BY RoomListAssumption DEF UInt
    <2>2. Cardinality(Rooms) \in Nat
      BY RoomListAssumption, FS_CardinalityType
    <2>3. Len(w) <= Cardinality(Rooms)
      OBVIOUS
    <2> HIDE DEF w, size
    <2> QED BY <1>2, <1>5, <2>1, <2>2, <2>3
  <1> HIDE DEF offset, size, w
  <1>7. c = IF Len(w) <= offset THEN 0
            ELSE IF Len(w) < offset + size THEN Len(w) - offset ELSE size
    BY <1>2, <1>4, <1>5, <1>6, IndicesCount
  <1> HIDE DEF c
  <1>8. /\ c \in Nat /\ c <= size
        /\ \A k \in 1..size : k <= c <=> offset + k <= Len(w)
        /\ \A k \in 1..c : offset + k \in 1..Len(w)
    BY <1>2, <1>4, <1>5, <1>7
  <1>9. \A k \in 1..c : w[offset + k] \in Rooms
    BY <1>5, <1>8
  <1>10. /\ reply \in Seq(Rooms) /\ Len(reply) = c
         /\ \A k \in 1..c : reply[k] = w[offset + k]
    BY <1>8, <1>9
  <1> HIDE DEF reply
  <1>11. Page(w, offset, size, reply)
    BY <1>8, <1>10 DEF Page
  <1> QED BY <1>1, <1>11 DEF w, offset, size

-----------------------------------------------------------------------------
(* The list and the walk of a client.                                      *)

\* How many rooms a client has been shown that has had every page in full.
Shown(w) == w.page * PageSize(w.page_size)

\* A room that was shown and is still waiting is not behind the rooms shown.
Passed(w, shown) ==
    \A k \in 1..Len(w), i \in 1..Len(shown) : w[k] = shown[i] => k <= Len(shown)

ListInv ==
    /\ order \in Seq(Rooms) /\ Distinct(order)
    /\ walk \in [page : UInt, page_size : UInt, over : BOOLEAN]
    /\ seen \in Seq(Rooms)

\* While no room is made, the pages that are still to come begin right after
\* what was shown, and nothing that was shown is there.
WalkInv ==
    "added" \notin changes =>
        /\ Distinct(seen)
        /\ ~walk.over => Len(seen) = Shown(walk)
        /\ Passed(waiting_rooms, seen)

\* The waiting rooms are listed once each.
LEMMA WaitingType ==
  ASSUME ListInv
  PROVE  /\ waiting_rooms \in Seq(Rooms) /\ Distinct(waiting_rooms)
         /\ Len(waiting_rooms) <= Cardinality(Rooms)
  <1>1. order \in Seq(Rooms) /\ Distinct(order)
    BY DEF ListInv
  <1>2. Listed(order, waiting, waiting_rooms) /\ Distinct(waiting_rooms)
    BY <1>1, WaitingListed DEF waiting_rooms
  <1>3. waiting_rooms \in Seq(Rooms)
    BY <1>2 DEF Listed
  <1> QED BY <1>2, <1>3, DistinctLength

\* Rooms that go away leave the rooms shown behind.
LEMMA PassedNoLater ==
  ASSUME NEW w \in Seq(Rooms), NEW v \in Seq(Rooms), NEW shown \in Seq(Rooms),
         NoLater(w, v), Passed(v, shown)
  PROVE  Passed(w, shown)
  <1> SUFFICES ASSUME NEW k \in 1..Len(w), NEW i \in 1..Len(shown), w[k] = shown[i]
               PROVE  k <= Len(shown)
    BY DEF Passed
  <1>1. PICK l \in 1..Len(v) : l >= k /\ v[l] = w[k]
    BY DEF NoLater
  <1>2. l <= Len(shown)
    BY <1>1 DEF Passed
  <1>3. Len(shown) \in Nat
    OBVIOUS
  <1> QED BY <1>1, <1>2, <1>3

\* A page after the rooms shown.
LEMMA NextPage ==
  ASSUME NEW w \in Seq(Rooms), Distinct(w), NEW shown \in Seq(Rooms), Distinct(shown),
         Passed(w, shown), NEW size \in Nat \ {0}, NEW reply, Page(w, Len(shown), size, reply)
  PROVE  /\ shown \o reply \in Seq(Rooms) /\ Distinct(shown \o reply)
         /\ Passed(w, shown \o reply)
         /\ Len(shown \o reply) = Len(shown) + Len(reply)
         /\ Len(reply) \in Nat /\ Len(reply) <= size
  <1> DEFINE L == Len(shown)
             all == shown \o reply
  <1>1. L \in Nat /\ Len(w) \in Nat
    OBVIOUS
  <1>2. /\ reply \in Seq(Rooms) /\ Len(reply) \in Nat /\ Len(reply) <= size
        /\ \A k \in 1..Len(reply) : L + k \in 1..Len(w) /\ reply[k] = w[L + k]
    BY DEF Page
  <1>3. /\ all \in Seq(Rooms) /\ Len(all) = L + Len(reply)
        /\ \A i \in 1..L : all[i] = shown[i]
        /\ \A i \in 1..Len(reply) : all[L + i] = reply[i]
    <2>1. all \in Seq(Rooms) /\ Len(all) = L + Len(reply)
      BY <1>2, ConcatAt
    <2>2. \A i \in 1..L : all[i] = shown[i]
      BY <1>2, ConcatAt
    <2>3. \A i \in 1..Len(reply) : all[L + i] = reply[i]
      BY <1>2, ConcatAt
    <2> QED BY <2>1, <2>2, <2>3
  <1> HIDE DEF all, L
  <1>4. ASSUME NEW i \in 1..Len(all), i > L
        PROVE  i \in 1..Len(w) /\ all[i] = w[i]
    <2> DEFINE k == i - L
    <2>1. k \in 1..Len(reply) /\ L + k = i
      BY <1>1, <1>2, <1>3, <1>4
    <2> HIDE DEF k
    <2> QED BY <1>2, <1>3, <2>1
  <1>5. \A k \in 1..Len(w), i \in 1..L : w[k] = shown[i] => k <= L
    BY DEF Passed, L
  <1>6. \A i \in 1..Len(all) : i <= L => i \in 1..L /\ all[i] = shown[i]
    BY <1>1, <1>3
  <1>7. \A i, j \in 1..L : shown[i] = shown[j] => i = j
    BY DEF Distinct, L
  <1>8. \A i, j \in 1..Len(w) : w[i] = w[j] => i = j
    BY DEF Distinct
  <1>9. ASSUME NEW i \in 1..Len(all), NEW j \in 1..Len(all), all[i] = all[j] PROVE i = j
    <2>1. i \in Int /\ j \in Int
      OBVIOUS
    <2>2. CASE i <= L /\ j <= L
      BY <1>6, <1>7, <1>9, <2>2
    <2>3. CASE i > L /\ j > L
      BY <1>4, <1>8, <1>9, <2>3
    <2>4. CASE i <= L /\ j > L
      <3>1. i \in 1..L /\ all[i] = shown[i] /\ j \in 1..Len(w) /\ all[j] = w[j]
        BY <1>4, <1>6, <2>4
      <3>2. j <= L
        BY <1>5, <1>9, <3>1
      <3> QED BY <1>1, <2>1, <2>4, <3>2
    <2>5. CASE i > L /\ j <= L
      <3>1. j \in 1..L /\ all[j] = shown[j] /\ i \in 1..Len(w) /\ all[i] = w[i]
        BY <1>4, <1>6, <2>5
      <3>2. i <= L
        BY <1>5, <1>9, <3>1
      <3> QED BY <1>1, <2>1, <2>5, <3>2
    <2> QED BY <1>1, <2>1, <2>2, <2>3, <2>4, <2>5
  <1>10. ASSUME NEW k \in 1..Len(w), NEW i \in 1..Len(all), w[k] = all[i]
         PROVE  k <= Len(all)
    <2>1. CASE i <= L
      <3>1. i \in 1..L /\ all[i] = shown[i]
        BY <1>6, <2>1
      <3>2. k <= L
        BY <1>5, <1>10, <3>1
      <3> QED BY <1>1, <1>2, <1>3, <3>2
    <2>2. CASE i > L
      <3>1. k = i
        BY <1>4, <1>8, <1>10, <2>2
      <3> QED BY <1>2, <3>1
    <2> QED BY <1>1, <2>1, <2>2
  <1>11. Distinct(all) /\ Passed(w, all)
    BY <1>9, <1>10 DEF Distinct, Passed
  <1> QED BY <1>2, <1>3, <1>11 DEF all, L

\* In the beginning there is no room and nothing was shown.
LEMMA ListInit == Init => ListInv /\ WalkInv
  <1> SUFFICES ASSUME Init PROVE ListInv /\ WalkInv
    OBVIOUS
  <1>1. /\ order = <<>> /\ seen = <<>>
        /\ walk \in [page : {0}, page_size : UInt, over : {FALSE}]
    BY DEF Init
  <1>2. 0 \in UInt
    BY RoomListAssumption DEF UInt
  <1>3. walk \in [page : UInt, page_size : UInt, over : BOOLEAN] /\ walk.page = 0
    BY <1>1, <1>2
  <1>4. Distinct(<<>>) /\ <<>> \in Seq(Rooms) /\ Len(<<>>) = 0
    BY DEF Distinct
  <1>5. ListInv
    BY <1>1, <1>3, <1>4 DEF ListInv
  <1>6. Shown(walk) = 0
    <2> DEFINE size == PageSize(walk.page_size)
    <2>1. size \in Nat
      BY <1>3, SizeType
    <2> HIDE DEF size
    <2>2. 0 * size = 0
      BY <2>1
    <2> QED BY <1>3, <2>2 DEF Shown, size
  <1>7. Passed(waiting_rooms, <<>>)
    BY DEF Passed
  <1>8. WalkInv
    BY <1>1, <1>4, <1>6, <1>7 DEF WalkInv
  <1> QED BY <1>5, <1>8

\* Rooms go away, in the list or from those that wait.
LEMMA GoneStep ==
  ASSUME ListInv, WalkInv, order' \in Seq(Rooms), Distinct(order'),
         NEW from, Thinned(order', order, from), waiting' \subseteq waiting,
         changes \subseteq changes', UNCHANGED <<walk, seen>>
  PROVE  ListInv' /\ WalkInv'
  <1>1. walk' = walk /\ seen' = seen
    OBVIOUS
  <1>2. ListInv'
    BY <1>1 DEF ListInv
  <1>3. order \in Seq(Rooms) /\ seen \in Seq(Rooms)
    BY DEF ListInv
  <1>4. waiting_rooms' = WaitingUpTo(order', waiting')[Len(order')]
    BY DEF waiting_rooms
  <1>5. NoLater(waiting_rooms', waiting_rooms)
    <2>1. NoLater(WaitingUpTo(order', waiting')[Len(order')],
                  WaitingUpTo(order, waiting)[Len(order)])
      BY <1>3, ThinnedNoLater
    <2> QED BY <1>4, <2>1 DEF waiting_rooms
  <1>6. waiting_rooms \in Seq(Rooms)
    BY WaitingType
  <1>7. waiting_rooms' \in Seq(Rooms)
    BY <1>4, WaitingListed DEF Listed
  <1>8. ASSUME "added" \notin changes'
        PROVE  /\ Distinct(seen') /\ (~walk'.over => Len(seen') = Shown(walk'))
               /\ Passed(waiting_rooms', seen')
    <2>1. "added" \notin changes
      BY <1>8
    <2>2. /\ Distinct(seen) /\ (~walk.over => Len(seen) = Shown(walk))
          /\ Passed(waiting_rooms, seen)
      BY <2>1 DEF WalkInv
    <2>3. Passed(waiting_rooms', seen)
      BY <1>3, <1>5, <1>6, <1>7, <2>2, PassedNoLater
    <2> QED BY <1>1, <2>2, <2>3
  <1> QED BY <1>2, <1>8 DEF WalkInv

\* The client gets a page.
LEMMA RequestStep ==
  ASSUME ListInv, WalkInv, RoomListRequest
  PROVE  ListInv' /\ WalkInv'
  <1> DEFINE reply == Reply(walk.page, walk.page_size)
             size == PageSize(walk.page_size)
             w == waiting_rooms
  <1>1. /\ ~walk.over /\ walk.page + 1 \in UInt /\ seen' = seen \o reply
        /\ walk' = [walk EXCEPT !.page = @ + 1, !.over = Len(reply) < size]
        /\ order' = order /\ waiting' = waiting /\ changes' = changes
    BY DEF RoomListRequest
  <1>2. /\ order \in Seq(Rooms) /\ Distinct(order) /\ seen \in Seq(Rooms)
        /\ walk \in [page : UInt, page_size : UInt, over : BOOLEAN]
    BY DEF ListInv
  <1>3. walk.page \in UInt /\ walk.page_size \in UInt
    BY <1>2
  <1>4. w \in Seq(Rooms) /\ Distinct(w) /\ Len(w) <= Cardinality(Rooms)
    BY WaitingType
  <1>5. size \in Nat \ {0} /\ size <= MaxPageSize /\ walk.page \in Nat
    BY <1>3, SizeType, RoomListAssumption DEF UInt
  <1>6. Page(w, Offset(walk.page, size), size, reply)
    BY <1>3, <1>4, ReplyIsPage
  <1>7. reply \in Seq(Rooms)
    BY <1>6 DEF Page
  <1> HIDE DEF reply, size
  <1>8. /\ walk' \in [page : UInt, page_size : UInt, over : BOOLEAN]
        /\ walk'.page = walk.page + 1 /\ walk'.page_size = walk.page_size
        /\ walk'.over = (Len(reply) < size)
    <2>1. (Len(reply) < size) \in BOOLEAN
      OBVIOUS
    <2> QED BY <1>1, <1>2, <2>1
  <1>9. seen' \in Seq(Rooms)
    BY <1>1, <1>2, <1>7
  <1>10. ListInv'
    BY <1>1, <1>2, <1>8, <1>9 DEF ListInv
  <1>11. waiting_rooms' = w
    BY <1>1 DEF waiting_rooms
  <1> HIDE DEF w
  <1>12. ASSUME "added" \notin changes
         PROVE  /\ Distinct(seen') /\ (~walk'.over => Len(seen') = Shown(walk'))
                /\ Passed(w, seen')
    <2>1. Distinct(seen) /\ Len(seen) = Shown(walk) /\ Passed(w, seen)
      BY <1>1, <1>12 DEF WalkInv, w
    <2>2. Offset(walk.page, size) = Len(seen)
      <3>1. Len(seen) \in Nat /\ Len(seen) <= Cardinality(Rooms) /\ Cardinality(Rooms) \in Nat
        BY <1>2, <2>1, DistinctLength
      <3>2. Len(seen) < Modulus
        BY <3>1, RoomListAssumption DEF UInt
      <3>3. Len(seen) % Modulus = Len(seen)
        BY <3>1, <3>2, NotCut
      <3>4. Offset(walk.page, size) = Shown(walk) % Modulus
        BY DEF Offset, Shown, size
      <3> QED BY <2>1, <3>3, <3>4
    <2>3. Page(w, Len(seen), size, reply)
      BY <1>6, <2>2
    <2>4. /\ Distinct(seen') /\ Passed(w, seen')
          /\ Len(seen') = Len(seen) + Len(reply)
          /\ Len(reply) \in Nat /\ Len(reply) <= size
      <3>1. /\ w \in Seq(Rooms) /\ Distinct(w) /\ seen \in Seq(Rooms) /\ Distinct(seen)
            /\ Passed(w, seen) /\ size \in Nat \ {0}
        BY <1>2, <1>4, <1>5, <2>1
      <3>2. /\ Distinct(seen \o reply) /\ Passed(w, seen \o reply)
            /\ Len(seen \o reply) = Len(seen) + Len(reply)
            /\ Len(reply) \in Nat /\ Len(reply) <= size
        BY <2>3, <3>1, NextPage
      <3> QED BY <1>1, <3>2
    <2>5. ASSUME ~walk'.over PROVE Len(seen') = Shown(walk')
      <3>1. Len(reply) = size
        BY <1>5, <1>8, <2>4, <2>5
      <3>2. Shown(walk') = (walk.page + 1) * size
        BY <1>8 DEF Shown, size
      <3>3. Shown(walk) = walk.page * size
        BY DEF Shown, size
      <3>4. \A p, s \in Nat : (p + 1) * s = p * s + s
        OBVIOUS
      <3>5. (walk.page + 1) * size = walk.page * size + size
        BY <1>5, <3>4
      <3> QED BY <2>1, <2>4, <3>1, <3>2, <3>3, <3>5
    <2> QED BY <2>4, <2>5
  <1>13. WalkInv'
    BY <1>1, <1>11, <1>12 DEF WalkInv
  <1> QED BY <1>10, <1>13

\* A room is made: the map may leave any order.
LEMMA AddStep ==
  ASSUME ListInv, NEW r \in Rooms, Add(r)
  PROVE  ListInv' /\ WalkInv'
  <1> DEFINE S == ToSet(order) \cup {r}
  <1>1. order' \in SetToSeqs(S) /\ changes' = changes \cup {"added"}
        /\ walk' = walk /\ seen' = seen
    BY DEF Add
  <1>2. order \in Seq(Rooms)
    BY DEF ListInv
  <1>3. S \subseteq Rooms
    BY <1>2 DEF ToSet
  <1>4. Cardinality(S) \in Nat
    BY <1>3, RoomListAssumption, FS_Subset, FS_CardinalityType
  <1> HIDE DEF S
  <1>5. /\ order' \in [1..Cardinality(S) -> S]
        /\ \A i, j \in 1..Cardinality(S) : i # j => order'[i] # order'[j]
    BY <1>1 DEF SetToSeqs
  <1>6. order' \in Seq(Rooms) /\ Len(order') = Cardinality(S)
    BY <1>3, <1>4, <1>5
  <1>7. Distinct(order')
    BY <1>5, <1>6 DEF Distinct
  <1> QED BY <1>1, <1>6, <1>7 DEF ListInv, WalkInv

\* Every step keeps the account.
LEMMA ListKept == ListInv /\ WalkInv /\ [Next]_vars => ListInv' /\ WalkInv'
  <1> SUFFICES ASSUME ListInv, WalkInv, [Next]_vars PROVE ListInv' /\ WalkInv'
    OBVIOUS
  <1>1. order \in Seq(Rooms) /\ Distinct(order)
    BY DEF ListInv
  <1>2. ASSUME NEW r \in Rooms, Add(r) PROVE ListInv' /\ WalkInv'
    BY <1>2, AddStep
  <1>3. ASSUME NEW r \in Rooms, StartGame(r) PROVE ListInv' /\ WalkInv'
    <2>1. /\ order' = order /\ waiting' \subseteq waiting /\ changes \subseteq changes'
          /\ UNCHANGED <<walk, seen>>
      BY <1>3 DEF StartGame
    <2>2. Thinned(order', order, [n \in 1..Len(order) |-> n])
      BY <1>1, <2>1, ThinnedSelf
    <2> QED BY <1>1, <2>1, <2>2, GoneStep
  <1>4. ASSUME NEW r \in Rooms, Erase(r) PROVE ListInv' /\ WalkInv'
    <2>1. /\ waiting' \subseteq waiting /\ changes \subseteq changes'
          /\ UNCHANGED <<walk, seen>>
      BY <1>4 DEF Erase
    <2>2. PICK i \in 1..Len(order) : order' = RemoveAt(order, i)
      BY <1>4 DEF Erase
    <2>3. /\ order' \in Seq(Rooms) /\ Distinct(order')
          /\ \E from : Thinned(order', order, from)
      BY <1>1, <2>2, Removed
    <2>4. PICK from : Thinned(order', order, from)
      BY <2>3
    <2> QED BY <2>1, <2>3, <2>4, GoneStep
  <1>5. CASE RoomListRequest
    BY <1>5, RequestStep
  <1>6. ASSUME NEW page_size \in UInt, Restart(page_size) PROVE ListInv' /\ WalkInv'
    <2>1. /\ walk' = [page |-> 0, page_size |-> page_size, over |-> FALSE]
          /\ seen' = <<>> /\ order' = order
      BY <1>6 DEF Restart
    <2>2. 0 \in UInt
      BY RoomListAssumption DEF UInt
    <2>3. /\ walk' \in [page : UInt, page_size : UInt, over : BOOLEAN]
          /\ walk'.page = 0 /\ walk'.page_size = page_size
      BY <2>1, <2>2
    <2>4. Distinct(<<>>) /\ <<>> \in Seq(Rooms) /\ Len(<<>>) = 0
      BY DEF Distinct
    <2>5. ListInv'
      BY <1>1, <2>1, <2>3, <2>4 DEF ListInv
    <2>6. Shown(walk') = 0
      <3> DEFINE size == PageSize(page_size)
      <3>1. size \in Nat
        BY SizeType
      <3> HIDE DEF size
      <3>2. 0 * size = 0
        BY <3>1
      <3> QED BY <2>3, <3>2 DEF Shown, size
    <2>7. Passed(waiting_rooms', <<>>)
      BY DEF Passed
    <2>8. WalkInv'
      BY <2>1, <2>4, <2>6, <2>7 DEF WalkInv
    <2> QED BY <2>5, <2>8
  <1>7. CASE UNCHANGED vars
    <2>1. /\ order' = order /\ waiting' = waiting /\ walk' = walk /\ seen' = seen
          /\ changes' = changes
      BY <1>7 DEF vars
    <2>2. waiting_rooms' = waiting_rooms
      BY <2>1 DEF waiting_rooms
    <2> QED BY <2>1, <2>2 DEF ListInv, WalkInv
  <1> QED BY <1>2, <1>3, <1>4, <1>5, <1>6, <1>7 DEF Next

\* The account holds in every reachable state.
LEMMA ListAlways == Spec => [](ListInv /\ WalkInv)
  BY ListInit, ListKept, PTL DEF Spec

-----------------------------------------------------------------------------
(* The theorems.                                                           *)

\* handleRoomListRequest: every waiting room is on exactly one page, at its
\* place, and a page shows nothing else, for every page and size whose product
\* fits, every width of the integers and any number of rooms below their limit.
THEOREM PagesExact == Spec => []PagesPartition
  <1>1. ListInv => PagesPartition
    <2> SUFFICES ASSUME ListInv, NEW page \in UInt, NEW page_size \in UInt,
                        page * PageSize(page_size) < Modulus
                 PROVE  LET size  == PageSize(page_size)
                            reply == Reply(page, page_size)
                        IN /\ \A i \in 0 .. Len(waiting_rooms) - 1 :
                                 i \div size = page =>
                                     /\ i % size < Len(reply)
                                     /\ reply[(i % size) + 1] = waiting_rooms[i + 1]
                           /\ \A k \in 1..Len(reply) :
                                 \E i \in 0 .. Len(waiting_rooms) - 1 :
                                     /\ i \div size = page /\ i % size = k - 1
                                     /\ reply[k] = waiting_rooms[i + 1]
      BY DEF PagesPartition
    <2> DEFINE w == waiting_rooms
               size == PageSize(page_size)
               reply == Reply(page, page_size)
               p == size * page
    <2>1. w \in Seq(Rooms) /\ Len(w) \in Nat /\ Len(w) <= Cardinality(Rooms)
      BY WaitingType
    <2>2. size \in Nat \ {0} /\ page \in Nat
      BY SizeType, RoomListAssumption DEF UInt
    <2>3. p = page * size /\ p \in Nat
      BY <2>2
    <2>4. Offset(page, size) = p
      BY <2>3, NotCut DEF Offset
    <2>5. Page(w, Offset(page, size), size, reply)
      BY <2>1, ReplyIsPage
    <2> HIDE DEF w, size, reply
    <2>6. /\ Len(reply) \in Nat /\ Len(reply) <= size
          /\ \A k \in 1..size : k <= Len(reply) <=> p + k <= Len(w)
          /\ \A k \in 1..Len(reply) : p + k \in 1..Len(w) /\ reply[k] = w[p + k]
      BY <2>4, <2>5 DEF Page
    <2>7. ASSUME NEW i \in 0 .. Len(w) - 1, i \div size = page
          PROVE  i % size < Len(reply) /\ reply[(i % size) + 1] = w[i + 1]
      <3> DEFINE r == i % size
      <3>1. i \in Nat /\ i + 1 <= Len(w)
        BY <2>1
      <3>2. r \in 0 .. size - 1 /\ i = p + r
        BY <2>2, <2>7, <3>1, Division
      <3> HIDE DEF r, p
      <3>3. r + 1 \in 1..size /\ p + (r + 1) = i + 1
        BY <2>2, <2>3, <3>2
      <3>4. r + 1 <= Len(reply)
        BY <2>6, <3>1, <3>3
      <3>5. r + 1 \in 1..Len(reply) /\ r < Len(reply)
        BY <2>6, <3>2, <3>4
      <3>6. reply[r + 1] = w[i + 1]
        BY <2>6, <3>3, <3>5
      <3> QED BY <3>5, <3>6 DEF r
    <2>8. ASSUME NEW k \in 1..Len(reply)
          PROVE  \E i \in 0 .. Len(w) - 1 : /\ i \div size = page /\ i % size = k - 1
                                            /\ reply[k] = w[i + 1]
      <3> DEFINE i == p + (k - 1)
      <3>1. k - 1 \in 0 .. size - 1 /\ k \in Nat
        BY <2>2, <2>6
      <3>2. i \in Nat /\ i + 1 = p + k /\ i = size * page + (k - 1)
        BY <2>3, <3>1
      <3>3. p + k \in 1..Len(w) /\ reply[k] = w[p + k]
        BY <2>6
      <3> HIDE DEF i, p
      <3>4. i \div size = page /\ i % size = k - 1
        BY <2>2, <3>1, <3>2, QuotientUnique
      <3>5. i \in 0 .. Len(w) - 1 /\ reply[k] = w[i + 1]
        BY <2>1, <3>2, <3>3
      <3> QED BY <3>4, <3>5
    <2> QED BY <2>7, <2>8 DEF w, size, reply
  <1> QED BY <1>1, ListAlways, PTL

\* A client that walks through the pages is shown no room twice, whatever rooms
\* start their game or are erased between its requests, as long as none is
\* made: those that stay can only move towards the pages it has had.
THEOREM WalkRepeatsNothing == Spec => []NoneTwice
  <1>1. WalkInv => NoneTwice
    BY DEF WalkInv, NoneTwice, Distinct
  <1> QED BY <1>1, ListAlways, PTL

\* broadcastRoomListToLobby sends what a request for page 0 without a size
\* gets, if the two sizes agree (both are 20 in the code, as two literals).
THEOREM BroadcastIsPage ==
    Spec => [](LobbyBroadcastPageSize = DefaultPageSize => BroadcastIsFirstPage)
  <1>1. ListInv => (LobbyBroadcastPageSize = DefaultPageSize => BroadcastIsFirstPage)
    <2> SUFFICES ASSUME ListInv, LobbyBroadcastPageSize = DefaultPageSize
                 PROVE  LobbyPage = Reply(0, 0)
      BY DEF BroadcastIsFirstPage
    <2> DEFINE w == waiting_rooms
               size == DefaultPageSize
               reply == Reply(0, 0)
               count == IF Len(w) < size THEN Len(w) ELSE size
               cut == SubSeq(w, 1, count)
    <2>1. w \in Seq(Rooms) /\ Len(w) \in Nat /\ Len(w) <= Cardinality(Rooms)
      BY WaitingType
    <2>2. 0 \in UInt /\ PageSize(0) = size /\ size \in Nat \ {0}
      BY RoomListAssumption DEF UInt, PageSize
    <2>3. Offset(0, size) = 0
      <3>1. 0 * size = 0
        BY <2>2
      <3>2. 0 % Modulus = 0
        BY NotCut, RoomListAssumption DEF UInt
      <3> QED BY <3>1, <3>2 DEF Offset
    <2>4. Page(w, Offset(0, size), size, reply)
      BY <2>1, <2>2, ReplyIsPage
    <2>5. LobbyPage = cut
      BY DEF LobbyPage
    <2> HIDE DEF w, size, reply
    <2>6. /\ reply \in Seq(Rooms) /\ Len(reply) \in Nat /\ Len(reply) <= size
          /\ \A k \in 1..size : k <= Len(reply) <=> k <= Len(w)
          /\ \A k \in 1..Len(reply) : k \in 1..Len(w) /\ reply[k] = w[k]
      BY <2>2, <2>3, <2>4 DEF Page
    <2>7. count \in 0..Len(w)
      BY <2>1, <2>2
    <2>8. Len(reply) = count
      <3>1. CASE Len(reply) = 0
        <4>1. 1 \in 1..size
          BY <2>2
        <4> QED BY <2>1, <2>2, <2>6, <3>1, <4>1
      <3>2. CASE Len(reply) > 0
        <4>1. Len(reply) \in 1..Len(reply)
          BY <2>6, <3>2
        <4>2. Len(reply) <= Len(w) /\ Len(reply) <= count
          BY <2>1, <2>6, <4>1
        <4>3. count \in 1..size /\ count <= Len(w)
          BY <2>1, <2>2, <2>6, <3>2, <4>2
        <4>4. count <= Len(reply)
          BY <2>6, <4>3
        <4> QED BY <2>1, <2>2, <2>6, <4>2, <4>4
      <3> QED BY <2>6, <3>1, <3>2
    <2> HIDE DEF count
    <2>9. cut \in Seq(Rooms) /\ Len(cut) = count /\ \A i \in 1..count : cut[i] = w[i]
      <3>1. 1 \in 1..Len(w) + 1 /\ count \in 1 - 1..Len(w)
        BY <2>1, <2>7
      <3>2. /\ cut \in Seq(Rooms) /\ Len(cut) = count - 1 + 1
            /\ \A i \in 1..count - 1 + 1 : cut[i] = w[1 - 1 + i]
        BY <2>1, <3>1, SubSeqAt
      <3>3. count - 1 + 1 = count /\ \A i \in 1..count : 1 - 1 + i = i
        BY <2>7
      <3> HIDE DEF cut
      <3> QED BY <3>2, <3>3
    <2> HIDE DEF cut
    <2>10. cut = reply
      BY <2>6, <2>8, <2>9, SeqEqual
    <2> QED BY <2>5, <2>10 DEF reply
  <1> QED BY <1>1, ListAlways, PTL

=============================================================================
