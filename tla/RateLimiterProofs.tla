-------------------------- MODULE RateLimiterProofs --------------------------
(***************************************************************************)
(* Proofs about RateLimiter, for every limit and every window.             *)
(*                                                                         *)
(* A key lives for Window ticks from the request that made it, or for ever *)
(* if EXPIRE was not done.  So what was let through in the last i ticks    *)
(* was let through under the current key, or under it and one before it,   *)
(* which is what WindowInv says of every i.                                *)
(***************************************************************************)
EXTENDS RateLimiter, TLAPS

\* Requests counted under the current key that can have been let through.
Counted == IF count <= MaxRequests THEN count ELSE MaxRequests

\* How many ticks old the current key is, the tick it was made in included.
Age == Window - ttl + 1

\* Without a key, the last one was full at most, and has let nothing through
\* in this tick.  With one, what was let through since it was made is counted
\* in it, and what was let through before is at most one full key more.
WindowInv ==
    \A i \in 1..Window :
        /\ count = 0 => recent[i] <= MaxRequests
        /\ count = 0 => recent[1] = 0
        /\ ttl \in 1..Window /\ i <= Age => recent[i] <= Counted
        /\ count # 0 => recent[i] <= Counted + MaxRequests

RecentType == recent \in [1..Window -> Nat]

KeyType ==
    /\ count \in 0 .. MaxRequests + 1
    /\ ttl \in 0..Window \cup {NoTtl}
    /\ count = 0 <=> ttl = 0
    /\ faulty \in BOOLEAN

LimiterInv == KeyType /\ RecentType /\ WindowInv

\* The invariant implies the types and the bound.
LEMMA InvImplies == LimiterInv => TypeOK /\ BurstBounded
  <1> SUFFICES ASSUME LimiterInv PROVE TypeOK /\ BurstBounded
    OBVIOUS
  <1>1. Counted \in 0..MaxRequests
    BY RateLimiterAssumption DEF LimiterInv, KeyType, Counted
  <1>2. ASSUME NEW i \in 1..Window PROVE recent[i] <= 2 * MaxRequests
    BY <1>1, RateLimiterAssumption DEF LimiterInv, RecentType, KeyType, WindowInv
  <1>3. Window \in 1..Window
    BY RateLimiterAssumption
  <1> QED BY <1>2, <1>3 DEF LimiterInv, KeyType, RecentType, TypeOK, BurstBounded

\* A request that is let through adds one to every window.
LEMMA AllowStep ==
  ASSUME LimiterInv, Allow
  PROVE  LimiterInv'
  <1> USE RateLimiterAssumption
  <1>1. KeyType'
    BY DEF Allow, LimiterInv, KeyType, Incremented, FirstRequest, TtlKept
  <1>2. RecentType'
    BY DEF Allow, LimiterInv, RecentType
  <1>3. WindowInv'
    <2>1. CASE count > MaxRequests \/ count = MaxRequests
      <3>1. recent' = recent /\ count' # 0 /\ count # 0 /\ ttl' = ttl /\ Counted' = Counted
        BY <2>1 DEF Allow, LimiterInv, KeyType, Incremented, FirstRequest, TtlKept, WithinLimit, Counted
      <3> QED BY <3>1 DEF LimiterInv, WindowInv, Age
    <2>2. CASE count < MaxRequests
      <3>1. Incremented = count + 1 /\ count \in Nat
        BY <2>2 DEF LimiterInv, KeyType, Incremented
      <3>2. /\ recent' = [i \in 1..Window |-> recent[i] + 1]
            /\ count' # 0 /\ Counted' = Counted + 1 /\ Counted = count
            /\ ttl' = IF count = 0 THEN Window ELSE ttl
        <4>1. count' = count + 1 /\ recent' = [i \in 1..Window |-> recent[i] + 1]
          BY <2>2, <3>1 DEF Allow, WithinLimit
        <4>2. ttl' = IF count = 0 THEN Window ELSE ttl
          BY <3>1 DEF Allow, FirstRequest, TtlKept
        <4> QED BY <2>2, <3>1, <4>1, <4>2 DEF Counted
      <3>3. ASSUME NEW i \in 1..Window
            PROVE  /\ recent'[i] = recent[i] + 1 /\ recent[i] \in Nat
                   /\ ttl' \in 1..Window /\ i <= Age' => recent'[i] <= Counted'
                   /\ recent'[i] <= Counted' + MaxRequests
        <4>1. recent'[i] = recent[i] + 1 /\ recent[i] \in Nat
          BY <3>2 DEF LimiterInv, RecentType
        <4>2. CASE count = 0
          BY <2>2, <3>2, <4>1, <4>2 DEF LimiterInv, WindowInv, KeyType, Age
        <4>3. CASE count # 0
          BY <2>2, <3>2, <4>1, <4>3 DEF LimiterInv, WindowInv, KeyType, Age
        <4> QED BY <4>1, <4>2, <4>3
      <3> QED BY <3>2, <3>3 DEF WindowInv
    <2> QED BY <2>1, <2>2 DEF LimiterInv, KeyType
  <1> QED BY <1>1, <1>2, <1>3 DEF LimiterInv

\* A request that a failing call lets through is not counted as let through.
LEMMA ThrowStep ==
  ASSUME LimiterInv, NEW done \in BOOLEAN, IncrThrows(done) \/ ExpireThrows(done)
  PROVE  LimiterInv'
  <1> USE RateLimiterAssumption
  <1>1. /\ recent' = recent /\ count' \in 0 .. MaxRequests + 1
        /\ \/ count' = count /\ ttl' = ttl
           \/ count = 0 /\ count' = 1 /\ ttl' \in {Window, NoTtl}
           \/ count # 0 /\ count' \in {count, count + 1} /\ ttl' = ttl
    <2>1. /\ count \in 0 .. MaxRequests + 1 /\ Incremented \in 0 .. MaxRequests + 1
          /\ Incremented \in {count, count + 1} /\ (count = 0 <=> Incremented = 1)
      BY DEF LimiterInv, KeyType, Incremented
    <2>2. TtlKept = IF count = 0 THEN NoTtl ELSE ttl
      BY DEF TtlKept
    <2>3. CASE IncrThrows(done)
      BY <2>1, <2>2, <2>3 DEF IncrThrows
    <2>4. CASE ExpireThrows(done)
      BY <2>1, <2>2, <2>4 DEF ExpireThrows, FirstRequest
    <2> QED BY <2>3, <2>4
  <1>2. KeyType'
    <2>1. faulty' \in BOOLEAN
      BY Zenon DEF IncrThrows, ExpireThrows, LimiterInv, KeyType
    <2>2. Window # 0 /\ NoTtl # 0
      OBVIOUS
    <2>3. ttl' \in 0..Window \cup {NoTtl} /\ (count' = 0 <=> ttl' = 0)
      BY <1>1, <2>2 DEF LimiterInv, KeyType
    <2> QED BY <1>1, <2>1, <2>3 DEF KeyType
  <1>3. WindowInv'
    <2>1. CASE count' = count /\ ttl' = ttl
      BY <1>1, <2>1 DEF LimiterInv, WindowInv, Age, Counted
    <2>2. CASE count = 0 /\ count' = 1 /\ ttl' \in {Window, NoTtl}
      <3>1. Counted' = 1
        BY <2>2 DEF Counted
      <3>2. ASSUME NEW i \in 1..Window
            PROVE  /\ ttl' \in 1..Window /\ i <= Age' => recent'[i] <= Counted'
                   /\ recent'[i] <= Counted' + MaxRequests
        <4>1. recent[i] \in Nat /\ recent[i] <= MaxRequests /\ recent[1] = 0
          BY <2>2 DEF LimiterInv, WindowInv, RecentType
        <4>2. ttl' \in 1..Window => Age' = 1
          <5>1. ASSUME ttl' \in 1..Window PROVE ttl' = Window
            <6>1. ttl' \in 0..Window
              BY <5>1
            <6> QED BY <2>2, <6>1
          <5> QED BY <5>1 DEF Age
        <4> QED BY <1>1, <3>1, <4>1, <4>2
      <3> QED BY <2>2, <3>2 DEF WindowInv
    <2>3. CASE count # 0 /\ count' \in {count, count + 1} /\ ttl' = ttl
      <3>1. count' # 0 /\ Counted' >= Counted /\ Counted \in Nat /\ Counted' \in Nat
        BY <2>3 DEF Counted, LimiterInv, KeyType
      <3>2. Age' = Age
        BY <2>3 DEF Age
      <3> QED BY <1>1, <2>3, <3>1, <3>2 DEF LimiterInv, WindowInv, RecentType
    <2> QED BY <1>1, <2>1, <2>2, <2>3
  <1> QED BY <1>2, <1>1, <1>3 DEF LimiterInv, RecentType

\* A tick shifts the windows; the key that dies of it was as old as a window.
LEMMA TickStep ==
  ASSUME LimiterInv, Tick
  PROVE  LimiterInv'
  <1> USE RateLimiterAssumption
  <1>1. KeyType'
    BY DEF Tick, LimiterInv, KeyType
  <1>2. \A i \in 1..Window : recent'[i] = IF i = 1 THEN 0 ELSE recent[i - 1]
    BY DEF Tick
  <1>3. RecentType'
    BY DEF Tick, LimiterInv, RecentType
  <1>4. Counted \in 0..MaxRequests
    BY DEF LimiterInv, KeyType, Counted
  <1>5. ASSUME NEW i \in 1..Window
        PROVE  /\ count' = 0 => recent'[i] <= MaxRequests
               /\ count' = 0 => recent'[1] = 0
               /\ ttl' \in 1..Window /\ i <= Age' => recent'[i] <= Counted'
               /\ count' # 0 => recent'[i] <= Counted' + MaxRequests
    <2>1. 1 \in 1..Window /\ recent'[1] = 0
      BY <1>2
    <2>2. CASE i = 1
      <3>1. Counted' \in Nat
        BY <1>1 DEF KeyType, Counted
      <3> QED BY <2>1, <2>2, <3>1
    <2>3. CASE i # 1
      <3>1. i - 1 \in 1..Window /\ recent'[i] = recent[i - 1] /\ recent[i - 1] \in Nat
        BY <1>2, <2>3 DEF LimiterInv, RecentType
      <3>2. CASE count = 0
        <4>1. count' = 0 /\ ttl' = 0
          BY <3>2 DEF Tick, LimiterInv, KeyType
        <4> QED BY <2>1, <3>1, <3>2, <4>1 DEF LimiterInv, WindowInv
      <3>3. CASE ttl = 1
        <4>1. count' = 0 /\ ttl' = 0 /\ i - 1 <= Age
          BY <3>3 DEF Tick, Age
        <4> QED BY <1>4, <2>1, <3>1, <3>3, <4>1 DEF LimiterInv, WindowInv
      <3>4. CASE count # 0 /\ ttl # 1
        <4>1. count' = count /\ Counted' = Counted
          BY <3>4 DEF Tick, Counted
        <4>2. ttl' \in 1..Window => ttl \in 1..Window /\ Age' = Age + 1 /\ Age \in Int
          BY <3>4 DEF Tick, LimiterInv, KeyType, Age
        <4> QED BY <3>1, <3>4, <4>1, <4>2 DEF LimiterInv, WindowInv
      <3> QED BY <3>2, <3>3, <3>4
    <2> QED BY <2>2, <2>3
  <1> QED BY <1>1, <1>3, <1>5 DEF LimiterInv, WindowInv

\* The invariant holds in every reachable state.
LEMMA LimiterInvCorrect == LimiterSpec => []LimiterInv
  <1>1. LimiterInit => LimiterInv
    <2> SUFFICES ASSUME LimiterInit PROVE LimiterInv
      OBVIOUS
    <2> USE RateLimiterAssumption DEF LimiterInit
    <2>1. KeyType
      <3>1. count \in 0 .. MaxRequests + 1 /\ ttl \in 0..Window /\ (count = 0 <=> ttl = 0)
        OBVIOUS
      <3> QED BY <3>1 DEF KeyType
    <2>2. RecentType
      BY DEF RecentType
    <2>3. 1 \in 1..Window /\ \A i \in 1..Window : recent[i] = 0
      OBVIOUS
    <2>4. ttl \notin 1..Window
      OBVIOUS
    <2> QED BY <2>1, <2>2, <2>3, <2>4 DEF LimiterInv, WindowInv
  <1>2. LimiterInv /\ [LimiterNext]_limiterVars => LimiterInv'
    <2>1. CASE UNCHANGED limiterVars
      BY <2>1 DEF limiterVars, LimiterInv, KeyType, RecentType, WindowInv, Counted, Age
    <2> QED BY <2>1, AllowStep, ThrowStep, TickStep DEF LimiterNext, Request
  <1> QED BY <1>1, <1>2, PTL DEF LimiterSpec

\* The key in Redis and the observers keep their types; the counter exists
\* exactly while it has a time to live.
THEOREM TypeCorrect == LimiterSpec => []TypeOK
  BY LimiterInvCorrect, InvImplies, PTL

\* allow() returns true for at most twice max_requests_ requests in any stretch
\* of time as long as window_, wherever it begins and whatever calls to Redis
\* failed before; requests that pass because a call threw are not counted.
THEOREM Burst == LimiterSpec => []BurstBounded
  BY LimiterInvCorrect, InvImplies, PTL

\* INCR and EXPIRE are two calls, but only a failing one leaves a counter that
\* never expires.
THEOREM Expiry == LimiterSpec => []ExpiryKept
  <1>1. LimiterInit => ExpiryKept
    BY RateLimiterAssumption DEF LimiterInit, ExpiryKept
  <1>2. LimiterInv /\ ExpiryKept /\ [LimiterNext]_limiterVars => ExpiryKept'
    <2> SUFFICES ASSUME LimiterInv, ExpiryKept, [LimiterNext]_limiterVars PROVE ExpiryKept'
      OBVIOUS
    <2>1. /\ count \in Nat /\ (count = 0 <=> Incremented = 1) /\ Window # NoTtl /\ NoTtl # 0
          /\ faulty \in BOOLEAN
      BY RateLimiterAssumption DEF LimiterInv, KeyType, Incremented
    <2>2. CASE Allow
      BY <2>1, <2>2 DEF Allow, FirstRequest, TtlKept, ExpiryKept
    <2>3. ASSUME NEW done \in BOOLEAN, IncrThrows(done) PROVE ExpiryKept'
      BY <2>1, <2>3 DEF IncrThrows, TtlKept, ExpiryKept
    <2>4. ASSUME NEW done \in BOOLEAN, ExpireThrows(done) PROVE ExpiryKept'
      BY <2>1, <2>4 DEF ExpireThrows, FirstRequest, ExpiryKept
    <2>5. CASE Tick
      BY <2>1, <2>5, RateLimiterAssumption DEF Tick, ExpiryKept, LimiterInv, KeyType
    <2>6. CASE UNCHANGED limiterVars
      BY <2>6 DEF limiterVars, ExpiryKept
    <2> QED BY <2>2, <2>3, <2>4, <2>5, <2>6 DEF LimiterNext, Request
  <1> QED BY <1>1, <1>2, LimiterInvCorrect, PTL DEF LimiterSpec

==============================================================================
