----------------------------- MODULE RateLimiter -----------------------------
(***************************************************************************)
(* The fixed window rate limiter (class RateLimiter) and its two callers,  *)
(* for one identifier: the address of a client of the room server, or the  *)
(* id of a player of the chat server.  The state is one Redis key: a       *)
(* counter and its time to live, in ticks of the clock.                    *)
(*                                                                         *)
(* INCR and EXPIRE are two calls.  Either can fail without having been     *)
(* done, or be done and have its answer lost; both throw, and the callers  *)
(* then let the request pass.  Counts above the limit are not told apart.  *)
(***************************************************************************)
EXTENDS Integers

CONSTANTS MaxRequests,  \* max_requests_
          Window,       \* window_, in ticks
          NoTtl         \* the time to live of a key that does not expire

ASSUME RateLimiterAssumption ==
    /\ MaxRequests \in Nat \ {0}
    /\ Window \in Nat \ {0}
    /\ NoTtl \notin 0..Window

VARIABLES count,    \* the counter in Redis; 0 when there is no key
          ttl,      \* its time to live; 0 when there is no key
          faulty,   \* observer: a call failed when this key was made
          recent    \* observer: requests allowed in the last i ticks, this one
                    \* included, for every i up to the window

limiterVars == <<count, ttl, faulty, recent>>

TypeOK ==
    /\ count \in 0 .. MaxRequests + 1
    /\ ttl \in 0..Window \cup {NoTtl}
    /\ count = 0 <=> ttl = 0
    /\ faulty \in BOOLEAN
    /\ recent \in [1..Window -> Nat]

LimiterInit ==
    /\ count = 0
    /\ ttl = 0
    /\ faulty = FALSE
    /\ recent = [i \in 1..Window |-> 0]

\* The key once INCR is done; a key that INCR makes does not expire.
Incremented == IF count <= MaxRequests THEN count + 1 ELSE count
TtlKept == IF count = 0 THEN NoTtl ELSE ttl

\* Mutant: every request begins the window again.
FirstRequestAlways == TRUE

\* Mutant: the count is compared as it was before INCR.
FirstRequestBefore == count = 1

\* The counter is 1 after INCR.
FirstRequest == Incremented = 1

\* Mutant: the request after the last one passes too.
WithinLimitOrNext(n) == n <= MaxRequests + 1

WithinLimit(n) == n <= MaxRequests

\* allow() returns.  A refused client of the room server is closed and a
\* refused message of the chat server answered with an error; neither
\* touches the key.
Allow ==
    /\ count' = Incremented
    /\ ttl' = IF FirstRequest THEN Window ELSE TtlKept
    /\ recent' = IF WithinLimit(Incremented) THEN [i \in 1..Window |-> recent[i] + 1]
                                             ELSE recent
    /\ UNCHANGED faulty

\* INCR throws: if it was done, a key it made has no time to live.
IncrThrows(done) ==
    /\ count' = IF done THEN Incremented ELSE count
    /\ ttl' = IF done THEN TtlKept ELSE ttl
    /\ faulty' = (faulty \/ (done /\ count = 0))
    /\ UNCHANGED recent

\* EXPIRE throws.
ExpireThrows(done) ==
    /\ FirstRequest
    /\ count' = Incremented
    /\ ttl' = IF done THEN Window ELSE TtlKept
    /\ faulty' = ~done
    /\ UNCHANGED recent

\* Mutant: the key outlives its time.
TickKeepingKey ==
    /\ ttl' = IF ttl \in 1..Window THEN ttl - 1 ELSE ttl
    /\ recent' = [i \in 1..Window |-> IF i = 1 THEN 0 ELSE recent[i - 1]]
    /\ UNCHANGED <<count, faulty>>

\* The clock of Redis: a key whose time is over is gone.
Tick ==
    /\ ttl' = IF ttl \in 1..Window THEN ttl - 1 ELSE ttl
    /\ count' = IF ttl = 1 THEN 0 ELSE count
    /\ recent' = [i \in 1..Window |-> IF i = 1 THEN 0 ELSE recent[i - 1]]
    /\ UNCHANGED faulty

Request == Allow \/ \E done \in BOOLEAN : IncrThrows(done) \/ ExpireThrows(done)

LimiterNext == Request \/ Tick

\* Time passes; nobody has to make requests.
LimiterSpec == LimiterInit /\ [][LimiterNext]_limiterVars /\ WF_limiterVars(Tick)

-----------------------------------------------------------------------------
(* Properties.                                                             *)

\* Over any stretch of time as long as the window, and not only over those
\* that begin with a key, at most twice the limit is let through; requests
\* that pass because a call to Redis threw are not counted.
BurstBounded == recent[Window] <= 2 * MaxRequests

\* A counter lives for ever only if a call failed when it was made: no order
\* of requests and expiries loses the time to live of a key.
ExpiryKept == ttl = NoTtl => faulty

\* Who is over the limit is let through again, however often they try in the
\* meantime, unless the key was made by a call that failed.
Forgiven == ~WithinLimit(count) ~> count = 0 \/ faulty

==============================================================================
