----------------------------- MODULE MCRequests ------------------------------
(***************************************************************************)
(* An instance for TLC of the two small models of one client's requests:   *)
(* what a request costs (RateLimiter) and what it shows (RoomList).  They  *)
(* share no state, so a behaviour exercises one of them and leaves the     *)
(* other in its initial state: TLC explores the sum of the two state       *)
(* spaces and not their product.                                           *)
(***************************************************************************)
EXTENDS RateLimiter, RoomList

VARIABLE part  \* the model that this behaviour exercises

requestVars == <<limiterVars, vars, part>>

RequestsInit == LimiterInit /\ Init /\ part \in {"limiter", "list"}

LimiterStep(step) == part = "limiter" /\ step /\ UNCHANGED <<vars, part>>
ListStep == part = "list" /\ Next /\ UNCHANGED <<limiterVars, part>>

RequestsNext == LimiterStep(LimiterNext) \/ ListStep

\* The fairness of LimiterSpec; RoomList has none.
RequestsSpec ==
    /\ RequestsInit
    /\ [][RequestsNext]_requestVars
    /\ WF_requestVars(LimiterStep(Tick))

\* Sound also with Forgiven, the one liveness property: it is about behaviours
\* of the limiter, whose states hold no room, and which a permutation of rooms
\* leaves as they are.
RoomSymmetry == Permutations(Rooms)

==============================================================================
