----------------------------- MODULE Matchmaking -----------------------------
(***************************************************************************)
(* What the room server promises its players and the chat server, without  *)
(* connections, readiness, hosts, Redis or the lobby: who sits where,      *)
(* which room plays under which session, and which sessions the chat       *)
(* server has been told of and not told the end of.                        *)
(*                                                                         *)
(* RoomManager implements this specification; Backend composes it with the *)
(* link to the chat server.                                                *)
(***************************************************************************)
EXTENDS Integers, FiniteSets

CONSTANTS Players,   \* who may take a seat
          Rooms,     \* the rooms there may be
          Sessions,  \* the sessions games are played under
          Nowhere,   \* the seat of a player that has none
          NoGame,    \* the session of a room that plays none
          MaxSeats   \* the largest capacity of a room

VARIABLES seat,      \* the room every player sits in
          phase,     \* "NONE" (no such room), "WAITING" or "IN_GAME"
          capacity,  \* how many players every room holds
          game,      \* the session every room plays under
          used,      \* sessions that have been started
          announced  \* sessions announced to the chat server and not ended

mmVars == <<seat, phase, capacity, game, used, announced>>

MmInit ==
    /\ seat = [p \in Players |-> Nowhere]
    /\ phase = [r \in Rooms |-> "NONE"]
    /\ capacity = [r \in Rooms |-> 0]
    /\ game = [r \in Rooms |-> NoGame]
    /\ used = {}
    /\ announced = {}

Members(r) == {p \in Players : seat[p] = r}

\* A player opens a room of n seats and takes one.
Open(p, r, n) ==
    /\ seat[p] = Nowhere
    /\ phase[r] = "NONE"
    /\ seat' = [seat EXCEPT ![p] = r]
    /\ phase' = [phase EXCEPT ![r] = "WAITING"]
    /\ capacity' = [capacity EXCEPT ![r] = n]
    /\ UNCHANGED <<game, used, announced>>

\* A player takes a free seat in a room that has not started.
Join(p, r) ==
    /\ seat[p] = Nowhere
    /\ phase[r] = "WAITING"
    /\ Cardinality(Members(r)) < capacity[r]
    /\ seat' = [seat EXCEPT ![p] = r]
    /\ UNCHANGED <<phase, capacity, game, used, announced>>

\* A player leaves; the room stays, even if it is now empty.
Leave(p) ==
    /\ seat[p] # Nowhere
    /\ seat' = [seat EXCEPT ![p] = Nowhere]
    /\ UNCHANGED <<phase, capacity, game, used, announced>>

\* A waiting room starts to play under a new session, alone among the rooms.
Start(r, s) ==
    /\ phase[r] = "WAITING"
    /\ \A q \in Rooms : phase[q] # "IN_GAME"
    /\ s \notin used
    /\ phase' = [phase EXCEPT ![r] = "IN_GAME"]
    /\ game' = [game EXCEPT ![r] = s]
    /\ used' = used \cup {s}
    /\ announced' = announced \cup {s}
    /\ UNCHANGED <<seat, capacity>>

\* Room r is gone and its members have lost their seats.
Remove(r) ==
    /\ phase' = [phase EXCEPT ![r] = "NONE"]
    /\ seat' = [p \in Players |-> IF seat[p] = r THEN Nowhere ELSE seat[p]]
    /\ capacity' = [capacity EXCEPT ![r] = 0]
    /\ game' = [game EXCEPT ![r] = NoGame]
    /\ UNCHANGED used

\* The game is over and the chat server is told so.
Finish(r) ==
    /\ phase[r] = "IN_GAME"
    /\ Remove(r)
    /\ announced' = announced \ {game[r]}

\* The host goes, before or during the game; the chat server is told nothing.
\* During the game this departs from docs/Systems/Room Server.md:123, by which
\* a SessionEnded follows when everybody has left: it is allowed here because
\* the code does it, and the run RM_abandon shows that it does.
Abandon(r) ==
    /\ phase[r] # "NONE"
    /\ Remove(r)
    /\ UNCHANGED announced

MmNext ==
    \/ \E p \in Players, r \in Rooms :
          \/ \E n \in 1..MaxSeats : Open(p, r, n)
          \/ Join(p, r)
    \/ \E p \in Players : Leave(p)
    \/ \E r \in Rooms :
          \/ \E s \in Sessions : Start(r, s)
          \/ Finish(r)
          \/ Abandon(r)

MmSpec == MmInit /\ [][MmNext]_mmVars

==============================================================================
