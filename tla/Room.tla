-------------------------------- MODULE Room --------------------------------
(***************************************************************************)
(* One room of the room server (class Room): a pure value and the          *)
(* operations on it.  The vector of PlayerData is kept as three sets: who  *)
(* has an entry (players), whose entry has is_ready (ready) and whose      *)
(* entry has is_host (is_host).  host_id is a separate field, as in the    *)
(* class, because it survives the removal of the host's entry.  Room and   *)
(* player names, which no decision reads, are left out.                    *)
(*                                                                         *)
(* NoRoom stands for "no entry in RoomManager's map".                      *)
(***************************************************************************)
EXTENDS Integers, FiniteSets

CONSTANTS PlayerIds,         \* player ids that clients and game servers send
          NoPlayer,          \* the empty string; may be a member of PlayerIds
          SessionIds,        \* game session ids (uuids)
          NoSession,         \* the empty session id
          MaxPlayersPerRoom  \* limit on the max_players of a room

ASSUME RoomAssumption ==
    /\ NoSession \notin SessionIds
    /\ MaxPlayersPerRoom \in Nat

RoomState == {"NONE", "WAITING", "IN_GAME"}

RoomType == [host_id     : PlayerIds \cup {NoPlayer},
             max_players : 0..MaxPlayersPerRoom,
             state       : RoomState,
             session_id  : SessionIds \cup {NoSession},
             players     : SUBSET PlayerIds,
             ready       : SUBSET PlayerIds,
             is_host     : SUBSET PlayerIds]

NoRoom == [host_id |-> NoPlayer, max_players |-> 0, state |-> "NONE",
           session_id |-> NoSession, players |-> {}, ready |-> {},
           is_host |-> {}]

-----------------------------------------------------------------------------

\* Mutant: the host is not counted against max_players.
OversizedRoom(host, max) ==
    [host_id |-> host, max_players |-> max + 1, state |-> "WAITING",
     session_id |-> NoSession, players |-> {host}, ready |-> {},
     is_host |-> {host}]

\* The constructor seats the host, not ready, in a waiting room.
NewRoom(host, max) ==
    [host_id |-> host, max_players |-> max, state |-> "WAITING",
     session_id |-> NoSession, players |-> {host}, ready |-> {},
     is_host |-> {host}]

isFull(room) == Cardinality(room.players) >= room.max_players

hasPlayer(room, p) == p \in room.players

isHost(room, p) == p = room.host_id

\* addPlayer refuses on its own account; its callers ignore the result.
addPlayer(room, p) ==
    IF isFull(room) \/ hasPlayer(room, p) \/ room.state # "WAITING"
    THEN room
    ELSE [room EXCEPT !.players = @ \cup {p}]

removePlayer(room, p) ==
    [room EXCEPT !.players = @ \ {p}, !.ready = @ \ {p}, !.is_host = @ \ {p}]

toggleReady(room, p) ==
    IF isHost(room, p) \/ ~hasPlayer(room, p)
    THEN room
    ELSE [room EXCEPT !.ready = IF p \in @ THEN @ \ {p} ELSE @ \cup {p}]

\* Every entry without the is_host flag is ready; a lone host may start.
canStart(room) == room.players \ room.is_host \subseteq room.ready

\* setState(ROOM_IN_GAME) and setSessionId, the two calls of a game start.
startGame(room, s) == [room EXCEPT !.state = "IN_GAME", !.session_id = s]

\* What toRoomSummary shows of a room; the lobby list holds waiting rooms.
toRoomSummary(room) ==
    IF room.state = "WAITING"
    THEN <<room.host_id, Cardinality(room.players), room.max_players>>
    ELSE <<>>

=============================================================================
