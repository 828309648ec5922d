----------------------------- MODULE RoomManager -----------------------------
(***************************************************************************)
(* The room server: RoomManager together with the sessions that drive it   *)
(* (ClientSession on the public port, GameServerSession on the internal    *)
(* one), the Redis facts it writes through SessionStore and the session    *)
(* notices it hands to the chat channel.                                   *)
(*                                                                         *)
(* The server runs one io_context on one thread, so a completion handler   *)
(* is one atomic step.  What interleaves is the order in which handlers    *)
(* run: requests of different clients, closes for any reason (EOF, read or *)
(* write error, heartbeat timeout, rate limit), the delayed lobby          *)
(* broadcast, messages of game servers, the expiry of tokens, a signal.    *)
(* A rejected request changes nothing and is a stuttering step.            *)
(*                                                                         *)
(* Two races of the reactor are explicit.  close() cancels pending         *)
(* operations but not completions that are already queued, so one last     *)
(* message may be processed by a session whose closed_ flag is set         *)
(* ("closing", allowed when LateReads).  A closed session is destroyed     *)
(* only when its last handler has run, and until then weak pointers to it  *)
(* can still be locked.                                                    *)
(***************************************************************************)
EXTENDS Room

CONSTANTS Clients,       \* client session objects
          Expired,       \* a weak pointer whose session was destroyed
          Unregistered,  \* no entry in sessions_
          RoomIds,       \* room ids (uuids)
          NoRoomId,      \* no entry in player_to_room_
          MaxRooms,      \* max_rooms_
          GameConns,     \* connections of game servers
          IdsOf,         \* the player ids the peer behind a client session sends
          LateReads,     \* may a read completion outlive close()?
          BlankReleases, \* do game servers send SlotReleased without session_id?
          HasStore,      \* is session_store_ set (always in main, not in tests)?
          Signals        \* the signals that may arrive

ASSUME RoomManagerAssumption ==
    /\ Expired \notin Clients /\ Unregistered \notin Clients
    /\ Expired # Unregistered
    /\ NoRoomId \notin RoomIds
    /\ MaxRooms \in Nat
    /\ IdsOf \in [Clients -> SUBSET PlayerIds]
    /\ LateReads \in BOOLEAN /\ BlankReleases \in BOOLEAN
    /\ HasStore \in BOOLEAN

VARIABLES
    rooms,            \* rooms_
    player_to_room,   \* player_to_room_
    sessions,         \* sessions_: weak pointers by player id
    lobby_sessions,   \* keys of lobby_sessions_
    lobby_timer,      \* lobby_broadcast_pending_ and the timer behind it
    conn,             \* life cycle of every client session
    pid,              \* player_id_ of every client session
    gs,               \* connections of game servers; "known" has a server_id_
    issued,           \* session ids generated so far
    active_sessions,  \* Redis set active_sessions
    tokens,           \* Redis keys token:*, by the player and session inside
    redeemed,         \* tokens some game server was told are valid
    announced,        \* sessions the chat channel was told of and not ended
    stopped,          \* the signal handler has run
    stale             \* observer: lobby clients that missed a list change

storeVars == <<issued, active_sessions, tokens, redeemed, announced>>
vars == <<rooms, player_to_room, sessions, lobby_sessions, lobby_timer, conn,
          pid, gs, storeVars, stopped, stale>>

ConnState == {"idle", "open", "closing", "closed"}
GsState == {"idle", "open", "known", "closing"}
Token == [player : PlayerIds, session : SessionIds]

TypeOK ==
    /\ rooms \in [RoomIds -> RoomType]
    /\ player_to_room \in [PlayerIds -> RoomIds \cup {NoRoomId}]
    /\ sessions \in [PlayerIds -> Clients \cup {Expired, Unregistered}]
    /\ lobby_sessions \subseteq Clients
    /\ lobby_timer \in {"idle", "armed", "cancelled"}
    /\ conn \in [Clients -> ConnState]
    /\ pid \in [Clients -> PlayerIds \cup {NoPlayer}]
    /\ gs \in [GameConns -> GsState]
    /\ issued \subseteq SessionIds
    /\ active_sessions \subseteq SessionIds
    /\ tokens \subseteq Token
    /\ redeemed \subseteq Token
    /\ announced \subseteq SessionIds
    /\ stopped \in BOOLEAN
    /\ stale \subseteq Clients

Init ==
    /\ rooms = [r \in RoomIds |-> NoRoom]
    /\ player_to_room = [p \in PlayerIds |-> NoRoomId]
    /\ sessions = [p \in PlayerIds |-> Unregistered]
    /\ lobby_sessions = {}
    /\ lobby_timer = "idle"
    /\ conn = [c \in Clients |-> "idle"]
    /\ pid = [c \in Clients |-> NoPlayer]
    /\ gs = [g \in GameConns |-> "idle"]
    /\ issued = {}
    /\ active_sessions = {}
    /\ tokens = {}
    /\ redeemed = {}
    /\ announced = {}
    /\ stopped = FALSE
    /\ stale = {}

-----------------------------------------------------------------------------
(* Helpers of RoomManager.                                                 *)

Live(r) == rooms[r].state # "NONE"

InGame == {r \in RoomIds : rooms[r].state = "IN_GAME"}

\* Mutant: the check for a running game is forgotten.
GameServerAlwaysFree == FALSE

hasActiveGame == InGame # {}

\* The sessions that can still be locked among those registered for ps.
LiveSessions(ps) == {sessions[p] : p \in ps} \cap Clients

\* player_to_room_ after erasing the players ps.
Unseat(ps) == [p \in PlayerIds |-> IF p \in ps THEN NoRoomId
                                               ELSE player_to_room[p]]

\* Mutant: a lobby of one is taken for an empty one.
NotifiedCrowd(lobby) ==
    IF Cardinality(lobby) <= 1 \/ lobby_timer # "idle" THEN lobby_timer
                                                       ELSE "armed"

\* notifyRoomListChanged, called when the lobby holds the sessions lobby.
Notified(lobby) ==
    IF lobby = {} \/ lobby_timer # "idle" THEN lobby_timer ELSE "armed"

\* Observer: every lobby member misses a change of the list until the next
\* broadcast, or until it asks for the list.
RoomListChanges == \E r \in RoomIds :
                       toRoomSummary(rooms[r]) # toRoomSummary(rooms'[r])
ObserveList == stale' = IF RoomListChanges THEN lobby_sessions'
                                           ELSE stale \cap lobby_sessions'

-----------------------------------------------------------------------------
(* Requests of clients (ClientSession::processMessage).                    *)

\* The read handler checks closed_ only after it has processed a message.
Reads(c) == conn[c] \in {"open", "closing"}
Handled(c) == conn' = [conn EXCEPT ![c] = IF @ = "closing" THEN "closed" ELSE @]

\* Mutant: a session may act under a second id.
MayTakeSeatUnderAnyId(c, p) ==
    /\ sessions[p] \in Clients => sessions[p] = c
    /\ player_to_room[p] = NoRoomId

\* The checks handleCreateRoom and handleJoinRoom share.
MayTakeSeat(c, p) ==
    /\ sessions[p] \in Clients => sessions[p] = c
    /\ pid[c] \in {NoPlayer, p}
    /\ player_to_room[p] = NoRoomId

\* What they do once the room has been made or found.
TakeSeat(c, p, r) ==
    /\ player_to_room' = [player_to_room EXCEPT ![p] = r]
    /\ pid' = [pid EXCEPT ![c] = p]
    /\ sessions' = [sessions EXCEPT ![p] = c]
    /\ lobby_sessions' = lobby_sessions \ {c}
    /\ lobby_timer' = Notified(lobby_sessions \ {c})
    /\ Handled(c)
    /\ UNCHANGED <<gs, storeVars, stopped>>

CreateRoom(c, p, max, r) ==
    /\ Reads(c)
    /\ MayTakeSeat(c, p)
    /\ Cardinality({q \in RoomIds : Live(q)}) < MaxRooms
    /\ max \in 1..MaxPlayersPerRoom
    /\ ~Live(r)
    /\ rooms' = [rooms EXCEPT ![r] = NewRoom(p, max)]
    /\ TakeSeat(c, p, r)
    /\ ObserveList

JoinRoom(c, p, r) ==
    /\ Reads(c)
    /\ MayTakeSeat(c, p)
    /\ Live(r)
    /\ rooms[r].state = "WAITING"
    /\ ~isFull(rooms[r])
    /\ rooms' = [rooms EXCEPT ![r] = addPlayer(@, p)]
    /\ TakeSeat(c, p, r)
    /\ ObserveList

\* Mutant: removeRoom forgets the seats of the other members.
DepartingAlone(p) == IF player_to_room[p] = NoRoomId THEN {} ELSE {p}

\* Mutant: only the host's departure is entered in player_to_room_.
DepartingHostOnly(p) ==
    LET r == player_to_room[p]
    IN IF r = NoRoomId \/ ~isHost(rooms[r], p) THEN {} ELSE rooms[r].players

\* handleLeaveRoom: the players that lose their seat when p leaves (all of
\* them if p is the host), the rooms that remain, and the sessions that
\* removeRoom sends back to the lobby.
Departing(p) ==
    LET r == player_to_room[p]
    IN IF r = NoRoomId THEN {}
       ELSE {p} \cup (IF isHost(rooms[r], p) THEN rooms[r].players ELSE {})

\* Mutant: a room outlives its host.
RoomsAfterLeaveWithoutHost(p) ==
    LET r == player_to_room[p]
    IN IF r = NoRoomId THEN rooms
       ELSE [rooms EXCEPT ![r] = removePlayer(@, p)]

RoomsAfterLeave(p) ==
    LET r == player_to_room[p]
    IN IF r = NoRoomId THEN rooms
       ELSE [rooms EXCEPT ![r] = IF isHost(@, p) THEN NoRoom
                                                 ELSE removePlayer(@, p)]

\* Mutant: removeRoom does not return its members to the lobby.
EvictedNobody(p) == {}

Evicted(p) == LiveSessions(Departing(p) \ {p})

\* An explicit leave: handleLeaveRoom, then the session itself returns to
\* the lobby and the list is announced again.
LeaveRoom(c) ==
    /\ Reads(c)
    /\ pid[c] # NoPlayer
    /\ rooms' = RoomsAfterLeave(pid[c])
    /\ player_to_room' = Unseat(Departing(pid[c]))
    /\ lobby_sessions' = lobby_sessions \cup Evicted(pid[c]) \cup {c}
    /\ lobby_timer' = Notified(lobby_sessions')
    /\ UNCHANGED <<sessions, conn, pid, gs, storeVars, stopped>>
    /\ ObserveList

ToggleReady(c) ==
    LET p == pid[c]
        r == player_to_room[p]
    IN /\ Reads(c)
       /\ p # NoPlayer
       /\ r # NoRoomId
       /\ ~isHost(rooms[r], p)
       /\ rooms' = [rooms EXCEPT ![r] = toggleReady(@, p)]
       /\ UNCHANGED <<player_to_room, sessions, lobby_sessions, lobby_timer,
                      conn, pid, gs, storeVars, stopped>>
       /\ ObserveList

\* registered: the sessions whose SADD Redis did; tokened: the players whose
\* token it stored.  A call that throws, or a missing store, leaves the game
\* unregistered or the player with a token no game server will accept.
StartGame(c, s, registered, tokened) ==
    LET p == pid[c]
        r == player_to_room[p]
    IN /\ Reads(c)
       /\ p # NoPlayer
       /\ r # NoRoomId
       /\ isHost(rooms[r], p)
       /\ ~hasActiveGame
       /\ canStart(rooms[r])
       /\ s \notin issued
       /\ registered \subseteq (IF HasStore THEN {s} ELSE {})
       /\ tokened \subseteq (IF HasStore THEN rooms[r].players ELSE {})
       /\ rooms' = [rooms EXCEPT ![r] = startGame(@, s)]
       /\ issued' = issued \cup {s}
       /\ active_sessions' = active_sessions \cup registered
       /\ tokens' = tokens \cup {[player |-> q, session |-> s] : q \in tokened}
       /\ announced' = announced \cup {s}
       /\ lobby_timer' = Notified(lobby_sessions)
       /\ UNCHANGED <<player_to_room, sessions, lobby_sessions, conn, pid, gs,
                      redeemed, stopped>>
       /\ ObserveList

\* The reply shows the client the current list.
RoomListRequest(c) ==
    /\ Reads(c)
    /\ stale' = stale \ {c}
    /\ UNCHANGED <<rooms, player_to_room, sessions, lobby_sessions,
                   lobby_timer, conn, pid, gs, storeVars, stopped>>

-----------------------------------------------------------------------------
(* Life cycle of client sessions.                                          *)

\* doAccept and start().
Connect(c) ==
    /\ conn[c] = "idle"
    /\ ~stopped
    /\ conn' = [conn EXCEPT ![c] = "open"]
    /\ lobby_sessions' = lobby_sessions \cup {c}
    /\ stale' = stale \ {c}
    /\ UNCHANGED <<rooms, player_to_room, sessions, lobby_timer, pid, gs,
                   storeVars, stopped>>

\* close(), for whatever reason: the session leaves the lobby, and if it has
\* a player id, handleDisconnect takes that player out of its room.
Close(c, after) ==
    LET p == pid[c]
    IN /\ conn[c] = "open"
       /\ after \in {"closed"} \cup (IF LateReads THEN {"closing"} ELSE {})
       /\ conn' = [conn EXCEPT ![c] = after]
       /\ pid' = [pid EXCEPT ![c] = NoPlayer]
       /\ IF p = NoPlayer
          THEN /\ lobby_sessions' = lobby_sessions \ {c}
               /\ UNCHANGED <<rooms, player_to_room, sessions, lobby_timer>>
          ELSE /\ rooms' = RoomsAfterLeave(p)
               /\ player_to_room' = Unseat(Departing(p))
               /\ sessions' = [sessions EXCEPT ![p] = Unregistered]
               /\ lobby_sessions' = (lobby_sessions \ {c}) \cup Evicted(p)
               /\ lobby_timer' = IF player_to_room[p] = NoRoomId
                                 THEN lobby_timer
                                 ELSE Notified(lobby_sessions')
       /\ UNCHANGED <<gs, storeVars, stopped>>
       /\ ObserveList

\* The last handler that holds the session has run: weak pointers expire.
\* The destructor's close() returns at once, for closed_ is set.
Destroy(c) ==
    /\ conn[c] \in {"closing", "closed"}
    /\ conn' = [conn EXCEPT ![c] = "idle"]
    /\ pid' = [pid EXCEPT ![c] = NoPlayer]
    /\ sessions' = [p \in PlayerIds |-> IF sessions[p] = c THEN Expired
                                                           ELSE sessions[p]]
    /\ stale' = stale \ {c}
    /\ UNCHANGED <<rooms, player_to_room, lobby_sessions, lobby_timer, gs,
                   storeVars, stopped>>

-----------------------------------------------------------------------------
(* The delayed broadcast of the room list.                                 *)

\* The timer expired: broadcastRoomListToLobby, which drops expired sessions.
LobbyBroadcast ==
    /\ lobby_timer = "armed"
    /\ lobby_timer' = "idle"
    /\ lobby_sessions' = {c \in lobby_sessions : conn[c] # "idle"}
    /\ stale' = {}
    /\ UNCHANGED <<rooms, player_to_room, sessions, conn, pid, gs, storeVars,
                   stopped>>

\* The handler of a cancelled timer only clears the pending flag.
LobbyBroadcastAborted ==
    /\ lobby_timer = "cancelled"
    /\ lobby_timer' = "idle"
    /\ UNCHANGED <<rooms, player_to_room, sessions, lobby_sessions, conn, pid,
                   gs, storeVars, stopped, stale>>

\* The signal handler: no connection is accepted any more and the timer is
\* cancelled, unless it had already expired.  Open sessions are served on.
Stop(signal) ==
    /\ signal \in Signals
    /\ ~stopped
    /\ stopped' = TRUE
    /\ lobby_timer' \in IF lobby_timer = "idle" THEN {"idle"}
                                                ELSE {"armed", "cancelled"}
    /\ UNCHANGED <<rooms, player_to_room, sessions, lobby_sessions, conn, pid,
                   gs, storeVars, stale>>

-----------------------------------------------------------------------------
(* Game servers (GameServerSession) and the clock of Redis.                *)

GsConnect(g) ==
    /\ gs[g] = "idle"
    /\ ~stopped
    /\ gs' = [gs EXCEPT ![g] = "open"]
    /\ UNCHANGED <<rooms, player_to_room, sessions, lobby_sessions,
                   lobby_timer, conn, pid, storeVars, stopped, stale>>

\* A heartbeat stores server_id_; one without an id clears it.
GsHeartbeat(g, named) ==
    /\ gs[g] \in {"open", "known"}
    /\ gs' = [gs EXCEPT ![g] = IF named THEN "known" ELSE "open"]
    /\ UNCHANGED <<rooms, player_to_room, sessions, lobby_sessions,
                   lobby_timer, conn, pid, storeVars, stopped, stale>>

\* Mutant: the token is read but not deleted.
GsTokenPeek(g, t) ==
    /\ gs[g] # "idle"
    /\ t \in tokens
    /\ redeemed' = redeemed \cup {t}
    /\ UNCHANGED <<rooms, player_to_room, sessions, lobby_sessions,
                   lobby_timer, conn, pid, gs, issued, active_sessions,
                   tokens, announced, stopped, stale>>

\* validateToken: GET and DEL.  A failing Redis call answers "invalid".
GsTokenValidate(g, t) ==
    /\ gs[g] # "idle"
    /\ t \in tokens
    /\ tokens' = tokens \ {t}
    /\ redeemed' = redeemed \cup {t}
    /\ UNCHANGED <<rooms, player_to_room, sessions, lobby_sessions,
                   lobby_timer, conn, pid, gs, issued, active_sessions,
                   announced, stopped, stale>>

\* The key expires (or a DEL is done whose reply is lost).
TokenExpire(t) ==
    /\ t \in tokens
    /\ tokens' = tokens \ {t}
    /\ UNCHANGED <<rooms, player_to_room, sessions, lobby_sessions,
                   lobby_timer, conn, pid, gs, issued, active_sessions,
                   redeemed, announced, stopped, stale>>

\* Mutant: the first release ends the session.
SessionsOverAtOnce(room) == {room.session_id}

\* The session that ends with the last player of a game.
SessionsOver(room) == IF room.players = {} THEN {room.session_id} ELSE {}

\* SlotReleased for player p; s is the session id it carries, or none.
\* unregistered: the sessions whose SREM Redis did.
GsSlotReleased(g, p, s, unregistered) ==
    LET r    == player_to_room[p]
        left == removePlayer(rooms[r], p)
        over == SessionsOver(left)
    IN /\ gs[g] # "idle"
       /\ r # NoRoomId
       /\ s = NoSession \/ s = rooms[r].session_id
       /\ unregistered \subseteq (IF HasStore THEN over ELSE {})
       /\ rooms' = [rooms EXCEPT ![r] = IF left.players = {} THEN NoRoom
                                                             ELSE left]
       /\ player_to_room' = Unseat({p})
       /\ sessions' = [sessions EXCEPT ![p] = Unregistered]
       /\ lobby_sessions' = lobby_sessions \cup LiveSessions({p})
       /\ active_sessions' = active_sessions \ unregistered
       /\ announced' = announced \ over
       /\ UNCHANGED <<lobby_timer, conn, pid, gs, issued, tokens, redeemed,
                      stopped>>
       /\ ObserveList

\* The session ids a game server may report: those it was given, or none.
Reportable == issued \cup (IF BlankReleases THEN {NoSession} ELSE {})

\* close() of a game server connection.  If it has reported its id, every
\* game is taken to be lost (handleGameServerDisconnect); unregistered are
\* the sessions whose SREM Redis did.
GsClose(g, after, unregistered) ==
    LET lost  == IF gs[g] = "known" THEN InGame ELSE {}
        gone  == UNION {rooms[r].players : r \in lost}
        ended == {rooms[r].session_id : r \in lost}
    IN /\ gs[g] \in {"open", "known"}
       /\ after \in {"idle"} \cup (IF LateReads THEN {"closing"} ELSE {})
       /\ unregistered \subseteq (IF HasStore THEN ended ELSE {})
       /\ gs' = [gs EXCEPT ![g] = after]
       /\ rooms' = [r \in RoomIds |-> IF r \in lost THEN NoRoom ELSE rooms[r]]
       /\ player_to_room' = Unseat(gone)
       /\ lobby_sessions' = lobby_sessions \cup LiveSessions(gone)
       /\ active_sessions' = active_sessions \ unregistered
       /\ announced' = announced \ ended
       /\ UNCHANGED <<sessions, lobby_timer, conn, pid, issued, tokens,
                      redeemed, stopped>>
       /\ ObserveList

\* The last queued read of a closed connection has been handled.
GsDestroy(g) ==
    /\ gs[g] = "closing"
    /\ gs' = [gs EXCEPT ![g] = "idle"]
    /\ UNCHANGED <<rooms, player_to_room, sessions, lobby_sessions,
                   lobby_timer, conn, pid, storeVars, stopped, stale>>

-----------------------------------------------------------------------------

ClientNext(c) ==
    \/ \E p \in IdsOf[c], r \in RoomIds :
          \/ \E max \in 1..MaxPlayersPerRoom : CreateRoom(c, p, max, r)
          \/ JoinRoom(c, p, r)
    \/ LeaveRoom(c)
    \/ ToggleReady(c)
    \/ \E s \in SessionIds :
          \E registered \in SUBSET {s}, tokened \in SUBSET PlayerIds :
             StartGame(c, s, registered, tokened)
    \/ RoomListRequest(c)
    \/ Connect(c)
    \/ \E after \in ConnState : Close(c, after)
    \/ Destroy(c)

GameServerNext(g) ==
    \/ GsConnect(g)
    \/ \E named \in BOOLEAN : GsHeartbeat(g, named)
    \/ \E t \in tokens : GsTokenValidate(g, t)
    \/ \E p \in PlayerIds, s \in Reportable, unregistered \in SUBSET SessionIds :
          GsSlotReleased(g, p, s, unregistered)
    \/ \E after \in GsState, unregistered \in SUBSET SessionIds :
          GsClose(g, after, unregistered)
    \/ GsDestroy(g)

TimerNext == LobbyBroadcast \/ LobbyBroadcastAborted

Next ==
    \/ \E c \in Clients : ClientNext(c)
    \/ \E g \in GameConns : GameServerNext(g)
    \/ TimerNext
    \/ \E signal \in Signals : Stop(signal)
    \/ \E t \in tokens : TokenExpire(t)

Spec == Init /\ [][Next]_vars

\* The reactor runs the handler of every timer that has expired.
FairSpec == Spec /\ WF_vars(TimerNext)

-----------------------------------------------------------------------------
(* Properties.                                                             *)

\* The players that have a seat in some room.
Seated == {p \in PlayerIds : player_to_room[p] # NoRoomId}

\* The index player_to_room_ and the rosters of the rooms are maintained by
\* different statements of every handler; they always describe the same
\* seating.  Hence no lookup of a seated player's room fails, addPlayer never
\* refuses a player that handleJoinRoom let through, and nobody is in two rooms.
MembershipAgreement ==
    \A p \in PlayerIds, r \in RoomIds :
        p \in rooms[r].players <=> player_to_room[p] = r

\* A seated player has an entry in sessions_, so what is sent to it is not
\* dropped for want of an entry, and the session there, while it exists, goes
\* by that player's id.
MembersRegistered ==
    \A p \in Seated :
        /\ sessions[p] # Unregistered
        /\ sessions[p] \in Clients /\ p # NoPlayer => pid[sessions[p]] = p

\* A seated player has an open connection: every way a connection can end
\* vacates the seat.
MembersConnected ==
    \A p \in Seated \ {NoPlayer} :
        /\ sessions[p] \in Clients
        /\ conn[sessions[p]] = "open"
        /\ pid[sessions[p]] = p

\* An open session either receives the lobby's lists or is the session of a
\* seated player: whoever loses a seat, by whatever handler, is back in the
\* lobby, and nobody in a room is still listed there.
LobbyOrRoom ==
    \A c \in Clients : conn[c] = "open" =>
        (c \in lobby_sessions <=> \A p \in Seated : sessions[p] # c)

\* The one game server runs one game: no second room is in game.
AtMostOneGame == \A r1, r2 \in InGame : r1 = r2

\* The chat server has been told of every game in progress and not of its
\* end, even while some of its players have already been released.
GamesAnnounced == {rooms[r].session_id : r \in InGame} \subseteq announced

\* A waiting room has its host in it, and the host alone is exempt from
\* being ready: otherwise nobody can ever start it.
HostPresent ==
    \A r \in RoomIds : rooms[r].state = "WAITING" =>
        /\ rooms[r].host_id \in rooms[r].players
        /\ rooms[r].is_host = {rooms[r].host_id}

\* A game in progress keeps its session id and admits nobody: until its room
\* is removed, players only leave.
GameIsClosed ==
    [][\A r \in RoomIds :
          rooms[r].state = "IN_GAME" /\ rooms'[r].state # "NONE" =>
              /\ rooms'[r].state = "IN_GAME"
              /\ rooms'[r].session_id = rooms[r].session_id
              /\ rooms'[r].players \subseteq rooms[r].players]_vars

\* A token is accepted at most once: one that a game server has been told is
\* valid is never again in Redis.
TokensSingleUse == tokens \cap redeemed = {}

\* Coalescing loses no change: while a lobby session has not seen the current
\* list, a broadcast is on its way (until the server is told to stop).
LobbyInformed == stale # {} /\ ~stopped => lobby_timer = "armed"

\* Every lobby session is shown a changed list, or leaves the lobby.
ListReachesLobby == \A c \in Clients : c \in stale ~> c \notin stale \/ stopped

\* The abstract room server that this one implements.
Promised == INSTANCE Matchmaking WITH
                Players   <- PlayerIds,
                Rooms     <- RoomIds,
                Sessions  <- SessionIds,
                Nowhere   <- NoRoomId,
                NoGame    <- NoSession,
                MaxSeats  <- MaxPlayersPerRoom,
                seat      <- player_to_room,
                phase     <- [r \in RoomIds |-> rooms[r].state],
                capacity  <- [r \in RoomIds |-> rooms[r].max_players],
                game      <- [r \in RoomIds |-> rooms[r].session_id],
                used      <- issued

\* Whatever the handlers, and in whatever order they run, the room server
\* behaves as Matchmaking: every step opens, joins, leaves, starts, finishes
\* or abandons, or changes nothing that a player or the chat server can tell.
\* Matchmaking says what the code does, Abandon included: that a running game
\* may end without a SessionEnded is not what the documents say, and
\* EndedWhenAllLeft below is the statement that fails.
ImplementsMatchmaking == Promised!MmSpec

\* What the repository says and the code does not do (see README, findings).

\* "Player ID already connected": two open sessions never share an id.
OneSessionPerPlayer ==
    \A c1, c2 \in Clients :
        /\ conn[c1] = "open" /\ conn[c2] = "open"
        /\ pid[c1] = pid[c2] /\ pid[c1] # NoPlayer
        => c1 = c2

\* A room is removed when its last player is gone.
NoEmptyRoom == \A r \in RoomIds : Live(r) => rooms[r].players # {}

\* "SessionEnded | when everybody has left the room": a session that the chat
\* server was told of, and not told the end of, is still played in some room.
\* removeRoom, by which a host who leaves or disconnects ends a running game,
\* tells the chat server nothing.
EndedWhenAllLeft ==
    \A s \in announced : \E r \in InGame : rooms[r].session_id = s

=============================================================================
