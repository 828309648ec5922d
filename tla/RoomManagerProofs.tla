-------------------------- MODULE RoomManagerProofs --------------------------
(***************************************************************************)
(* Proofs about RoomManager, for every value of its constants: the rooms   *)
(* and their sessions first, then tokens, the lobby's lists and the        *)
(* connections of seated players.                                          *)
(*                                                                         *)
(* Each theorem is an induction over the steps of Next.  LobbyInformed,    *)
(* MembersConnected and LobbyOrRoom hold only where the code's hazards are *)
(* absent, and each is stated under the condition that says so:            *)
(* ~BlankReleases (the game server releases no slot under the blank id),   *)
(* ~LateReads (no message is handled after close()), IdsApart (connections *)
(* use ids of their own).  The runs show what happens without them.        *)
(***************************************************************************)
EXTENDS RoomManager, TLAPS

(* The operations of Room yield rooms.                                     *)

\* The absent room has the type of a room.
LEMMA NoRoomIsRoom == NoRoom \in RoomType
  BY RoomAssumption DEF NoRoom, RoomType, RoomState

\* The constructor of Room makes a room.
LEMMA NewRoomIsRoom ==
  ASSUME NEW p \in PlayerIds, NEW max \in 1..MaxPlayersPerRoom
  PROVE  NewRoom(p, max) \in RoomType
  BY RoomAssumption DEF NewRoom, RoomType, RoomState

\* addPlayer keeps the type.
LEMMA AddPlayerIsRoom ==
  ASSUME NEW room \in RoomType, NEW p \in PlayerIds
  PROVE  addPlayer(room, p) \in RoomType
  BY DEF addPlayer, RoomType

\* removePlayer keeps the type.
LEMMA RemovePlayerIsRoom ==
  ASSUME NEW room \in RoomType, NEW p \in PlayerIds
  PROVE  removePlayer(room, p) \in RoomType
  BY DEF removePlayer, RoomType

\* toggleReady keeps the type.
LEMMA ToggleReadyIsRoom ==
  ASSUME NEW room \in RoomType, NEW p \in PlayerIds
  PROVE  toggleReady(room, p) \in RoomType
  <1> DEFINE flipped == IF p \in room.ready THEN room.ready \ {p}
                                            ELSE room.ready \cup {p}
  <1>1. flipped \in SUBSET PlayerIds
    BY DEF RoomType
  <1>2. [room EXCEPT !.ready = flipped] \in RoomType
    <2> HIDE DEF flipped
    <2> QED BY <1>1 DEF RoomType
  <1> QED BY <1>2 DEF toggleReady

\* The start of a game keeps the type.
LEMMA StartGameIsRoom ==
  ASSUME NEW room \in RoomType, NEW s \in SessionIds
  PROVE  startGame(room, s) \in RoomType
  BY DEF startGame, RoomType, RoomState

\* What handleLeaveRoom leaves of the rooms.
LEMMA LeaveType ==
  ASSUME TypeOK, NEW p \in PlayerIds
  PROVE  RoomsAfterLeave(p) \in [RoomIds -> RoomType]
  BY NoRoomIsRoom, RemovePlayerIsRoom DEF RoomsAfterLeave, TypeOK

-----------------------------------------------------------------------------
(* Type correctness.                                                       *)

\* Every step of the room server keeps the types.
LEMMA TypeStep == TypeOK /\ [Next]_vars => TypeOK'
  <1> SUFFICES ASSUME TypeOK, [Next]_vars PROVE TypeOK'
    OBVIOUS
  <1>1. ASSUME NEW c \in Clients, NEW p \in IdsOf[c], NEW r \in RoomIds,
                NEW max \in 1..MaxPlayersPerRoom,
                CreateRoom(c, p, max, r)
         PROVE  TypeOK'
    <2>1. p \in PlayerIds
      BY RoomManagerAssumption
    <2>2. rooms' \in [RoomIds -> RoomType]
      BY <1>1, <2>1, NewRoomIsRoom DEF CreateRoom, TypeOK
    <2>3. stale' \subseteq Clients
      BY <1>1 DEF CreateRoom, TakeSeat, ObserveList, TypeOK
    <2> QED
      BY <1>1, <2>1, <2>2, <2>3
         DEF CreateRoom, TakeSeat, Handled, Notified, TypeOK, ConnState, storeVars
  <1>2. ASSUME NEW c \in Clients, NEW p \in IdsOf[c], NEW r \in RoomIds,
                JoinRoom(c, p, r)
         PROVE  TypeOK'
    <2>1. p \in PlayerIds
      BY RoomManagerAssumption
    <2>2. rooms' \in [RoomIds -> RoomType]
      BY <1>2, <2>1, AddPlayerIsRoom DEF JoinRoom, TypeOK
    <2>3. stale' \subseteq Clients
      BY <1>2 DEF JoinRoom, TakeSeat, ObserveList, TypeOK
    <2> QED
      BY <1>2, <2>1, <2>2, <2>3
         DEF JoinRoom, TakeSeat, Handled, Notified, TypeOK, ConnState, storeVars
  <1>3. ASSUME NEW c \in Clients,
                LeaveRoom(c)
         PROVE  TypeOK'
    <2>1. pid[c] \in PlayerIds
      BY <1>3 DEF LeaveRoom, TypeOK
    <2>2. rooms' \in [RoomIds -> RoomType]
      BY <1>3, <2>1, LeaveType DEF LeaveRoom
    <2>3. player_to_room' \in [PlayerIds -> RoomIds \cup {NoRoomId}]
      BY <1>3 DEF LeaveRoom, Unseat, TypeOK
    <2>4. lobby_sessions' \subseteq Clients
      BY <1>3 DEF LeaveRoom, Evicted, LiveSessions, TypeOK
    <2>5. stale' \subseteq Clients
      BY <1>3, <2>4 DEF LeaveRoom, ObserveList, TypeOK
    <2> QED
      BY <1>3, <2>2, <2>3, <2>4, <2>5 DEF LeaveRoom, Notified, TypeOK, storeVars
  <1>4. ASSUME NEW c \in Clients,
                ToggleReady(c)
         PROVE  TypeOK'
    <2>1. rooms' \in [RoomIds -> RoomType]
      BY <1>4, ToggleReadyIsRoom DEF ToggleReady, TypeOK
    <2> QED
      BY <1>4, <2>1 DEF ToggleReady, ObserveList, TypeOK, storeVars
  <1>5. ASSUME NEW c \in Clients, NEW s \in SessionIds,
                NEW registered \in SUBSET {s}, NEW tokened \in SUBSET PlayerIds,
                StartGame(c, s, registered, tokened)
         PROVE  TypeOK'
    <2>1. rooms' \in [RoomIds -> RoomType]
      BY <1>5, StartGameIsRoom DEF StartGame, TypeOK
    <2>2. tokens' \subseteq Token
      BY <1>5 DEF StartGame, TypeOK, Token
    <2> QED
      BY <1>5, <2>1, <2>2 DEF StartGame, Notified, ObserveList, TypeOK
  <1>6. ASSUME NEW c \in Clients,
                RoomListRequest(c)
         PROVE  TypeOK'
    BY <1>6 DEF RoomListRequest, TypeOK, storeVars
  <1>7. ASSUME NEW c \in Clients,
                Connect(c)
         PROVE  TypeOK'
    BY <1>7 DEF Connect, TypeOK, ConnState, storeVars
  <1>8. ASSUME NEW c \in Clients, NEW after \in ConnState,
                Close(c, after)
         PROVE  TypeOK'
    <2>1. lobby_sessions' \subseteq Clients
      BY <1>8 DEF Close, Evicted, LiveSessions, TypeOK
    <2>2. stale' \subseteq Clients
      BY <1>8, <2>1 DEF Close, ObserveList, TypeOK
    <2>3. conn' \in [Clients -> ConnState] /\ pid' \in [Clients -> PlayerIds \cup {NoPlayer}]
      BY <1>8 DEF Close, TypeOK
    <2>4. CASE pid[c] = NoPlayer
      BY <1>8, <2>1, <2>2, <2>3, <2>4 DEF Close, TypeOK, storeVars
    <2>5. CASE pid[c] # NoPlayer
      <3>1. pid[c] \in PlayerIds
        BY <2>5 DEF TypeOK
      <3>2. rooms' \in [RoomIds -> RoomType]
        BY <1>8, <2>5, <3>1, LeaveType DEF Close
      <3>3. player_to_room' \in [PlayerIds -> RoomIds \cup {NoRoomId}]
        BY <1>8, <2>5 DEF Close, Unseat, TypeOK
      <3> QED
        BY <1>8, <2>1, <2>2, <2>3, <2>5, <3>1, <3>2, <3>3
           DEF Close, Notified, TypeOK, storeVars
    <2> QED BY <2>4, <2>5
  <1>9. ASSUME NEW c \in Clients,
                Destroy(c)
         PROVE  TypeOK'
    BY <1>9 DEF Destroy, TypeOK, ConnState, storeVars
  <1>10. ASSUME NEW g \in GameConns,
                GsConnect(g)
         PROVE  TypeOK'
    BY <1>10 DEF GsConnect, TypeOK, GsState, storeVars
  <1>11. ASSUME NEW g \in GameConns, NEW named \in BOOLEAN,
                GsHeartbeat(g, named)
         PROVE  TypeOK'
    BY <1>11 DEF GsHeartbeat, TypeOK, GsState, storeVars
  <1>12. ASSUME NEW g \in GameConns, NEW t \in tokens,
                GsTokenValidate(g, t)
         PROVE  TypeOK'
    BY <1>12 DEF GsTokenValidate, TypeOK
  <1>13. ASSUME NEW g \in GameConns, NEW p \in PlayerIds, NEW s \in Reportable,
                NEW unregistered \in SUBSET SessionIds,
                GsSlotReleased(g, p, s, unregistered)
         PROVE  TypeOK'
    <2>1. rooms' \in [RoomIds -> RoomType]
      BY <1>13, NoRoomIsRoom, RemovePlayerIsRoom DEF GsSlotReleased, TypeOK
    <2>2. player_to_room' \in [PlayerIds -> RoomIds \cup {NoRoomId}]
      BY <1>13 DEF GsSlotReleased, Unseat, TypeOK
    <2>3. lobby_sessions' \subseteq Clients
      BY <1>13 DEF GsSlotReleased, LiveSessions, TypeOK
    <2>4. active_sessions' \subseteq SessionIds /\ announced' \subseteq SessionIds
      BY <1>13 DEF GsSlotReleased, TypeOK
    <2>5. stale' \subseteq Clients
      BY <1>13, <2>3 DEF GsSlotReleased, ObserveList, TypeOK
    <2> QED
      BY <1>13, <2>1, <2>2, <2>3, <2>4, <2>5 DEF GsSlotReleased, TypeOK
  <1>14. ASSUME NEW g \in GameConns, NEW after \in GsState,
                NEW unregistered \in SUBSET SessionIds,
                GsClose(g, after, unregistered)
         PROVE  TypeOK'
    <2>1. rooms' \in [RoomIds -> RoomType]
      BY <1>14, NoRoomIsRoom DEF GsClose, TypeOK
    <2>2. player_to_room' \in [PlayerIds -> RoomIds \cup {NoRoomId}]
      BY <1>14 DEF GsClose, Unseat, TypeOK
    <2>3. lobby_sessions' \subseteq Clients
      BY <1>14 DEF GsClose, LiveSessions, TypeOK
    <2>4. active_sessions' \subseteq SessionIds /\ announced' \subseteq SessionIds
      BY <1>14 DEF GsClose, TypeOK
    <2>5. stale' \subseteq Clients
      BY <1>14, <2>3 DEF GsClose, ObserveList, TypeOK
    <2> QED
      BY <1>14, <2>1, <2>2, <2>3, <2>4, <2>5 DEF GsClose, GsState, TypeOK
  <1>15. ASSUME NEW g \in GameConns,
                GsDestroy(g)
         PROVE  TypeOK'
    BY <1>15 DEF GsDestroy, TypeOK, GsState, storeVars
  <1>16. CASE LobbyBroadcast
    BY <1>16 DEF LobbyBroadcast, TypeOK, storeVars
  <1>17. CASE LobbyBroadcastAborted
    BY <1>17 DEF LobbyBroadcastAborted, TypeOK, storeVars
  <1>18. ASSUME NEW signal \in Signals,
                Stop(signal)
         PROVE  TypeOK'
    BY <1>18 DEF Stop, TypeOK, storeVars
  <1>19. ASSUME NEW t \in tokens,
                TokenExpire(t)
         PROVE  TypeOK'
    BY <1>19 DEF TokenExpire, TypeOK
  <1>20. CASE UNCHANGED vars
    BY <1>20 DEF vars, storeVars, TypeOK
  <1> QED
    BY <1>1, <1>2, <1>3, <1>4, <1>5, <1>6, <1>7, <1>8, <1>9, <1>10, <1>11, <1>12, <1>13, <1>14, <1>15, <1>16, <1>17, <1>18, <1>19, <1>20
       DEF Next, ClientNext, GameServerNext, TimerNext

\* Every variable of the room server keeps its type: the maps stay maps from
\* the right keys, weak pointers point to sessions or to nothing.
THEOREM TypeCorrect == Spec => []TypeOK
  <1>1. Init => TypeOK
    BY RoomAssumption, NoRoomIsRoom DEF Init, TypeOK, ConnState, GsState
  <1> QED BY <1>1, TypeStep, PTL DEF Spec

-----------------------------------------------------------------------------
(* The rooms, the index of players and the sessions of games.              *)

\* The fields that matter, after each operation of Room.
LEMMA AddPlayerFields ==
  ASSUME NEW room \in RoomType, NEW p \in PlayerIds,
         ~isFull(room), room.state = "WAITING"
  PROVE  /\ addPlayer(room, p).players = room.players \cup {p}
         /\ addPlayer(room, p).state = "WAITING"
         /\ addPlayer(room, p).session_id = room.session_id
         /\ addPlayer(room, p).host_id = room.host_id
         /\ addPlayer(room, p).is_host = room.is_host
  BY DEF addPlayer, hasPlayer, RoomType

\* removePlayer changes the roster and its flags, nothing else.
LEMMA RemovePlayerFields ==
  ASSUME NEW room \in RoomType, NEW p \in PlayerIds
  PROVE  /\ removePlayer(room, p).players = room.players \ {p}
         /\ removePlayer(room, p).is_host = room.is_host \ {p}
         /\ removePlayer(room, p).state = room.state
         /\ removePlayer(room, p).session_id = room.session_id
         /\ removePlayer(room, p).host_id = room.host_id
  BY DEF removePlayer, RoomType

\* toggleReady leaves host, state, session and roster alone.
LEMMA ToggleReadyFields ==
  ASSUME NEW room \in RoomType, NEW p \in PlayerIds
  PROVE  /\ toggleReady(room, p).players = room.players
         /\ toggleReady(room, p).state = room.state
         /\ toggleReady(room, p).session_id = room.session_id
         /\ toggleReady(room, p).host_id = room.host_id
         /\ toggleReady(room, p).is_host = room.is_host
         /\ toggleReady(room, p).max_players = room.max_players
  <1> DEFINE flipped == IF p \in room.ready THEN room.ready \ {p}
                                            ELSE room.ready \cup {p}
  <1>1. toggleReady(room, p) \in {room, [room EXCEPT !.ready = flipped]}
    BY DEF toggleReady
  <1> HIDE DEF flipped
  <1> QED BY <1>1 DEF RoomType

\* The start of a game sets state and session, nothing else.
LEMMA StartGameFields ==
  ASSUME NEW room \in RoomType, NEW s \in SessionIds
  PROVE  /\ startGame(room, s).players = room.players
         /\ startGame(room, s).state = "IN_GAME"
         /\ startGame(room, s).session_id = s
  BY DEF startGame, RoomType

\* A removed room leaves nothing behind under its id.
DeadRoomsBlank == \A r \in RoomIds : rooms[r].state = "NONE" => rooms[r] = NoRoom

\* A room has a session id exactly while it is in game, and the id is one
\* that was issued and announced.
SessionsOfGames ==
    \A r \in RoomIds :
        /\ rooms[r].state = "IN_GAME" <=> rooms[r].session_id # NoSession
        /\ rooms[r].state = "IN_GAME" =>
              rooms[r].session_id \in issued \cap announced

\* The inductive invariant.
RoomInv ==
    /\ MembershipAgreement
    /\ DeadRoomsBlank
    /\ SessionsOfGames
    /\ AtMostOneGame

\* A step that leaves rooms, seats, issued and announced sessions alone
\* keeps the invariant of the rooms.
LEMMA Untouched ==
  ASSUME RoomInv, rooms' = rooms, player_to_room' = player_to_room,
         issued' = issued, announced' = announced
  PROVE  RoomInv'
  BY DEF RoomInv, MembershipAgreement, DeadRoomsBlank, SessionsOfGames,
         AtMostOneGame, InGame

\* handleLeaveRoom, which both an explicit leave and a close run.
LEMMA LeaveKeepsRoomInv ==
  ASSUME TypeOK, RoomInv, NEW p \in PlayerIds,
         rooms' = RoomsAfterLeave(p),
         player_to_room' = Unseat(Departing(p)),
         issued' = issued, announced' = announced
  PROVE  RoomInv'
  <1> DEFINE r == player_to_room[p]
             new == IF isHost(rooms[r], p) THEN NoRoom
                                           ELSE removePlayer(rooms[r], p)
  <1>1. CASE r = NoRoomId
    <2>1. rooms' = rooms
      BY <1>1 DEF RoomsAfterLeave
    <2>2. player_to_room' = player_to_room
      BY <1>1 DEF Unseat, Departing, TypeOK
    <2> QED BY <2>1, <2>2, Untouched
  <1>2. CASE r # NoRoomId
    <2>1. r \in RoomIds /\ rooms[r] \in RoomType
      BY <1>2 DEF TypeOK
    <2>2. rooms' = [rooms EXCEPT ![r] = new]
      BY <1>2 DEF RoomsAfterLeave
    <2>3. /\ removePlayer(rooms[r], p).players = rooms[r].players \ {p}
          /\ removePlayer(rooms[r], p).state = rooms[r].state
          /\ removePlayer(rooms[r], p).session_id = rooms[r].session_id
      BY <2>1, RemovePlayerFields
    <2>4. new = NoRoom \/ (new.state = rooms[r].state
                           /\ new.session_id = rooms[r].session_id)
      BY <2>3
    <2>5. p \in rooms[r].players
      BY <2>1 DEF MembershipAgreement, RoomInv
    <2>6. rooms[r].state # "NONE"
      BY <2>1, <2>5 DEF DeadRoomsBlank, RoomInv, NoRoom
    <2>7. new.players = rooms[r].players \ Departing(p)
      BY <1>2, <2>3 DEF Departing, NoRoom
    <2>8. Departing(p) \subseteq rooms[r].players
      BY <1>2, <2>5 DEF Departing
    <2> HIDE DEF r, new
    <2>9. MembershipAgreement'
      <3>1. \A q \in PlayerIds : player_to_room'[q] =
               IF q \in Departing(p) THEN NoRoomId ELSE player_to_room[q]
        BY DEF Unseat
      <3>2. \A q \in RoomIds : rooms'[q].players =
               IF q = r THEN rooms[r].players \ Departing(p) ELSE rooms[q].players
        BY <2>1, <2>2, <2>7 DEF TypeOK
      <3> QED
        BY <2>1, <2>8, <3>1, <3>2, RoomManagerAssumption
           DEF MembershipAgreement, RoomInv
    <2>10. \A q \in RoomIds : rooms'[q] = IF q = r THEN new ELSE rooms[q]
      BY <2>2 DEF TypeOK
    <2>11. DeadRoomsBlank'
      BY <2>4, <2>6, <2>10 DEF DeadRoomsBlank, RoomInv
    <2>12. AtMostOneGame'
      BY <2>4, <2>10 DEF AtMostOneGame, InGame, RoomInv, NoRoom
    <2>13. SessionsOfGames'
      BY <2>1, <2>4, <2>10 DEF SessionsOfGames, RoomInv, NoRoom
    <2> QED BY <2>9, <2>11, <2>12, <2>13 DEF RoomInv
  <1> QED BY <1>1, <1>2

\* Every step keeps the invariant of the rooms.
LEMMA RoomInvStep == TypeOK /\ RoomInv /\ [Next]_vars => RoomInv'
  <1> SUFFICES ASSUME TypeOK, RoomInv, [Next]_vars PROVE RoomInv'
    OBVIOUS
  <1>1. ASSUME NEW c \in Clients, NEW p \in IdsOf[c], NEW r \in RoomIds,
                NEW max \in 1..MaxPlayersPerRoom,
                CreateRoom(c, p, max, r)
         PROVE  RoomInv'
    <2>1. p \in PlayerIds
      BY RoomManagerAssumption
    <2>2. rooms[r] = NoRoom
      BY <1>1 DEF CreateRoom, Live, RoomInv, DeadRoomsBlank
    <2>3. /\ rooms' = [rooms EXCEPT ![r] = NewRoom(p, max)]
          /\ player_to_room' = [player_to_room EXCEPT ![p] = r]
          /\ player_to_room[p] = NoRoomId
          /\ issued' = issued /\ announced' = announced
      BY <1>1 DEF CreateRoom, TakeSeat, MayTakeSeat, storeVars
    <2>4. MembershipAgreement'
      BY <2>1, <2>2, <2>3, RoomManagerAssumption
         DEF MembershipAgreement, NewRoom, NoRoom, RoomInv, TypeOK
    <2>5. DeadRoomsBlank' /\ SessionsOfGames' /\ AtMostOneGame'
      BY <2>2, <2>3 DEF DeadRoomsBlank, SessionsOfGames, AtMostOneGame, InGame,
         NewRoom, RoomInv, TypeOK
    <2> QED BY <2>4, <2>5 DEF RoomInv
  <1>2. ASSUME NEW c \in Clients, NEW p \in IdsOf[c], NEW r \in RoomIds,
                JoinRoom(c, p, r)
         PROVE  RoomInv'
    <2>1. p \in PlayerIds
      BY RoomManagerAssumption
    <2> DEFINE new == addPlayer(rooms[r], p)
    <2>2. /\ rooms' = [rooms EXCEPT ![r] = new]
          /\ player_to_room' = [player_to_room EXCEPT ![p] = r]
          /\ player_to_room[p] = NoRoomId
          /\ rooms[r].state = "WAITING"
          /\ issued' = issued /\ announced' = announced
      BY <1>2 DEF JoinRoom, TakeSeat, MayTakeSeat, storeVars
    <2>3. /\ new.players = rooms[r].players \cup {p}
          /\ new.state = "WAITING"
          /\ new.session_id = rooms[r].session_id
      BY <1>2, <2>1, <2>2, AddPlayerFields DEF JoinRoom, TypeOK
    <2> HIDE DEF new
    <2>4. MembershipAgreement'
      BY <2>1, <2>2, <2>3, RoomManagerAssumption DEF MembershipAgreement, RoomInv, TypeOK
    <2>5. DeadRoomsBlank' /\ SessionsOfGames' /\ AtMostOneGame'
      BY <2>2, <2>3 DEF DeadRoomsBlank, SessionsOfGames, AtMostOneGame, InGame,
         RoomInv, TypeOK
    <2> QED BY <2>4, <2>5 DEF RoomInv
  <1>3. ASSUME NEW c \in Clients,
                LeaveRoom(c)
         PROVE  RoomInv'
    <2>1. pid[c] \in PlayerIds
      BY <1>3 DEF LeaveRoom, TypeOK
    <2> QED BY <1>3, <2>1, LeaveKeepsRoomInv DEF LeaveRoom, storeVars
  <1>4. ASSUME NEW c \in Clients,
                ToggleReady(c)
         PROVE  RoomInv'
    <2> DEFINE p == pid[c]
               r == player_to_room[p]
               new == toggleReady(rooms[r], p)
    <2>1. /\ p \in PlayerIds /\ r \in RoomIds
          /\ rooms' = [rooms EXCEPT ![r] = new]
          /\ player_to_room' = player_to_room
          /\ issued' = issued /\ announced' = announced
      BY <1>4 DEF ToggleReady, TypeOK, storeVars
    <2>2. new.players = rooms[r].players /\ new.state = rooms[r].state
          /\ new.session_id = rooms[r].session_id
      BY <2>1, ToggleReadyFields DEF TypeOK
    <2>3. rooms[r] # NoRoom /\ rooms[r].state # "NONE"
      BY <2>1 DEF MembershipAgreement, DeadRoomsBlank, RoomInv, NoRoom
    <2> HIDE DEF p, r, new
    <2>4. MembershipAgreement'
      BY <2>1, <2>2 DEF MembershipAgreement, RoomInv, TypeOK
    <2>5. DeadRoomsBlank' /\ SessionsOfGames' /\ AtMostOneGame'
      BY <2>1, <2>2, <2>3 DEF DeadRoomsBlank, SessionsOfGames, AtMostOneGame, InGame,
         RoomInv, TypeOK
    <2> QED BY <2>4, <2>5 DEF RoomInv
  <1>5. ASSUME NEW c \in Clients, NEW s \in SessionIds,
                NEW registered \in SUBSET {s}, NEW tokened \in SUBSET PlayerIds,
                StartGame(c, s, registered, tokened)
         PROVE  RoomInv'
    <2> DEFINE r == player_to_room[pid[c]]
               new == startGame(rooms[r], s)
    <2>1. /\ r \in RoomIds
          /\ rooms' = [rooms EXCEPT ![r] = new]
          /\ player_to_room' = player_to_room
          /\ issued' = issued \cup {s} /\ announced' = announced \cup {s}
          /\ InGame = {}
      BY <1>5 DEF StartGame, hasActiveGame, TypeOK
    <2>2. new.players = rooms[r].players /\ new.state = "IN_GAME"
          /\ new.session_id = s
      BY <2>1, StartGameFields DEF TypeOK
    <2> HIDE DEF r, new
    <2>3. MembershipAgreement'
      BY <2>1, <2>2 DEF MembershipAgreement, RoomInv, TypeOK
    <2>4. DeadRoomsBlank' /\ SessionsOfGames' /\ AtMostOneGame'
      BY <2>1, <2>2, RoomAssumption
         DEF DeadRoomsBlank, SessionsOfGames, AtMostOneGame, InGame, RoomInv, TypeOK
    <2> QED BY <2>3, <2>4 DEF RoomInv
  <1>6. ASSUME NEW c \in Clients,
                RoomListRequest(c)
         PROVE  RoomInv'
    BY <1>6, Untouched DEF RoomListRequest, storeVars
  <1>7. ASSUME NEW c \in Clients,
                Connect(c)
         PROVE  RoomInv'
    BY <1>7, Untouched DEF Connect, storeVars
  <1>8. ASSUME NEW c \in Clients, NEW after \in ConnState,
                Close(c, after)
         PROVE  RoomInv'
    <2>1. CASE pid[c] = NoPlayer
      BY <1>8, <2>1, Untouched DEF Close, storeVars
    <2>2. CASE pid[c] # NoPlayer
      <3>1. pid[c] \in PlayerIds
        BY <2>2 DEF TypeOK
      <3> QED BY <1>8, <2>2, <3>1, LeaveKeepsRoomInv DEF Close, storeVars
    <2> QED BY <2>1, <2>2
  <1>9. ASSUME NEW c \in Clients,
                Destroy(c)
         PROVE  RoomInv'
    BY <1>9, Untouched DEF Destroy, storeVars
  <1>10. ASSUME NEW g \in GameConns,
                GsConnect(g)
         PROVE  RoomInv'
    BY <1>10, Untouched DEF GsConnect, storeVars
  <1>11. ASSUME NEW g \in GameConns, NEW named \in BOOLEAN,
                GsHeartbeat(g, named)
         PROVE  RoomInv'
    BY <1>11, Untouched DEF GsHeartbeat, storeVars
  <1>12. ASSUME NEW g \in GameConns, NEW t \in tokens,
                GsTokenValidate(g, t)
         PROVE  RoomInv'
    BY <1>12, Untouched DEF GsTokenValidate, storeVars
  <1>13. ASSUME NEW g \in GameConns, NEW p \in PlayerIds, NEW s \in Reportable,
                NEW unregistered \in SUBSET SessionIds,
                GsSlotReleased(g, p, s, unregistered)
         PROVE  RoomInv'
    <2> DEFINE r == player_to_room[p]
               left == removePlayer(rooms[r], p)
               new == IF left.players = {} THEN NoRoom ELSE left
    <2>1. /\ r \in RoomIds
          /\ rooms' = [rooms EXCEPT ![r] = new]
          /\ player_to_room' = Unseat({p})
          /\ issued' = issued
          /\ announced' = announced \ SessionsOver(left)
      BY <1>13 DEF GsSlotReleased, TypeOK
    <2>2. /\ left.players = rooms[r].players \ {p}
          /\ left.state = rooms[r].state
          /\ left.session_id = rooms[r].session_id
      BY <2>1, RemovePlayerFields DEF TypeOK
    <2>3. rooms[r].state # "NONE"
      BY <2>1 DEF MembershipAgreement, DeadRoomsBlank, RoomInv, NoRoom
    <2>4. /\ new.players = rooms[r].players \ {p}
          /\ new = NoRoom \/ (new.players # {} /\ new.state = rooms[r].state
                              /\ new.session_id = rooms[r].session_id)
      BY <2>2 DEF NoRoom
    <2>5. announced' = IF new.players = {} THEN announced \ {rooms[r].session_id}
                                           ELSE announced
      BY <2>1, <2>2, <2>4 DEF SessionsOver
    <2> HIDE DEF r, left, new
    <2>6. MembershipAgreement'
      <3>1. \A q \in PlayerIds :
               player_to_room'[q] = IF q = p THEN NoRoomId ELSE player_to_room[q]
        BY <2>1 DEF Unseat
      <3>2. \A q \in RoomIds :
               rooms'[q].players = IF q = r THEN rooms[r].players \ {p}
                                            ELSE rooms[q].players
        BY <2>1, <2>4 DEF TypeOK
      <3>3. player_to_room[p] = r
        BY DEF r
      <3> QED
        BY <3>1, <3>2, <3>3, RoomManagerAssumption DEF MembershipAgreement, RoomInv
    <2>7. DeadRoomsBlank'
      BY <2>1, <2>3, <2>4 DEF DeadRoomsBlank, RoomInv, TypeOK
    <2>8. AtMostOneGame'
      BY <2>1, <2>4 DEF AtMostOneGame, InGame, RoomInv, TypeOK, NoRoom
    <2>9. SessionsOfGames'
      <3>1. ASSUME NEW q \in RoomIds
            PROVE  /\ rooms'[q].state = "IN_GAME" <=> rooms'[q].session_id # NoSession
                   /\ rooms'[q].state = "IN_GAME" =>
                        rooms'[q].session_id \in issued' \cap announced'
        <4>1. CASE q = r /\ new = NoRoom
          BY <2>1, <4>1 DEF NoRoom, TypeOK
        <4>2. CASE q = r /\ new # NoRoom
          BY <2>1, <2>4, <2>5, <4>2 DEF SessionsOfGames, RoomInv, TypeOK
        <4>3. CASE q # r
          <5>1. rooms'[q] = rooms[q]
            BY <2>1, <4>3 DEF TypeOK
          <5>2. rooms[q].state = "IN_GAME" => rooms[r].state # "IN_GAME"
            BY <2>1, <4>3 DEF AtMostOneGame, InGame, RoomInv
          <5>3. rooms[q].state = "IN_GAME" => rooms[q].session_id # rooms[r].session_id
            BY <2>1, <5>2 DEF SessionsOfGames, RoomInv
          <5> QED BY <2>1, <2>5, <5>1, <5>3 DEF SessionsOfGames, RoomInv
        <4> QED BY <4>1, <4>2, <4>3
      <3> QED BY <3>1 DEF SessionsOfGames
    <2> QED BY <2>6, <2>7, <2>8, <2>9 DEF RoomInv
  <1>14. ASSUME NEW g \in GameConns, NEW after \in GsState,
                NEW unregistered \in SUBSET SessionIds,
                GsClose(g, after, unregistered)
         PROVE  RoomInv'
    <2> DEFINE lost == IF gs[g] = "known" THEN InGame ELSE {}
               gone == UNION {rooms[r].players : r \in lost}
               ended == {rooms[r].session_id : r \in lost}
    <2>1. /\ rooms' = [r \in RoomIds |-> IF r \in lost THEN NoRoom ELSE rooms[r]]
          /\ player_to_room' = Unseat(gone)
          /\ issued' = issued
          /\ announced' = announced \ ended
      BY <1>14 DEF GsClose
    <2>2. lost \subseteq InGame /\ InGame \subseteq RoomIds
      BY DEF InGame
    <2>3. \A q \in PlayerIds : q \in gone <=> \E r \in lost : q \in rooms[r].players
      OBVIOUS
    <2>4. \A r \in InGame : r \notin lost => lost = {}
      BY DEF AtMostOneGame, RoomInv
    <2>5. \A r \in InGame : r \notin lost => rooms[r].session_id \in announced'
      BY <2>1, <2>4 DEF SessionsOfGames, RoomInv, InGame
    <2> HIDE DEF lost, gone, ended
    <2>6. MembershipAgreement'
      <3>1. \A q \in PlayerIds :
               player_to_room'[q] = IF q \in gone THEN NoRoomId ELSE player_to_room[q]
        BY <2>1 DEF Unseat
      <3>2. \A r \in RoomIds :
               rooms'[r].players = IF r \in lost THEN {} ELSE rooms[r].players
        BY <2>1 DEF NoRoom
      <3> QED
        BY <2>2, <2>3, <3>1, <3>2, RoomManagerAssumption
           DEF MembershipAgreement, RoomInv
    <2>7. DeadRoomsBlank' /\ AtMostOneGame'
      BY <2>1 DEF DeadRoomsBlank, AtMostOneGame, InGame, RoomInv, NoRoom
    <2>8. SessionsOfGames'
      BY <2>1, <2>5 DEF SessionsOfGames, InGame, RoomInv, NoRoom
    <2> QED BY <2>6, <2>7, <2>8 DEF RoomInv
  <1>15. ASSUME NEW g \in GameConns,
                GsDestroy(g)
         PROVE  RoomInv'
    BY <1>15, Untouched DEF GsDestroy, storeVars
  <1>16. CASE LobbyBroadcast
    BY <1>16, Untouched DEF LobbyBroadcast, storeVars
  <1>17. CASE LobbyBroadcastAborted
    BY <1>17, Untouched DEF LobbyBroadcastAborted, storeVars
  <1>18. ASSUME NEW signal \in Signals,
                Stop(signal)
         PROVE  RoomInv'
    BY <1>18, Untouched DEF Stop, storeVars
  <1>19. ASSUME NEW t \in tokens,
                TokenExpire(t)
         PROVE  RoomInv'
    BY <1>19, Untouched DEF TokenExpire, storeVars
  <1>20. CASE UNCHANGED vars
    BY <1>20, Untouched DEF vars, storeVars
  <1> QED
    BY <1>1, <1>2, <1>3, <1>4, <1>5, <1>6, <1>7, <1>8, <1>9, <1>10, <1>11, <1>12, <1>13, <1>14, <1>15, <1>16, <1>17, <1>18, <1>19, <1>20
       DEF Next, ClientNext, GameServerNext, TimerNext

\* The invariant of the rooms holds in every reachable state.
LEMMA RoomInvCorrect == Spec => []RoomInv
  <1>1. Init => RoomInv
    BY RoomManagerAssumption
       DEF Init, RoomInv, MembershipAgreement, DeadRoomsBlank, SessionsOfGames,
           AtMostOneGame, InGame, NoRoom
  <1> QED BY <1>1, RoomInvStep, TypeCorrect, PTL DEF Spec

\* The index of players and the rosters of the rooms agree in every state of
\* every instance, so no handler meets a seat without a room.
THEOREM Membership == Spec => []MembershipAgreement
  BY RoomInvCorrect, PTL DEF RoomInv

\* handleStartGame's test of hasActiveGame is enough: no interleaving of
\* starts, leaves, releases and lost game servers yields two games.
THEOREM OneGame == Spec => []AtMostOneGame
  BY RoomInvCorrect, PTL DEF RoomInv

\* The chat server is never told of the end of a game that goes on.
THEOREM Announced == Spec => []GamesAnnounced
  <1>1. RoomInv => GamesAnnounced
    BY DEF RoomInv, SessionsOfGames, GamesAnnounced, InGame
  <1> QED BY <1>1, RoomInvCorrect, PTL

-----------------------------------------------------------------------------
(* What one step can do to one room.                                       *)

RoomStep(r) ==
    \/ rooms'[r] = rooms[r]
    \/ rooms'[r] = NoRoom
          /\ \/ rooms[r].state = "IN_GAME"
             \/ BlankReleases
             \/ \E p \in rooms[r].players : isHost(rooms[r], p)
    \/ rooms[r].state = "NONE"
          /\ \E p \in PlayerIds, max \in 1..MaxPlayersPerRoom :
                rooms'[r] = NewRoom(p, max)
    \/ rooms[r].state = "WAITING" /\ ~isFull(rooms[r])
          /\ \E p \in PlayerIds : rooms'[r] = addPlayer(rooms[r], p)
    \/ \E p \in PlayerIds :
          /\ ~isHost(rooms[r], p) \/ rooms[r].state = "IN_GAME" \/ BlankReleases
          /\ rooms'[r] = removePlayer(rooms[r], p)
    \/ \E p \in PlayerIds : rooms'[r] = toggleReady(rooms[r], p)
    \/ InGame = {} /\ \E s \in SessionIds : rooms'[r] = startGame(rooms[r], s)

\* A leave or a disconnect changes rooms as a room step may.
LEMMA LeaveIsRoomStep ==
  ASSUME TypeOK, RoomInv, NEW p \in PlayerIds, rooms' = RoomsAfterLeave(p)
  PROVE  \A q \in RoomIds : RoomStep(q)
  <1> DEFINE r == player_to_room[p]
  <1>1. CASE r = NoRoomId
    BY <1>1 DEF RoomsAfterLeave, RoomStep
  <1>2. CASE r # NoRoomId
    <2>1. r \in RoomIds
      BY <1>2 DEF TypeOK
    <2>2. p \in rooms[r].players
      BY <2>1 DEF MembershipAgreement, RoomInv
    <2>3. rooms' = [rooms EXCEPT ![r] = IF isHost(rooms[r], p) THEN NoRoom
                                        ELSE removePlayer(rooms[r], p)]
      BY <1>2 DEF RoomsAfterLeave
    <2> HIDE DEF r
    <2> QED BY <2>1, <2>2, <2>3 DEF RoomStep, TypeOK
  <1> QED BY <1>1, <1>2

\* Every step of the server changes each room as a room step may.
LEMMA EveryStepIsRoomStep ==
  ASSUME TypeOK, RoomInv, [Next]_vars
  PROVE  \A q \in RoomIds : RoomStep(q)
  <1>1. ASSUME NEW c \in Clients, NEW p \in IdsOf[c], NEW r \in RoomIds,
                NEW max \in 1..MaxPlayersPerRoom,
                CreateRoom(c, p, max, r)
         PROVE  \A q \in RoomIds : RoomStep(q)
    <2>1. p \in PlayerIds
      BY RoomManagerAssumption
    <2>2. rooms[r].state = "NONE" /\ rooms' = [rooms EXCEPT ![r] = NewRoom(p, max)]
      BY <1>1 DEF CreateRoom, Live
    <2> QED BY <2>1, <2>2 DEF RoomStep, TypeOK
  <1>2. ASSUME NEW c \in Clients, NEW p \in IdsOf[c], NEW r \in RoomIds,
                JoinRoom(c, p, r)
         PROVE  \A q \in RoomIds : RoomStep(q)
    <2>1. p \in PlayerIds
      BY RoomManagerAssumption
    <2>2. /\ rooms[r].state = "WAITING" /\ ~isFull(rooms[r])
          /\ rooms' = [rooms EXCEPT ![r] = addPlayer(rooms[r], p)]
      BY <1>2 DEF JoinRoom
    <2> QED BY <2>1, <2>2 DEF RoomStep, TypeOK
  <1>3. ASSUME NEW c \in Clients,
                LeaveRoom(c)
         PROVE  \A q \in RoomIds : RoomStep(q)
    <2>1. pid[c] \in PlayerIds
      BY <1>3 DEF LeaveRoom, TypeOK
    <2> QED BY <1>3, <2>1, LeaveIsRoomStep DEF LeaveRoom
  <1>4. ASSUME NEW c \in Clients,
                ToggleReady(c)
         PROVE  \A q \in RoomIds : RoomStep(q)
    <2> DEFINE p == pid[c]
               r == player_to_room[p]
    <2>1. /\ p \in PlayerIds /\ r \in RoomIds
          /\ rooms' = [rooms EXCEPT ![r] = toggleReady(rooms[r], p)]
      BY <1>4 DEF ToggleReady, TypeOK
    <2> HIDE DEF p, r
    <2> QED BY <2>1 DEF RoomStep, TypeOK
  <1>5. ASSUME NEW c \in Clients, NEW s \in SessionIds,
                NEW registered \in SUBSET {s}, NEW tokened \in SUBSET PlayerIds,
                StartGame(c, s, registered, tokened)
         PROVE  \A q \in RoomIds : RoomStep(q)
    <2> DEFINE r == player_to_room[pid[c]]
    <2>1. /\ r \in RoomIds /\ InGame = {}
          /\ rooms' = [rooms EXCEPT ![r] = startGame(rooms[r], s)]
      BY <1>5 DEF StartGame, hasActiveGame, TypeOK
    <2> HIDE DEF r
    <2> QED BY <2>1 DEF RoomStep, TypeOK
  <1>6. ASSUME NEW c \in Clients,
                RoomListRequest(c)
         PROVE  \A q \in RoomIds : RoomStep(q)
    BY <1>6 DEF RoomListRequest, RoomStep
  <1>7. ASSUME NEW c \in Clients,
                Connect(c)
         PROVE  \A q \in RoomIds : RoomStep(q)
    BY <1>7 DEF Connect, RoomStep
  <1>8. ASSUME NEW c \in Clients, NEW after \in ConnState,
                Close(c, after)
         PROVE  \A q \in RoomIds : RoomStep(q)
    <2>1. CASE pid[c] = NoPlayer
      BY <1>8, <2>1 DEF Close, RoomStep
    <2>2. CASE pid[c] # NoPlayer
      <3>1. pid[c] \in PlayerIds
        BY <2>2 DEF TypeOK
      <3> QED BY <1>8, <2>2, <3>1, LeaveIsRoomStep DEF Close
    <2> QED BY <2>1, <2>2
  <1>9. ASSUME NEW c \in Clients,
                Destroy(c)
         PROVE  \A q \in RoomIds : RoomStep(q)
    BY <1>9 DEF Destroy, RoomStep
  <1>10. ASSUME NEW g \in GameConns,
                GsConnect(g)
         PROVE  \A q \in RoomIds : RoomStep(q)
    BY <1>10 DEF GsConnect, RoomStep
  <1>11. ASSUME NEW g \in GameConns, NEW named \in BOOLEAN,
                GsHeartbeat(g, named)
         PROVE  \A q \in RoomIds : RoomStep(q)
    BY <1>11 DEF GsHeartbeat, RoomStep
  <1>12. ASSUME NEW g \in GameConns, NEW t \in tokens,
                GsTokenValidate(g, t)
         PROVE  \A q \in RoomIds : RoomStep(q)
    BY <1>12 DEF GsTokenValidate, RoomStep
  <1>13. ASSUME NEW g \in GameConns, NEW p \in PlayerIds, NEW s \in Reportable,
                NEW unregistered \in SUBSET SessionIds,
                GsSlotReleased(g, p, s, unregistered)
         PROVE  \A q \in RoomIds : RoomStep(q)
    <2> DEFINE r == player_to_room[p]
               left == removePlayer(rooms[r], p)
    <2>1. /\ r \in RoomIds
          /\ rooms' = [rooms EXCEPT ![r] = IF left.players = {} THEN NoRoom ELSE left]
          /\ s = NoSession \/ s = rooms[r].session_id
      BY <1>13 DEF GsSlotReleased, TypeOK
    <2>2. BlankReleases \/ rooms[r].state = "IN_GAME"
      BY <2>1, RoomAssumption DEF Reportable, SessionsOfGames, RoomInv, TypeOK
    <2> QED BY <2>1, <2>2 DEF RoomStep, TypeOK
  <1>14. ASSUME NEW g \in GameConns, NEW after \in GsState,
                NEW unregistered \in SUBSET SessionIds,
                GsClose(g, after, unregistered)
         PROVE  \A q \in RoomIds : RoomStep(q)
    BY <1>14 DEF GsClose, InGame, RoomStep
  <1>15. ASSUME NEW g \in GameConns,
                GsDestroy(g)
         PROVE  \A q \in RoomIds : RoomStep(q)
    BY <1>15 DEF GsDestroy, RoomStep
  <1>16. CASE LobbyBroadcast
    BY <1>16 DEF LobbyBroadcast, RoomStep
  <1>17. CASE LobbyBroadcastAborted
    BY <1>17 DEF LobbyBroadcastAborted, RoomStep
  <1>18. ASSUME NEW signal \in Signals,
                Stop(signal)
         PROVE  \A q \in RoomIds : RoomStep(q)
    BY <1>18 DEF Stop, RoomStep
  <1>19. ASSUME NEW t \in tokens,
                TokenExpire(t)
         PROVE  \A q \in RoomIds : RoomStep(q)
    BY <1>19 DEF TokenExpire, RoomStep
  <1>20. CASE UNCHANGED vars
    BY <1>20 DEF vars, RoomStep
  <1> QED
    BY <1>1, <1>2, <1>3, <1>4, <1>5, <1>6, <1>7, <1>8, <1>9, <1>10, <1>11, <1>12, <1>13, <1>14, <1>15, <1>16, <1>17, <1>18, <1>19, <1>20
       DEF Next, ClientNext, GameServerNext, TimerNext

\* A game in progress is closed: no step re-opens it, gives it another
\* session or seats anybody in it.
THEOREM ClosedGames == Spec => GameIsClosed
  <1> DEFINE Closed(r) ==
               rooms[r].state = "IN_GAME" /\ rooms'[r].state # "NONE" =>
                   /\ rooms'[r].state = "IN_GAME"
                   /\ rooms'[r].session_id = rooms[r].session_id
                   /\ rooms'[r].players \subseteq rooms[r].players
  <1>1. ASSUME TypeOK, RoomInv, [Next]_vars, NEW r \in RoomIds
        PROVE  Closed(r)
    <2>1. RoomStep(r)
      BY <1>1, EveryStepIsRoomStep
    <2>2. rooms[r] \in RoomType
      BY <1>1 DEF TypeOK
    <2>3. CASE rooms[r].state # "IN_GAME" \/ rooms'[r] = NoRoom \/ rooms'[r] = rooms[r]
      BY <2>3 DEF NoRoom
    <2>4. ASSUME NEW p \in PlayerIds, rooms'[r] = removePlayer(rooms[r], p)
          PROVE  Closed(r)
      BY <2>2, <2>4, RemovePlayerFields
    <2>5. ASSUME NEW p \in PlayerIds, rooms'[r] = toggleReady(rooms[r], p)
          PROVE  Closed(r)
      BY <2>2, <2>5, ToggleReadyFields
    <2>6. rooms[r].state = "IN_GAME" => InGame # {}
      BY DEF InGame
    <2> HIDE DEF Closed
    <2> QED BY <2>1, <2>3, <2>4, <2>5, <2>6 DEF RoomStep
  <1>2. TypeOK /\ RoomInv /\ [Next]_vars => [\A r \in RoomIds : Closed(r)]_vars
    BY <1>1
  <1> QED BY <1>2, TypeCorrect, RoomInvCorrect, PTL DEF Spec, GameIsClosed

\* If every SlotReleased names its session, a waiting room always holds its
\* host, so somebody can start it or, by leaving, remove it.
THEOREM HostStays == ~BlankReleases => (Spec => []HostPresent)
  <1> SUFFICES ASSUME ~BlankReleases PROVE Spec => []HostPresent
    OBVIOUS
  <1> DEFINE Hosted(room) == room.state = "WAITING" =>
                 room.host_id \in room.players /\ room.is_host = {room.host_id}
  <1>1. Init => HostPresent
    BY DEF Init, HostPresent, NoRoom
  <1>2. ASSUME TypeOK, RoomInv, [Next]_vars, HostPresent, NEW r \in RoomIds
        PROVE  Hosted(rooms'[r])
    <2>1. RoomStep(r)
      BY <1>2, EveryStepIsRoomStep
    <2>2. rooms[r] \in RoomType /\ Hosted(rooms[r])
      BY <1>2 DEF TypeOK, HostPresent
    <2>3. Hosted(NoRoom)
      BY DEF NoRoom
    <2>4. ASSUME NEW p \in PlayerIds, NEW max \in 1..MaxPlayersPerRoom
          PROVE  Hosted(NewRoom(p, max))
      BY DEF NewRoom
    <2>5. ASSUME NEW p \in PlayerIds, rooms[r].state = "WAITING", ~isFull(rooms[r])
          PROVE  Hosted(addPlayer(rooms[r], p))
      BY <2>2, <2>5, AddPlayerFields
    <2>6. ASSUME NEW p \in PlayerIds,
                 ~isHost(rooms[r], p) \/ rooms[r].state = "IN_GAME"
          PROVE  Hosted(removePlayer(rooms[r], p))
      <3>1. /\ removePlayer(rooms[r], p).players = rooms[r].players \ {p}
            /\ removePlayer(rooms[r], p).is_host = rooms[r].is_host \ {p}
            /\ removePlayer(rooms[r], p).state = rooms[r].state
            /\ removePlayer(rooms[r], p).host_id = rooms[r].host_id
        BY <2>2, RemovePlayerFields
      <3> QED BY <2>2, <2>6, <3>1 DEF isHost
    <2>7. ASSUME NEW p \in PlayerIds PROVE Hosted(toggleReady(rooms[r], p))
      BY <2>2, ToggleReadyFields
    <2>8. ASSUME NEW s \in SessionIds PROVE Hosted(startGame(rooms[r], s))
      BY <2>2, StartGameFields
    <2> HIDE DEF Hosted
    <2> QED BY <2>1, <2>2, <2>3, <2>4, <2>5, <2>6, <2>7, <2>8 DEF RoomStep
  <1>3. TypeOK /\ RoomInv /\ HostPresent /\ [Next]_vars => HostPresent'
    BY <1>2 DEF HostPresent
  <1> QED BY <1>1, <1>3, TypeCorrect, RoomInvCorrect, PTL DEF Spec

-----------------------------------------------------------------------------
(* Sessions and the players they speak for.                                *)

\* A weak pointer in sessions_ that can be locked leads to a session that
\* exists and goes by the id it is registered under.
RegistrationSound ==
    \A p \in PlayerIds : sessions[p] \in Clients =>
        /\ conn[sessions[p]] # "idle"
        /\ p # NoPlayer => pid[sessions[p]] = p

SeatedRegistered == \A p \in Seated : sessions[p] # Unregistered

SessionInv == RegistrationSound /\ SeatedRegistered

\* A step that leaves seats and registrations alone keeps their invariant.
LEMMA SessionsUntouched ==
  ASSUME SessionInv, sessions' = sessions, conn' = conn, pid' = pid,
         Seated' \subseteq Seated
  PROVE  SessionInv'
  BY DEF SessionInv, RegistrationSound, SeatedRegistered

\* CreateRoom and JoinRoom register whom they seat.
LEMMA SeatKeepsSessionInv ==
  ASSUME TypeOK, SessionInv, NEW c \in Clients, NEW p \in PlayerIds,
         NEW r \in RoomIds, Reads(c), MayTakeSeat(c, p), TakeSeat(c, p, r)
  PROVE  SessionInv'
  <1>1. /\ player_to_room' = [player_to_room EXCEPT ![p] = r]
        /\ pid' = [pid EXCEPT ![c] = p]
        /\ sessions' = [sessions EXCEPT ![p] = c]
        /\ pid[c] \in {NoPlayer, p}
    BY DEF TakeSeat, MayTakeSeat
  <1>2. \A d \in Clients : conn'[d] = "idle" => conn[d] = "idle"
    BY DEF TakeSeat, Handled, TypeOK
  <1>3. conn[c] # "idle"
    BY DEF Reads
  <1>4. RegistrationSound'
    BY <1>1, <1>2, <1>3 DEF SessionInv, RegistrationSound, TypeOK
  <1>5. SeatedRegistered'
    BY <1>1, RoomManagerAssumption DEF SessionInv, SeatedRegistered, Seated, TypeOK
  <1> QED BY <1>4, <1>5 DEF SessionInv

\* Every step keeps the invariant of the registrations.
LEMMA SessionInvStep == TypeOK /\ SessionInv /\ [Next]_vars => SessionInv'
  <1> SUFFICES ASSUME TypeOK, SessionInv, [Next]_vars PROVE SessionInv'
    OBVIOUS
  <1>1. ASSUME NEW c \in Clients, NEW p \in IdsOf[c], NEW r \in RoomIds,
                NEW max \in 1..MaxPlayersPerRoom,
                CreateRoom(c, p, max, r)
         PROVE  SessionInv'
    <2>1. p \in PlayerIds
      BY RoomManagerAssumption
    <2> QED BY <1>1, <2>1, SeatKeepsSessionInv DEF CreateRoom
  <1>2. ASSUME NEW c \in Clients, NEW p \in IdsOf[c], NEW r \in RoomIds,
                JoinRoom(c, p, r)
         PROVE  SessionInv'
    <2>1. p \in PlayerIds
      BY RoomManagerAssumption
    <2> QED BY <1>2, <2>1, SeatKeepsSessionInv DEF JoinRoom
  <1>3. ASSUME NEW c \in Clients,
                LeaveRoom(c)
         PROVE  SessionInv'
    <2>1. Seated' \subseteq Seated
      BY <1>3 DEF LeaveRoom, Unseat, Seated
    <2> QED BY <1>3, <2>1, SessionsUntouched DEF LeaveRoom
  <1>4. ASSUME NEW c \in Clients,
                ToggleReady(c)
         PROVE  SessionInv'
    BY <1>4, SessionsUntouched DEF ToggleReady, Seated
  <1>5. ASSUME NEW c \in Clients, NEW s \in SessionIds,
                NEW registered \in SUBSET {s}, NEW tokened \in SUBSET PlayerIds,
                StartGame(c, s, registered, tokened)
         PROVE  SessionInv'
    BY <1>5, SessionsUntouched DEF StartGame, Seated
  <1>6. ASSUME NEW c \in Clients,
                RoomListRequest(c)
         PROVE  SessionInv'
    BY <1>6, SessionsUntouched DEF RoomListRequest, Seated
  <1>7. ASSUME NEW c \in Clients,
                Connect(c)
         PROVE  SessionInv'
    BY <1>7 DEF Connect, SessionInv, RegistrationSound, SeatedRegistered, Seated, TypeOK
  <1>8. ASSUME NEW c \in Clients, NEW after \in ConnState,
                Close(c, after)
         PROVE  SessionInv'
    <2> DEFINE p == pid[c]
    <2>1. /\ conn[c] = "open" /\ after # "idle"
          /\ conn' = [conn EXCEPT ![c] = after]
          /\ pid' = [pid EXCEPT ![c] = NoPlayer]
      BY <1>8 DEF Close
    <2>2. CASE p = NoPlayer
      <3>1. sessions' = sessions /\ player_to_room' = player_to_room
        BY <1>8, <2>2 DEF Close
      <3> QED
        BY <2>1, <2>2, <3>1
           DEF SessionInv, RegistrationSound, SeatedRegistered, Seated, TypeOK
    <2>3. CASE p # NoPlayer
      <3>1. /\ p \in PlayerIds
            /\ sessions' = [sessions EXCEPT ![p] = Unregistered]
            /\ player_to_room' = Unseat(Departing(p))
        BY <1>8, <2>3 DEF Close, TypeOK
      <3>2. Seated' \subseteq Seated \ {p}
        BY <3>1, RoomManagerAssumption DEF Unseat, Departing, Seated
      <3>3. RegistrationSound'
        BY <2>1, <2>3, <3>1, RoomManagerAssumption
           DEF SessionInv, RegistrationSound, TypeOK
      <3>4. SeatedRegistered'
        BY <3>1, <3>2 DEF SessionInv, SeatedRegistered, Seated, TypeOK
      <3> QED BY <3>3, <3>4 DEF SessionInv
    <2> QED BY <2>2, <2>3
  <1>9. ASSUME NEW c \in Clients,
                Destroy(c)
         PROVE  SessionInv'
    <2>1. /\ conn' = [conn EXCEPT ![c] = "idle"]
          /\ pid' = [pid EXCEPT ![c] = NoPlayer]
          /\ \A q \in PlayerIds : sessions'[q] = IF sessions[q] = c THEN Expired
                                                ELSE sessions[q]
          /\ player_to_room' = player_to_room
      BY <1>9 DEF Destroy
    <2> QED
      BY <2>1, RoomManagerAssumption
         DEF SessionInv, RegistrationSound, SeatedRegistered, Seated, TypeOK
  <1>10. ASSUME NEW g \in GameConns,
                GsConnect(g)
         PROVE  SessionInv'
    BY <1>10, SessionsUntouched DEF GsConnect, Seated
  <1>11. ASSUME NEW g \in GameConns, NEW named \in BOOLEAN,
                GsHeartbeat(g, named)
         PROVE  SessionInv'
    BY <1>11, SessionsUntouched DEF GsHeartbeat, Seated
  <1>12. ASSUME NEW g \in GameConns, NEW t \in tokens,
                GsTokenValidate(g, t)
         PROVE  SessionInv'
    BY <1>12, SessionsUntouched DEF GsTokenValidate, Seated
  <1>13. ASSUME NEW g \in GameConns, NEW p \in PlayerIds, NEW s \in Reportable,
                NEW unregistered \in SUBSET SessionIds,
                GsSlotReleased(g, p, s, unregistered)
         PROVE  SessionInv'
    <2>1. /\ sessions' = [sessions EXCEPT ![p] = Unregistered]
          /\ player_to_room' = Unseat({p})
          /\ conn' = conn /\ pid' = pid
      BY <1>13 DEF GsSlotReleased
    <2>2. Seated' \subseteq Seated \ {p}
      BY <2>1, RoomManagerAssumption DEF Unseat, Seated
    <2> QED
      BY <2>1, <2>2, RoomManagerAssumption
         DEF SessionInv, RegistrationSound, SeatedRegistered, Seated, TypeOK
  <1>14. ASSUME NEW g \in GameConns, NEW after \in GsState,
                NEW unregistered \in SUBSET SessionIds,
                GsClose(g, after, unregistered)
         PROVE  SessionInv'
    <2>1. Seated' \subseteq Seated
      BY <1>14 DEF GsClose, Unseat, Seated
    <2> QED BY <1>14, <2>1, SessionsUntouched DEF GsClose
  <1>15. ASSUME NEW g \in GameConns,
                GsDestroy(g)
         PROVE  SessionInv'
    BY <1>15, SessionsUntouched DEF GsDestroy, Seated
  <1>16. CASE LobbyBroadcast
    BY <1>16, SessionsUntouched DEF LobbyBroadcast, Seated
  <1>17. CASE LobbyBroadcastAborted
    BY <1>17, SessionsUntouched DEF LobbyBroadcastAborted, Seated
  <1>18. ASSUME NEW signal \in Signals,
                Stop(signal)
         PROVE  SessionInv'
    BY <1>18, SessionsUntouched DEF Stop, Seated
  <1>19. ASSUME NEW t \in tokens,
                TokenExpire(t)
         PROVE  SessionInv'
    BY <1>19, SessionsUntouched DEF TokenExpire, Seated
  <1>20. CASE UNCHANGED vars
    BY <1>20, SessionsUntouched DEF vars, Seated
  <1> QED
    BY <1>1, <1>2, <1>3, <1>4, <1>5, <1>6, <1>7, <1>8, <1>9, <1>10, <1>11, <1>12, <1>13, <1>14, <1>15, <1>16, <1>17, <1>18, <1>19, <1>20
       DEF Next, ClientNext, GameServerNext, TimerNext

\* The invariant of the registrations holds in every reachable state.
LEMMA SessionInvCorrect == Spec => []SessionInv
  <1>1. Init => SessionInv
    BY RoomManagerAssumption
       DEF Init, SessionInv, RegistrationSound, SeatedRegistered, Seated
  <1> QED BY <1>1, SessionInvStep, TypeCorrect, PTL DEF Spec

\* Whoever has a seat is registered, and the session found there, if it still
\* exists, speaks for that player: messages to members are never misdirected.
THEOREM Registered == Spec => []MembersRegistered
  <1>1. SessionInv => MembersRegistered
    BY DEF SessionInv, RegistrationSound, SeatedRegistered, MembersRegistered, Seated
  <1> QED BY <1>1, SessionInvCorrect, PTL

-----------------------------------------------------------------------------

(* Tokens.                                                                 *)

\* Tokens are for sessions that have been issued, so that those of a new game
\* are new.
TokensOfIssued == \A t \in tokens \cup redeemed : t.session \in issued

\* validateToken deletes the token it accepts, every game has a session id of
\* its own, so no token that was accepted is ever stored again.
THEOREM SingleUse == Spec => []TokensSingleUse
  <1> DEFINE Inv == TokensOfIssued /\ TokensSingleUse
  <1>1. Init => Inv
    BY DEF Init, TokensOfIssued, TokensSingleUse
  <1>2. TypeOK /\ Inv /\ [Next]_vars => Inv'
    <2> SUFFICES ASSUME TypeOK, Inv, [Next]_vars PROVE Inv'
      OBVIOUS
    <2>1. ASSUME tokens' = tokens, redeemed' = redeemed, issued' = issued PROVE Inv'
      BY <2>1 DEF TokensOfIssued, TokensSingleUse
    <2>2. ASSUME NEW c \in Clients, NEW s \in SessionIds,
                 NEW registered \in SUBSET {s}, NEW tokened \in SUBSET PlayerIds,
                 StartGame(c, s, registered, tokened)
          PROVE  Inv'
      <3>1. /\ s \notin issued /\ issued' = issued \cup {s} /\ redeemed' = redeemed
            /\ tokens' = tokens \cup {[player |-> q, session |-> s] : q \in tokened}
        BY <2>2 DEF StartGame
      <3>2. \A q \in tokened : [player |-> q, session |-> s].session = s
        OBVIOUS
      <3>3. \A t \in tokens' : t \in tokens \/ t.session = s
        BY <3>1
      <3> QED BY <3>1, <3>3 DEF TokensOfIssued, TokensSingleUse
    <2>3. ASSUME NEW t \in tokens,
                 TokenExpire(t) \/ \E g \in GameConns : GsTokenValidate(g, t)
          PROVE  Inv'
      BY <2>3 DEF TokenExpire, GsTokenValidate, TokensOfIssued, TokensSingleUse
    <2>4. ASSUME NEW c \in Clients,
                 \/ \E p \in IdsOf[c], r \in RoomIds :
                       \/ \E max \in 1..MaxPlayersPerRoom : CreateRoom(c, p, max, r)
                       \/ JoinRoom(c, p, r)
                 \/ LeaveRoom(c) \/ ToggleReady(c) \/ RoomListRequest(c)
                 \/ Connect(c) \/ Destroy(c) \/ \E after \in ConnState : Close(c, after)
          PROVE  tokens' = tokens /\ redeemed' = redeemed /\ issued' = issued
      BY <2>4 DEF CreateRoom, JoinRoom, TakeSeat, LeaveRoom, ToggleReady,
                  RoomListRequest, Connect, Destroy, Close, storeVars
    <2>5. ASSUME NEW g \in GameConns,
                 \/ GsConnect(g) \/ GsDestroy(g)
                 \/ \E named \in BOOLEAN : GsHeartbeat(g, named)
                 \/ \E p \in PlayerIds, s \in Reportable, unregistered \in SUBSET SessionIds :
                       GsSlotReleased(g, p, s, unregistered)
                 \/ \E after \in GsState, unregistered \in SUBSET SessionIds :
                       GsClose(g, after, unregistered)
          PROVE  tokens' = tokens /\ redeemed' = redeemed /\ issued' = issued
      BY <2>5 DEF GsConnect, GsDestroy, GsHeartbeat, GsSlotReleased, GsClose, storeVars
    <2>6. ASSUME \/ TimerNext
                 \/ \E signal \in Signals : Stop(signal)
                 \/ UNCHANGED vars
          PROVE  tokens' = tokens /\ redeemed' = redeemed /\ issued' = issued
      BY <2>6 DEF TimerNext, LobbyBroadcast, LobbyBroadcastAborted, Stop, vars, storeVars
    <2> HIDE DEF Inv
    <2>7. ASSUME NEW c \in Clients, ClientNext(c) PROVE Inv'
      BY <2>1, <2>2, <2>4, <2>7 DEF ClientNext
    <2>8. ASSUME NEW g \in GameConns, GameServerNext(g) PROVE Inv'
      BY <2>1, <2>3, <2>5, <2>8 DEF GameServerNext
    <2> QED BY <2>1, <2>3, <2>6, <2>7, <2>8 DEF Next
  <1> QED BY <1>1, <1>2, TypeCorrect, PTL DEF Spec

-----------------------------------------------------------------------------
(* The delayed broadcast.                                                  *)

\* Until the server is told to stop, the timer is never cancelled.
BroadcastInv ==
    /\ LobbyInformed
    /\ ~stopped => lobby_timer # "cancelled"

\* A step that calls notifyRoomListChanged for the lobby it leaves behind.
LEMMA ListNotified ==
  ASSUME TypeOK, BroadcastInv, stopped' = stopped, lobby_timer' = Notified(lobby_sessions'),
         ObserveList
  PROVE  BroadcastInv'
  <1>1. stale' \subseteq lobby_sessions'
    BY DEF ObserveList
  <1>2. lobby_timer \in {"idle", "armed", "cancelled"}
    BY DEF TypeOK
  <1>3. stopped \in BOOLEAN
    BY DEF TypeOK
  <1> QED BY <1>1, <1>2, <1>3 DEF BroadcastInv, LobbyInformed, Notified

\* A step that leaves the list as it is and its readers where they are.
LEMMA ListKept ==
  ASSUME BroadcastInv, stopped' = stopped, lobby_timer' = lobby_timer,
         \A r \in RoomIds : toRoomSummary(rooms'[r]) = toRoomSummary(rooms[r]),
         ObserveList
  PROVE  BroadcastInv'
  <1>1. stale' = stale \cap lobby_sessions'
    BY DEF ObserveList, RoomListChanges
  <1> QED BY <1>1 DEF BroadcastInv, LobbyInformed

\* Rooms that are in game, or gone, are not on the list.
LEMMA NotListed ==
  ASSUME NEW room, room.state # "WAITING"
  PROVE  toRoomSummary(room) = <<>>
  BY DEF toRoomSummary

\* Every step keeps the invariant of the broadcast.
LEMMA BroadcastStep ==
  ASSUME ~BlankReleases, TypeOK, RoomInv, BroadcastInv, [Next]_vars
  PROVE  BroadcastInv'
  <1>1. ASSUME NEW c \in Clients, NEW p \in IdsOf[c], NEW r \in RoomIds,
                \/ \E max \in 1..MaxPlayersPerRoom : CreateRoom(c, p, max, r)
                \/ JoinRoom(c, p, r)
         PROVE  BroadcastInv'
    <2>1. lobby_sessions' = lobby_sessions \ {c} /\ stopped' = stopped
          /\ lobby_timer' = Notified(lobby_sessions \ {c}) /\ ObserveList
      BY <1>1 DEF CreateRoom, JoinRoom, TakeSeat
    <2>2. lobby_timer' = Notified(lobby_sessions')
      BY <2>1 DEF Notified
    <2> QED BY <2>1, <2>2, ListNotified
  <1>2. ASSUME NEW c \in Clients, LeaveRoom(c) PROVE BroadcastInv'
    BY <1>2, ListNotified DEF LeaveRoom
  <1>3. ASSUME NEW c \in Clients, ToggleReady(c) PROVE BroadcastInv'
    <2> DEFINE p == pid[c]
               r == player_to_room[p]
    <2>1. /\ p \in PlayerIds /\ r \in RoomIds
          /\ rooms' = [rooms EXCEPT ![r] = toggleReady(rooms[r], p)]
          /\ stopped' = stopped /\ lobby_timer' = lobby_timer /\ ObserveList
      BY <1>3 DEF ToggleReady, TypeOK
    <2> HIDE DEF p, r
    <2>2. rooms[r] \in RoomType
      BY <2>1 DEF TypeOK
    <2>3. toRoomSummary(toggleReady(rooms[r], p)) = toRoomSummary(rooms[r])
      BY <2>1, <2>2, ToggleReadyFields DEF toRoomSummary
    <2>4. \A q \in RoomIds : toRoomSummary(rooms'[q]) = toRoomSummary(rooms[q])
      BY <2>1, <2>3 DEF TypeOK
    <2> QED BY <2>1, <2>4, ListKept
  <1>4. ASSUME NEW c \in Clients, NEW s \in SessionIds,
                NEW registered \in SUBSET {s}, NEW tokened \in SUBSET PlayerIds,
                StartGame(c, s, registered, tokened)
         PROVE  BroadcastInv'
    <2>1. lobby_timer' = Notified(lobby_sessions) /\ lobby_sessions' = lobby_sessions
          /\ stopped' = stopped /\ ObserveList
      BY <1>4 DEF StartGame
    <2>2. lobby_timer' = Notified(lobby_sessions')
      BY <2>1 DEF Notified
    <2> QED BY <2>1, <2>2, ListNotified
  <1>5. ASSUME NEW c \in Clients, RoomListRequest(c) \/ Connect(c) \/ Destroy(c)
        PROVE  BroadcastInv'
    BY <1>5 DEF RoomListRequest, Connect, Destroy, BroadcastInv, LobbyInformed
  <1>6. ASSUME NEW c \in Clients, NEW after \in ConnState, Close(c, after)
        PROVE  BroadcastInv'
    <2>1. stopped' = stopped /\ ObserveList
      BY <1>6 DEF Close
    <2>2. CASE pid[c] = NoPlayer
      <3>1. rooms' = rooms /\ lobby_timer' = lobby_timer
        BY <1>6, <2>2 DEF Close
      <3> QED BY <2>1, <3>1, ListKept
    <2>3. CASE pid[c] # NoPlayer /\ player_to_room[pid[c]] = NoRoomId
      <3>1. rooms' = rooms /\ lobby_timer' = lobby_timer
        BY <1>6, <2>3 DEF Close, RoomsAfterLeave
      <3> QED BY <2>1, <3>1, ListKept
    <2>4. CASE pid[c] # NoPlayer /\ player_to_room[pid[c]] # NoRoomId
      BY <1>6, <2>1, <2>4, ListNotified DEF Close
    <2> QED BY <2>2, <2>3, <2>4
  <1>7. ASSUME NEW g \in GameConns,
               \/ GsConnect(g) \/ GsDestroy(g)
               \/ \E named \in BOOLEAN : GsHeartbeat(g, named)
               \/ \E t \in tokens : GsTokenValidate(g, t)
        PROVE  BroadcastInv'
    BY <1>7 DEF GsConnect, GsDestroy, GsHeartbeat, GsTokenValidate, BroadcastInv, LobbyInformed
  <1>8. ASSUME NEW g \in GameConns, NEW p \in PlayerIds, NEW s \in Reportable,
                NEW unregistered \in SUBSET SessionIds,
                GsSlotReleased(g, p, s, unregistered)
         PROVE  BroadcastInv'
    <2> DEFINE r == player_to_room[p]
               left == removePlayer(rooms[r], p)
               new == IF left.players = {} THEN NoRoom ELSE left
    <2>1. /\ r \in RoomIds /\ rooms' = [rooms EXCEPT ![r] = new]
          /\ s = NoSession \/ s = rooms[r].session_id
          /\ stopped' = stopped /\ lobby_timer' = lobby_timer /\ ObserveList
      BY <1>8 DEF GsSlotReleased, TypeOK
    <2>2. rooms[r].state = "IN_GAME"
      BY <2>1, RoomAssumption DEF Reportable, SessionsOfGames, RoomInv, TypeOK
    <2>3. rooms[r] \in RoomType
      BY <2>1 DEF TypeOK
    <2>4. new.state # "WAITING"
      BY <2>2, <2>3, RemovePlayerFields DEF NoRoom
    <2> HIDE DEF new, r
    <2>5. \A q \in RoomIds : toRoomSummary(rooms'[q]) = toRoomSummary(rooms[q])
      BY <2>1, <2>2, <2>4, NotListed DEF TypeOK
    <2> QED BY <2>1, <2>5, ListKept
  <1>9. ASSUME NEW g \in GameConns, NEW after \in GsState,
                NEW unregistered \in SUBSET SessionIds,
                GsClose(g, after, unregistered)
         PROVE  BroadcastInv'
    <2>1. /\ \A q \in RoomIds : \/ rooms'[q] = rooms[q]
                                \/ rooms'[q] = NoRoom /\ rooms[q].state = "IN_GAME"
          /\ stopped' = stopped /\ lobby_timer' = lobby_timer /\ ObserveList
      <3>1. stopped' = stopped /\ lobby_timer' = lobby_timer /\ ObserveList
        BY <1>9 DEF GsClose
      <3>2. PICK lost \in SUBSET InGame :
                   rooms' = [q \in RoomIds |-> IF q \in lost THEN NoRoom ELSE rooms[q]]
        BY <1>9 DEF GsClose
      <3>3. \A q \in RoomIds : q \in lost => rooms[q].state = "IN_GAME"
        BY DEF InGame
      <3> QED BY <3>1, <3>2, <3>3
    <2>2. NoRoom.state # "WAITING"
      BY DEF NoRoom
    <2>3. \A q \in RoomIds : toRoomSummary(rooms'[q]) = toRoomSummary(rooms[q])
      BY <2>1, <2>2, NotListed
    <2> QED BY <2>1, <2>3, ListKept
  <1>10. CASE \/ TimerNext
              \/ \E signal \in Signals : Stop(signal)
              \/ \E t \in tokens : TokenExpire(t)
              \/ UNCHANGED vars
    BY <1>10 DEF TimerNext, LobbyBroadcast, LobbyBroadcastAborted, Stop, TokenExpire, vars,
                 BroadcastInv, LobbyInformed
  <1> QED BY <1>1, <1>2, <1>3, <1>4, <1>5, <1>6, <1>7, <1>8, <1>9, <1>10
             DEF Next, ClientNext, GameServerNext

\* If every SlotReleased names its session, no change of the list is lost in
\* the coalescing of broadcasts: whoever has missed one will get one.
THEOREM Informed == ~BlankReleases => (Spec => []LobbyInformed)
  <1> SUFFICES ASSUME ~BlankReleases PROVE Spec => []LobbyInformed
    OBVIOUS
  <1>1. Init => BroadcastInv
    BY DEF Init, BroadcastInv, LobbyInformed
  <1>2. TypeOK /\ RoomInv /\ BroadcastInv /\ [Next]_vars => BroadcastInv'
    BY BroadcastStep
  <1>3. BroadcastInv => LobbyInformed
    BY DEF BroadcastInv
  <1> QED BY <1>1, <1>2, <1>3, TypeCorrect, RoomInvCorrect, PTL DEF Spec

-----------------------------------------------------------------------------
(* Connections, seats and the lobby, if no read outlives close().          *)

\* A session that has been closed processes nothing more.
NoneClosing == \A c \in Clients : conn[c] # "closing"

ConnectedInv == NoneClosing /\ MembersConnected

\* CreateRoom and JoinRoom seat a player behind an open connection.
LEMMA SeatKeepsConnected ==
  ASSUME TypeOK, ConnectedInv, NEW c \in Clients, NEW p \in PlayerIds,
         NEW r \in RoomIds, Reads(c), MayTakeSeat(c, p), TakeSeat(c, p, r)
  PROVE  ConnectedInv'
  <1>1. /\ player_to_room' = [player_to_room EXCEPT ![p] = r]
        /\ pid' = [pid EXCEPT ![c] = p]
        /\ sessions' = [sessions EXCEPT ![p] = c]
        /\ pid[c] \in {NoPlayer, p}
    BY DEF TakeSeat, MayTakeSeat
  <1>2. conn[c] = "open"
    BY DEF Reads, ConnectedInv, NoneClosing
  <1>3. conn' = conn
    BY <1>2 DEF TakeSeat, Handled, TypeOK
  <1>4. Seated' \subseteq Seated \cup {p}
    BY <1>1 DEF Seated, TypeOK
  <1>5. ASSUME NEW q \in Seated' \ {NoPlayer}
        PROVE  /\ sessions'[q] \in Clients
               /\ conn'[sessions'[q]] = "open"
               /\ pid'[sessions'[q]] = q
    <2>1. CASE q = p
      BY <1>1, <1>2, <1>3, <2>1 DEF TypeOK
    <2>2. CASE q # p
      <3>1. q \in Seated \ {NoPlayer} /\ q \in PlayerIds
        BY <1>4, <2>2 DEF Seated
      <3>2. sessions'[q] = sessions[q]
        BY <1>1, <2>2, <3>1 DEF TypeOK
      <3>3. /\ sessions[q] \in Clients
            /\ conn[sessions[q]] = "open"
            /\ pid[sessions[q]] = q
        BY <3>1 DEF ConnectedInv, MembersConnected
      <3>4. sessions[q] # c
        BY <1>1, <2>2, <3>1, <3>3
      <3> QED BY <1>1, <1>3, <3>2, <3>3, <3>4 DEF TypeOK
    <2> QED BY <2>1, <2>2
  <1>6. MembersConnected'
    BY <1>5 DEF MembersConnected
  <1> QED BY <1>3, <1>6 DEF ConnectedInv, NoneClosing

\* A step that seats nobody and leaves connections and registrations alone.
LEMMA ConnectedUntouched ==
  ASSUME ConnectedInv, sessions' = sessions, conn' = conn, pid' = pid,
         Seated' \subseteq Seated
  PROVE  ConnectedInv'
  BY DEF ConnectedInv, NoneClosing, MembersConnected

\* Every step keeps members connected.
LEMMA ConnectedStep ==
  ASSUME ~LateReads, TypeOK, ConnectedInv, [Next]_vars
  PROVE  ConnectedInv'
  <1>1. ASSUME NEW c \in Clients, NEW p \in IdsOf[c], NEW r \in RoomIds,
                \/ \E max \in 1..MaxPlayersPerRoom : CreateRoom(c, p, max, r)
                \/ JoinRoom(c, p, r)
         PROVE  ConnectedInv'
    <2>1. p \in PlayerIds
      BY RoomManagerAssumption
    <2> QED BY <1>1, <2>1, SeatKeepsConnected DEF CreateRoom, JoinRoom
  <1>2. ASSUME NEW c \in Clients, LeaveRoom(c) PROVE ConnectedInv'
    <2>1. Seated' \subseteq Seated
      BY <1>2 DEF LeaveRoom, Unseat, Seated
    <2> QED BY <1>2, <2>1, ConnectedUntouched DEF LeaveRoom
  <1>3. ASSUME NEW c \in Clients, ToggleReady(c) \/ RoomListRequest(c)
        PROVE  ConnectedInv'
    BY <1>3, ConnectedUntouched DEF ToggleReady, RoomListRequest, Seated
  <1>4. ASSUME NEW c \in Clients, NEW s \in SessionIds,
                NEW registered \in SUBSET {s}, NEW tokened \in SUBSET PlayerIds,
                StartGame(c, s, registered, tokened)
         PROVE  ConnectedInv'
    BY <1>4, ConnectedUntouched DEF StartGame, Seated
  <1>5. ASSUME NEW c \in Clients, Connect(c) PROVE ConnectedInv'
    BY <1>5 DEF Connect, ConnectedInv, NoneClosing, MembersConnected, Seated, TypeOK
  <1>6. ASSUME NEW c \in Clients, NEW after \in ConnState, Close(c, after)
        PROVE  ConnectedInv'
    <2> DEFINE p == pid[c]
    <2>1. /\ conn[c] = "open" /\ after = "closed"
          /\ conn' = [conn EXCEPT ![c] = after]
          /\ pid' = [pid EXCEPT ![c] = NoPlayer]
      BY <1>6 DEF Close
    <2>2. NoneClosing'
      BY <2>1 DEF ConnectedInv, NoneClosing, TypeOK
    <2>3. CASE p = NoPlayer
      <3>1. sessions' = sessions /\ player_to_room' = player_to_room
        BY <1>6, <2>3 DEF Close
      <3> QED BY <2>1, <2>2, <2>3, <3>1
                 DEF ConnectedInv, MembersConnected, Seated, TypeOK
    <2>4. CASE p # NoPlayer
      <3>1. /\ p \in PlayerIds
            /\ sessions' = [sessions EXCEPT ![p] = Unregistered]
            /\ player_to_room' = Unseat(Departing(p))
        BY <1>6, <2>4 DEF Close, TypeOK
      <3>2. Seated' \subseteq Seated \ {p}
        BY <3>1, RoomManagerAssumption DEF Unseat, Departing, Seated
      <3>3. MembersConnected'
        BY <2>1, <2>4, <3>1, <3>2 DEF ConnectedInv, MembersConnected, Seated, TypeOK
      <3> QED BY <2>2, <3>3 DEF ConnectedInv
    <2> QED BY <2>3, <2>4
  <1>7. ASSUME NEW c \in Clients, Destroy(c) PROVE ConnectedInv'
    <2>1. /\ conn[c] # "open"
          /\ conn' = [conn EXCEPT ![c] = "idle"]
          /\ pid' = [pid EXCEPT ![c] = NoPlayer]
          /\ \A q \in PlayerIds : sessions'[q] = IF sessions[q] = c THEN Expired
                                                ELSE sessions[q]
          /\ player_to_room' = player_to_room
      BY <1>7 DEF Destroy
    <2> QED BY <2>1 DEF ConnectedInv, NoneClosing, MembersConnected, Seated, TypeOK
  <1>8. ASSUME NEW g \in GameConns,
               \/ GsConnect(g) \/ GsDestroy(g)
               \/ \E named \in BOOLEAN : GsHeartbeat(g, named)
               \/ \E t \in tokens : GsTokenValidate(g, t)
        PROVE  ConnectedInv'
    BY <1>8, ConnectedUntouched DEF GsConnect, GsDestroy, GsHeartbeat, GsTokenValidate, Seated
  <1>9. ASSUME NEW g \in GameConns, NEW p \in PlayerIds, NEW s \in Reportable,
                NEW unregistered \in SUBSET SessionIds,
                GsSlotReleased(g, p, s, unregistered)
         PROVE  ConnectedInv'
    <2>1. /\ sessions' = [sessions EXCEPT ![p] = Unregistered]
          /\ player_to_room' = Unseat({p})
          /\ conn' = conn /\ pid' = pid
      BY <1>9 DEF GsSlotReleased
    <2>2. Seated' \subseteq Seated \ {p}
      BY <2>1, RoomManagerAssumption DEF Unseat, Seated
    <2> QED BY <2>1, <2>2 DEF ConnectedInv, NoneClosing, MembersConnected, Seated, TypeOK
  <1>10. ASSUME NEW g \in GameConns, NEW after \in GsState,
                NEW unregistered \in SUBSET SessionIds,
                GsClose(g, after, unregistered)
         PROVE  ConnectedInv'
    <2>1. Seated' \subseteq Seated
      BY <1>10 DEF GsClose, Unseat, Seated
    <2> QED BY <1>10, <2>1, ConnectedUntouched DEF GsClose
  <1>11. CASE \/ TimerNext
              \/ \E signal \in Signals : Stop(signal)
              \/ \E t \in tokens : TokenExpire(t)
              \/ UNCHANGED vars
    BY <1>11, ConnectedUntouched
       DEF TimerNext, LobbyBroadcast, LobbyBroadcastAborted, Stop, TokenExpire, vars, Seated
  <1> QED BY <1>1, <1>2, <1>3, <1>4, <1>5, <1>6, <1>7, <1>8, <1>9, <1>10, <1>11
             DEF Next, ClientNext, GameServerNext

\* The invariant of the connections holds in every reachable state.
LEMMA ConnectedAlways == ~LateReads => (Spec => []ConnectedInv)
  <1> SUFFICES ASSUME ~LateReads PROVE Spec => []ConnectedInv
    OBVIOUS
  <1>1. Init => ConnectedInv
    BY DEF Init, ConnectedInv, NoneClosing, MembersConnected, Seated
  <1>2. TypeOK /\ ConnectedInv /\ [Next]_vars => ConnectedInv'
    BY ConnectedStep
  <1> QED BY <1>1, <1>2, TypeCorrect, PTL DEF Spec

\* Every way a connection can end vacates the seat of its player, even if ids
\* are shared between connections or reused: no room waits for a dead member.
THEOREM Connected == ~LateReads => (Spec => []MembersConnected)
  <1> SUFFICES ASSUME ~LateReads PROVE Spec => []MembersConnected
    OBVIOUS
  <1>1. ConnectedInv => MembersConnected
    BY DEF ConnectedInv
  <1> QED BY <1>1, ConnectedAlways, PTL

-----------------------------------------------------------------------------
(* Who is in the lobby, if besides every connection uses ids of its own.   *)

\* The peers behind different connections send different, non-empty ids.
IdsApart ==
    /\ NoPlayer \notin PlayerIds
    /\ \A c, d \in Clients : c # d => IdsOf[c] \cap IdsOf[d] = {}

\* Only an open session goes by an id, which is one of its own.
IdsHeld ==
    \A c \in Clients :
        /\ pid[c] \in IdsOf[c] \cup {NoPlayer}
        /\ conn[c] # "open" => pid[c] = NoPlayer

\* A registration that is not expired is that of an open session, under the
\* id it goes by.
RegistrationOpen ==
    \A p \in PlayerIds : sessions[p] \in Clients =>
        conn[sessions[p]] = "open" /\ pid[sessions[p]] = p

\* An open session is in the lobby unless the player it goes by has a seat.
LobbyByPlayer ==
    \A c \in Clients : conn[c] = "open" => (c \in lobby_sessions <=> pid[c] \notin Seated)

LobbyInv == ConnectedInv /\ IdsHeld /\ RegistrationOpen /\ LobbyByPlayer

\* The session of a seated player is the one that goes by its id.
LEMMA SeatedSession ==
  ASSUME IdsApart, TypeOK, ConnectedInv, IdsHeld, NEW c \in Clients, pid[c] \in Seated
  PROVE  pid[c] \in PlayerIds /\ pid[c] # NoPlayer /\ sessions[pid[c]] = c
  <1>1. pid[c] \in PlayerIds /\ pid[c] # NoPlayer
    BY DEF Seated, IdsApart
  <1> DEFINE d == sessions[pid[c]]
  <1>2. d \in Clients /\ pid[d] = pid[c]
    BY <1>1 DEF ConnectedInv, MembersConnected
  <1> HIDE DEF d
  <1>3. pid[c] \in IdsOf[c] /\ pid[c] \in IdsOf[d]
    BY <1>1, <1>2 DEF IdsHeld
  <1>4. d = c
    BY <1>2, <1>3 DEF IdsApart
  <1> QED BY <1>1, <1>4 DEF d

\* Seen from the players or from the sessions, the lobby is the same.
LEMMA LobbyEitherWay ==
  ASSUME IdsApart, TypeOK, LobbyInv
  PROVE  LobbyOrRoom
  <1> SUFFICES ASSUME NEW c \in Clients, conn[c] = "open"
               PROVE  pid[c] \notin Seated <=> \A p \in Seated : sessions[p] # c
    BY DEF LobbyOrRoom, LobbyInv, LobbyByPlayer
  <1>1. ASSUME pid[c] \in Seated PROVE \E p \in Seated : sessions[p] = c
    BY <1>1, SeatedSession DEF LobbyInv
  <1>2. ASSUME NEW p \in Seated, sessions[p] = c PROVE pid[c] \in Seated
    BY <1>2 DEF LobbyInv, RegistrationOpen, Seated
  <1> QED BY <1>1, <1>2

\* Players lose their seats and their sessions return to the lobby.
LEMMA BackToLobby ==
  ASSUME IdsApart, TypeOK, LobbyInv, NEW gone \in SUBSET PlayerIds,
         NEW d \in Clients, conn[d] = "open"
  PROVE  d \in lobby_sessions \cup LiveSessions(gone) <=> pid[d] \notin Seated \ gone
  <1>1. d \in lobby_sessions <=> pid[d] \notin Seated
    BY DEF LobbyInv, LobbyByPlayer
  <1>2. ASSUME d \in LiveSessions(gone) PROVE pid[d] \in gone
    BY <1>2 DEF LiveSessions, LobbyInv, RegistrationOpen
  <1>3. ASSUME pid[d] \in Seated, pid[d] \in gone PROVE d \in LiveSessions(gone)
    BY <1>3, SeatedSession DEF LiveSessions, LobbyInv
  <1> QED BY <1>1, <1>2, <1>3

\* Erasing players from player_to_room_ takes their seats and no others.
LEMMA Unseating ==
  ASSUME NEW gone \in SUBSET PlayerIds, player_to_room' = Unseat(gone)
  PROVE  Seated' = Seated \ gone
  BY DEF Unseat, Seated

\* Who leaves with p, as handleLeaveRoom has it.
LEMMA DepartingPlayers ==
  ASSUME TypeOK, NEW p \in PlayerIds
  PROVE  /\ Departing(p) \in SUBSET PlayerIds
         /\ p \in Seated => p \in Departing(p)
         /\ p \notin Seated => Departing(p) = {}
  BY DEF Departing, Seated, TypeOK, RoomType

\* CreateRoom and JoinRoom take one session out of the lobby.
LEMMA SeatKeepsLobby ==
  ASSUME IdsApart, TypeOK, LobbyInv, NEW c \in Clients, NEW p \in IdsOf[c],
         NEW r \in RoomIds, Reads(c), MayTakeSeat(c, p), TakeSeat(c, p, r)
  PROVE  IdsHeld' /\ RegistrationOpen' /\ LobbyByPlayer'
  <1>1. p \in PlayerIds /\ p # NoPlayer
    BY RoomManagerAssumption DEF IdsApart
  <1>2. /\ player_to_room' = [player_to_room EXCEPT ![p] = r]
        /\ pid' = [pid EXCEPT ![c] = p]
        /\ sessions' = [sessions EXCEPT ![p] = c]
        /\ lobby_sessions' = lobby_sessions \ {c}
        /\ pid[c] \in {NoPlayer, p}
    BY DEF TakeSeat, MayTakeSeat
  <1>3. conn[c] = "open"
    BY DEF Reads, LobbyInv, ConnectedInv, NoneClosing
  <1>4. conn' = conn
    BY <1>3 DEF TakeSeat, Handled, TypeOK
  <1>5. IdsHeld'
    BY <1>2, <1>3, <1>4 DEF LobbyInv, IdsHeld, TypeOK
  <1>6. RegistrationOpen'
    <2> SUFFICES ASSUME NEW q \in PlayerIds, sessions'[q] \in Clients
                 PROVE  conn'[sessions'[q]] = "open" /\ pid'[sessions'[q]] = q
      BY DEF RegistrationOpen
    <2>1. CASE q = p
      BY <1>1, <1>2, <1>3, <1>4, <2>1 DEF TypeOK
    <2>2. CASE q # p
      <3>1. sessions'[q] = sessions[q]
        BY <1>2, <2>2 DEF TypeOK
      <3>2. conn[sessions[q]] = "open" /\ pid[sessions[q]] = q
        BY <3>1 DEF LobbyInv, RegistrationOpen
      <3>3. sessions[q] # c
        BY <1>2, <2>2, <3>2 DEF IdsApart
      <3> QED BY <1>2, <1>4, <3>1, <3>2, <3>3 DEF TypeOK
    <2> QED BY <2>1, <2>2
  <1>7. Seated' = Seated \cup {p}
    BY <1>1, <1>2, RoomManagerAssumption DEF Seated, TypeOK
  <1>8. LobbyByPlayer'
    <2> SUFFICES ASSUME NEW d \in Clients, conn[d] = "open"
                 PROVE  d \in lobby_sessions' <=> pid'[d] \notin Seated'
      BY <1>4 DEF LobbyByPlayer
    <2>1. CASE d = c
      BY <1>2, <1>7, <2>1 DEF TypeOK
    <2>2. CASE d # c
      <3>1. pid'[d] = pid[d] /\ pid[d] # p
        BY <1>1, <1>2, <2>2 DEF LobbyInv, IdsHeld, IdsApart, TypeOK
      <3> QED BY <1>2, <1>7, <2>2, <3>1 DEF LobbyInv, LobbyByPlayer
    <2> QED BY <2>1, <2>2
  <1> QED BY <1>5, <1>6, <1>8

\* A step that leaves connections, registrations, seats and the lobby alone.
LEMMA LobbyUntouched ==
  ASSUME LobbyInv, sessions' = sessions, conn' = conn, pid' = pid,
         player_to_room' = player_to_room, lobby_sessions' = lobby_sessions
  PROVE  IdsHeld' /\ RegistrationOpen' /\ LobbyByPlayer'
  BY DEF LobbyInv, IdsHeld, RegistrationOpen, LobbyByPlayer, Seated

\* Every step keeps the lobby right.
LEMMA LobbyStep ==
  ASSUME ~LateReads, IdsApart, TypeOK, LobbyInv, [Next]_vars
  PROVE  IdsHeld' /\ RegistrationOpen' /\ LobbyByPlayer'
  <1> DEFINE Kept == IdsHeld' /\ RegistrationOpen' /\ LobbyByPlayer'
  <1> SUFFICES Kept
    OBVIOUS
  <1>1. ASSUME NEW c \in Clients, NEW p \in IdsOf[c], NEW r \in RoomIds,
                \/ \E max \in 1..MaxPlayersPerRoom : CreateRoom(c, p, max, r)
                \/ JoinRoom(c, p, r)
         PROVE  Kept
    BY <1>1, SeatKeepsLobby DEF CreateRoom, JoinRoom
  <1>2. ASSUME NEW c \in Clients, LeaveRoom(c) PROVE Kept
    <2> DEFINE p == pid[c]
    <2>1. /\ p \in PlayerIds /\ conn' = conn /\ pid' = pid /\ sessions' = sessions
          /\ player_to_room' = Unseat(Departing(p))
          /\ lobby_sessions' = lobby_sessions \cup LiveSessions(Departing(p) \ {p}) \cup {c}
      BY <1>2 DEF LeaveRoom, Evicted, TypeOK
    <2>2. IdsHeld' /\ RegistrationOpen'
      BY <2>1 DEF LobbyInv, IdsHeld, RegistrationOpen
    <2>3. Seated' = Seated \ Departing(p)
      BY <2>1, Unseating, DepartingPlayers
    <2>4. lobby_sessions' = lobby_sessions \cup LiveSessions(Departing(p)) \cup {c}
      <3>1. CASE p \in Seated
        <4>1. sessions[p] = c
          BY <3>1, SeatedSession DEF LobbyInv
        <4> QED BY <2>1, <4>1 DEF LiveSessions
      <3>2. CASE p \notin Seated
        <4>1. Departing(p) = {}
          BY <2>1, <3>2, DepartingPlayers
        <4> QED BY <2>1, <4>1
      <3> QED BY <3>1, <3>2
    <2>5. p \notin Seated'
      BY <2>1, <2>3, DepartingPlayers
    <2>6. ASSUME NEW d \in Clients, conn[d] = "open"
          PROVE  d \in lobby_sessions' <=> pid[d] \notin Seated'
      <3>1. d \in lobby_sessions \cup LiveSessions(Departing(p))
              <=> pid[d] \notin Seated \ Departing(p)
        BY <2>1, <2>6, DepartingPlayers, BackToLobby
      <3> QED BY <2>3, <2>4, <2>5, <3>1
    <2>7. LobbyByPlayer'
      BY <2>1, <2>6 DEF LobbyByPlayer
    <2> QED BY <2>2, <2>7
  <1>3. ASSUME NEW c \in Clients, ToggleReady(c) \/ RoomListRequest(c) PROVE Kept
    BY <1>3, LobbyUntouched DEF ToggleReady, RoomListRequest
  <1>4. ASSUME NEW c \in Clients, NEW s \in SessionIds,
                NEW registered \in SUBSET {s}, NEW tokened \in SUBSET PlayerIds,
                StartGame(c, s, registered, tokened)
         PROVE  Kept
    BY <1>4, LobbyUntouched DEF StartGame
  <1>5. ASSUME NEW c \in Clients, Connect(c) PROVE Kept
    <2>1. /\ conn[c] = "idle" /\ conn' = [conn EXCEPT ![c] = "open"]
          /\ lobby_sessions' = lobby_sessions \cup {c}
          /\ pid' = pid /\ sessions' = sessions /\ player_to_room' = player_to_room
      BY <1>5 DEF Connect
    <2>2. pid[c] = NoPlayer /\ NoPlayer \notin Seated
      BY <2>1 DEF LobbyInv, IdsHeld, IdsApart, Seated
    <2>3. IdsHeld' /\ RegistrationOpen'
      BY <2>1 DEF LobbyInv, IdsHeld, RegistrationOpen, TypeOK
    <2>4. LobbyByPlayer'
      BY <2>1, <2>2 DEF LobbyInv, LobbyByPlayer, Seated, TypeOK
    <2> QED BY <2>3, <2>4
  <1>6. ASSUME NEW c \in Clients, NEW after \in ConnState, Close(c, after)
        PROVE  Kept
    <2> DEFINE p == pid[c]
    <2>1. /\ conn[c] = "open" /\ after # "open"
          /\ conn' = [conn EXCEPT ![c] = after]
          /\ pid' = [pid EXCEPT ![c] = NoPlayer]
      BY <1>6 DEF Close
    <2>2. IdsHeld'
      BY <2>1 DEF LobbyInv, IdsHeld, TypeOK
    <2>3. CASE p = NoPlayer
      <3>1. /\ sessions' = sessions /\ player_to_room' = player_to_room
            /\ lobby_sessions' = lobby_sessions \ {c}
        BY <1>6, <2>3 DEF Close
      <3>2. RegistrationOpen'
        BY <2>1, <2>3, <3>1 DEF LobbyInv, RegistrationOpen, IdsApart, TypeOK
      <3>3. LobbyByPlayer'
        BY <2>1, <3>1 DEF LobbyInv, LobbyByPlayer, Seated, TypeOK
      <3> QED BY <2>2, <3>2, <3>3
    <2>4. CASE p # NoPlayer
      <3>1. /\ p \in PlayerIds
            /\ sessions' = [sessions EXCEPT ![p] = Unregistered]
            /\ player_to_room' = Unseat(Departing(p))
            /\ lobby_sessions' = (lobby_sessions \ {c}) \cup LiveSessions(Departing(p) \ {p})
        BY <1>6, <2>4 DEF Close, Evicted, TypeOK
      <3>2. RegistrationOpen'
        <4> SUFFICES ASSUME NEW q \in PlayerIds, sessions'[q] \in Clients
                     PROVE  conn'[sessions'[q]] = "open" /\ pid'[sessions'[q]] = q
          BY DEF RegistrationOpen
        <4>1. q # p /\ sessions'[q] = sessions[q]
          BY <3>1, RoomManagerAssumption DEF TypeOK
        <4>2. conn[sessions[q]] = "open" /\ pid[sessions[q]] = q
          BY <4>1 DEF LobbyInv, RegistrationOpen
        <4> QED BY <2>1, <4>1, <4>2 DEF TypeOK
      <3>3. Seated' = Seated \ Departing(p)
        BY <3>1, Unseating, DepartingPlayers
      <3>4. ASSUME NEW d \in Clients, d # c, conn[d] = "open"
            PROVE  d \in lobby_sessions' <=> pid[d] \notin Seated'
        <4>1. d \in lobby_sessions \cup LiveSessions(Departing(p))
                <=> pid[d] \notin Seated \ Departing(p)
          BY <3>1, <3>4, DepartingPlayers, BackToLobby
        <4>2. ASSUME p \in Seated PROVE sessions[p] = c
          BY <4>2, SeatedSession DEF LobbyInv
        <4>3. ASSUME p \notin Seated PROVE Departing(p) = {}
          BY <3>1, <4>3, DepartingPlayers
        <4>4. d \in LiveSessions(Departing(p)) <=> d \in LiveSessions(Departing(p) \ {p})
          BY <3>4, <4>2, <4>3 DEF LiveSessions
        <4> QED BY <3>1, <3>3, <3>4, <4>1, <4>4
      <3>5. LobbyByPlayer'
        BY <2>1, <3>4 DEF LobbyByPlayer, TypeOK
      <3> QED BY <2>2, <3>2, <3>5
    <2> QED BY <2>3, <2>4
  <1>7. ASSUME NEW c \in Clients, Destroy(c) PROVE Kept
    <2>1. /\ conn[c] # "open"
          /\ conn' = [conn EXCEPT ![c] = "idle"]
          /\ pid' = [pid EXCEPT ![c] = NoPlayer]
          /\ \A q \in PlayerIds : sessions'[q] = IF sessions[q] = c THEN Expired
                                                ELSE sessions[q]
          /\ player_to_room' = player_to_room /\ lobby_sessions' = lobby_sessions
      BY <1>7 DEF Destroy
    <2>2. IdsHeld' /\ LobbyByPlayer'
      BY <2>1 DEF LobbyInv, IdsHeld, LobbyByPlayer, Seated, TypeOK
    <2>3. RegistrationOpen'
      BY <2>1, RoomManagerAssumption DEF LobbyInv, RegistrationOpen, TypeOK
    <2> QED BY <2>2, <2>3
  <1>8. ASSUME NEW g \in GameConns,
               \/ GsConnect(g) \/ GsDestroy(g)
               \/ \E named \in BOOLEAN : GsHeartbeat(g, named)
               \/ \E t \in tokens : GsTokenValidate(g, t)
        PROVE  Kept
    BY <1>8, LobbyUntouched DEF GsConnect, GsDestroy, GsHeartbeat, GsTokenValidate
  <1>9. ASSUME NEW g \in GameConns, NEW p \in PlayerIds, NEW s \in Reportable,
                NEW unregistered \in SUBSET SessionIds,
                GsSlotReleased(g, p, s, unregistered)
         PROVE  Kept
    <2>1. /\ sessions' = [sessions EXCEPT ![p] = Unregistered]
          /\ player_to_room' = Unseat({p}) /\ conn' = conn /\ pid' = pid
          /\ lobby_sessions' = lobby_sessions \cup LiveSessions({p})
      BY <1>9 DEF GsSlotReleased
    <2>2. IdsHeld' /\ RegistrationOpen'
      BY <2>1, RoomManagerAssumption DEF LobbyInv, IdsHeld, RegistrationOpen, TypeOK
    <2>3. Seated' = Seated \ {p}
      BY <2>1, Unseating
    <2>4. LobbyByPlayer'
      BY <2>1, <2>3, BackToLobby DEF LobbyByPlayer
    <2> QED BY <2>2, <2>4
  <1>10. ASSUME NEW g \in GameConns, NEW after \in GsState,
                NEW unregistered \in SUBSET SessionIds,
                GsClose(g, after, unregistered)
         PROVE  Kept
    <2>1. PICK gone \in SUBSET PlayerIds :
                 /\ player_to_room' = Unseat(gone)
                 /\ lobby_sessions' = lobby_sessions \cup LiveSessions(gone)
      <3> DEFINE lost == IF gs[g] = "known" THEN InGame ELSE {}
                 gone == UNION {rooms[r].players : r \in lost}
      <3>1. gone \in SUBSET PlayerIds
        BY DEF InGame, TypeOK, RoomType
      <3>2. /\ player_to_room' = Unseat(gone)
            /\ lobby_sessions' = lobby_sessions \cup LiveSessions(gone)
        BY <1>10 DEF GsClose
      <3> QED BY <3>1, <3>2
    <2>2. conn' = conn /\ pid' = pid /\ sessions' = sessions
      BY <1>10 DEF GsClose
    <2>3. IdsHeld' /\ RegistrationOpen'
      BY <2>2 DEF LobbyInv, IdsHeld, RegistrationOpen
    <2>4. Seated' = Seated \ gone
      BY <2>1, Unseating
    <2>5. LobbyByPlayer'
      BY <2>1, <2>2, <2>4, BackToLobby DEF LobbyByPlayer
    <2> QED BY <2>3, <2>5
  <1>11. CASE LobbyBroadcast
    <2>1. /\ \A c \in Clients : conn[c] = "open" => (c \in lobby_sessions' <=> c \in lobby_sessions)
          /\ sessions' = sessions /\ conn' = conn /\ pid' = pid
          /\ player_to_room' = player_to_room
      BY <1>11 DEF LobbyBroadcast
    <2> QED BY <2>1 DEF LobbyInv, IdsHeld, RegistrationOpen, LobbyByPlayer, Seated
  <1>12. CASE \/ LobbyBroadcastAborted
              \/ \E signal \in Signals : Stop(signal)
              \/ \E t \in tokens : TokenExpire(t)
              \/ UNCHANGED vars
    BY <1>12, LobbyUntouched DEF LobbyBroadcastAborted, Stop, TokenExpire, vars
  <1> HIDE DEF Kept
  <1>13. ASSUME NEW c \in Clients, ClientNext(c) PROVE Kept
    BY <1>1, <1>2, <1>3, <1>4, <1>5, <1>6, <1>7, <1>13 DEF ClientNext
  <1>14. ASSUME NEW g \in GameConns, GameServerNext(g) PROVE Kept
    BY <1>8, <1>9, <1>10, <1>14 DEF GameServerNext
  <1>15. CASE TimerNext
    BY <1>11, <1>12, <1>15 DEF TimerNext
  <1>16. CASE Next
    BY <1>12, <1>13, <1>14, <1>15, <1>16, Zenon DEF Next
  <1> QED BY <1>12, <1>16

\* If connections use ids of their own and no read outlives close(), whoever
\* loses a seat, by whatever handler, is back in the lobby, and nobody in a
\* room is still sent its lists.
THEOREM LobbyRight == IdsApart /\ ~LateReads => (Spec => []LobbyOrRoom)
  <1> SUFFICES ASSUME IdsApart, ~LateReads PROVE Spec => []LobbyOrRoom
    OBVIOUS
  <1> DEFINE Sound == IdsHeld /\ RegistrationOpen /\ LobbyByPlayer
  <1>1. Init => Sound
    BY RoomManagerAssumption DEF Init, IdsHeld, RegistrationOpen, LobbyByPlayer
  <1>2. TypeOK /\ ConnectedInv /\ Sound /\ [Next]_vars => Sound'
    BY LobbyStep DEF LobbyInv
  <1>3. TypeOK /\ ConnectedInv /\ Sound => LobbyOrRoom
    BY LobbyEitherWay DEF LobbyInv
  <1> HIDE DEF Sound
  <1> QED BY <1>1, <1>2, <1>3, TypeCorrect, ConnectedAlways, PTL DEF Spec

=============================================================================
