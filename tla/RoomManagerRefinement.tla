------------------------ MODULE RoomManagerRefinement ------------------------
(***************************************************************************)
(* RoomManager implements Matchmaking, for every value of its constants.   *)
(*                                                                         *)
(* The invariants of RoomManagerProofs are needed: an abstract member of a *)
(* room is a player whose seat it is, a concrete one is in its roster      *)
(* (MembershipAgreement); a room that starts is waiting because a seated   *)
(* player's room exists (DeadRoomsBlank); and a lost game server ends at   *)
(* most one game, else its handler would be several abstract steps at once *)
(* (AtMostOneGame).  Players may be infinitely many, but rosters are       *)
(* finite, so that counting seats makes sense.                             *)
(***************************************************************************)
EXTENDS RoomManagerProofs, FiniteSetTheorems

\* The abstract step that a concrete one is.
Abstracted == Promised!MmNext \/ UNCHANGED Promised!mmVars

Phase == [r \in RoomIds |-> rooms[r].state]
Capacity == [r \in RoomIds |-> rooms[r].max_players]
Game == [r \in RoomIds |-> rooms[r].session_id]

\* What the abstraction shows of a change to one room.
LEMMA OneRoomShown ==
  ASSUME NEW r \in RoomIds, NEW state, NEW max, NEW s,
         \A q \in RoomIds :
            /\ rooms'[q].state = IF q = r THEN state ELSE rooms[q].state
            /\ rooms'[q].max_players = IF q = r THEN max ELSE rooms[q].max_players
            /\ rooms'[q].session_id = IF q = r THEN s ELSE rooms[q].session_id
  PROVE  /\ Phase' = [Phase EXCEPT ![r] = state]
         /\ Capacity' = [Capacity EXCEPT ![r] = max]
         /\ Game' = [Game EXCEPT ![r] = s]
  <1>1. Phase' = [Phase EXCEPT ![r] = state]
    BY DEF Phase
  <1>2. Capacity' = [Capacity EXCEPT ![r] = max]
    BY DEF Capacity
  <1>3. Game' = [Game EXCEPT ![r] = s]
    BY DEF Game
  <1> QED BY <1>1, <1>2, <1>3

\* A change that no field of the abstraction shows.
LEMMA NothingShown ==
  ASSUME TypeOK, NEW r \in RoomIds, NEW new, rooms' = [rooms EXCEPT ![r] = new],
         new.state = rooms[r].state, new.max_players = rooms[r].max_players,
         new.session_id = rooms[r].session_id
  PROVE  Phase' = Phase /\ Capacity' = Capacity /\ Game' = Game
  <1>1. \A q \in RoomIds : /\ rooms'[q].state = rooms[q].state
                           /\ rooms'[q].max_players = rooms[q].max_players
                           /\ rooms'[q].session_id = rooms[q].session_id
    BY DEF TypeOK
  <1> QED BY <1>1 DEF Phase, Capacity, Game

\* Who sits in a room, according to the seats, is its roster.
LEMMA MembersAreRoster ==
  ASSUME TypeOK, RoomInv, NEW r \in RoomIds
  PROVE  Promised!Members(r) = rooms[r].players
  BY DEF Promised!Members, RoomInv, MembershipAgreement, TypeOK, RoomType

\* Rosters grow by one player at a time.
FiniteRosters == \A r \in RoomIds : IsFiniteSet(rooms[r].players)

\* Every step keeps rosters finite.
LEMMA FiniteStep ==
  ASSUME TypeOK, RoomInv, FiniteRosters, [Next]_vars
  PROVE  FiniteRosters'
  <1> SUFFICES ASSUME NEW r \in RoomIds PROVE IsFiniteSet(rooms'[r].players)
    BY DEF FiniteRosters
  <1>1. RoomStep(r)
    BY EveryStepIsRoomStep
  <1>2. rooms[r] \in RoomType /\ IsFiniteSet(rooms[r].players)
    BY DEF TypeOK, FiniteRosters
  <1>3. CASE rooms'[r] = rooms[r] \/ rooms'[r] = NoRoom
    BY <1>2, <1>3, FS_EmptySet DEF NoRoom
  <1>4. ASSUME NEW p \in PlayerIds, NEW max \in 1..MaxPlayersPerRoom,
               rooms'[r] = NewRoom(p, max)
        PROVE  IsFiniteSet(rooms'[r].players)
    <2>1. rooms'[r].players = {p}
      BY <1>4 DEF NewRoom
    <2>2. IsFiniteSet({p})
      BY FS_Singleton
    <2> QED BY <2>1, <2>2
  <1>5. ASSUME NEW p \in PlayerIds, rooms'[r] = addPlayer(rooms[r], p),
               ~isFull(rooms[r]), rooms[r].state = "WAITING"
        PROVE  IsFiniteSet(rooms'[r].players)
    BY <1>2, <1>5, AddPlayerFields, FS_AddElement
  <1>6. ASSUME NEW p \in PlayerIds, rooms'[r] = removePlayer(rooms[r], p)
        PROVE  IsFiniteSet(rooms'[r].players)
    <2>1. rooms'[r].players = rooms[r].players \ {p}
      BY <1>2, <1>6, RemovePlayerFields
    <2>2. IsFiniteSet(rooms[r].players \ {p})
      BY <1>2, FS_RemoveElement
    <2> QED BY <2>1, <2>2
  <1>7. ASSUME NEW p \in PlayerIds, rooms'[r] = toggleReady(rooms[r], p)
        PROVE  IsFiniteSet(rooms'[r].players)
    BY <1>2, <1>7, ToggleReadyFields
  <1>8. ASSUME NEW s \in SessionIds, rooms'[r] = startGame(rooms[r], s)
        PROVE  IsFiniteSet(rooms'[r].players)
    BY <1>2, <1>8, StartGameFields
  <1> QED BY <1>1, <1>3, <1>4, <1>5, <1>6, <1>7, <1>8 DEF RoomStep

\* Rosters are finite in every reachable state.
LEMMA FiniteCorrect == Spec => []FiniteRosters
  <1>1. Init => FiniteRosters
    BY FS_EmptySet DEF Init, FiniteRosters, NoRoom
  <1>2. TypeOK /\ RoomInv /\ FiniteRosters /\ [Next]_vars => FiniteRosters'
    BY FiniteStep
  <1> QED BY <1>1, <1>2, TypeCorrect, RoomInvCorrect, PTL DEF Spec

\* A step that leaves rooms, seats, issued and announced sessions alone.
LEMMA Unseen ==
  ASSUME rooms' = rooms, player_to_room' = player_to_room,
         issued' = issued, announced' = announced
  PROVE  Abstracted
  BY DEF Abstracted, Promised!mmVars

\* Making a room and its first seat.
LEMMA CreateOpens ==
  ASSUME TypeOK, RoomInv, NEW c \in Clients, NEW p \in IdsOf[c], NEW r \in RoomIds,
         NEW max \in 1..MaxPlayersPerRoom, CreateRoom(c, p, max, r)
  PROVE  Abstracted
  <1>1. p \in PlayerIds
    BY RoomManagerAssumption
  <1>2. /\ rooms' = [rooms EXCEPT ![r] = NewRoom(p, max)]
        /\ rooms[r].state = "NONE"
        /\ player_to_room[p] = NoRoomId
        /\ player_to_room' = [player_to_room EXCEPT ![p] = r]
        /\ issued' = issued /\ announced' = announced
    BY DEF CreateRoom, TakeSeat, MayTakeSeat, Live, storeVars
  <1>3. rooms[r].session_id = NoSession
    BY <1>2 DEF RoomInv, DeadRoomsBlank, NoRoom
  <1>4. /\ NewRoom(p, max).state = "WAITING"
        /\ NewRoom(p, max).max_players = max
        /\ NewRoom(p, max).session_id = NoSession
    BY DEF NewRoom
  <1>5. /\ Phase' = [Phase EXCEPT ![r] = "WAITING"]
        /\ Capacity' = [Capacity EXCEPT ![r] = max]
        /\ Game' = [Game EXCEPT ![r] = NoSession]
    <2>1. \A q \in RoomIds :
             /\ rooms'[q].state = IF q = r THEN "WAITING" ELSE rooms[q].state
             /\ rooms'[q].max_players = IF q = r THEN max ELSE rooms[q].max_players
             /\ rooms'[q].session_id = IF q = r THEN NoSession ELSE rooms[q].session_id
      BY <1>2, <1>4 DEF TypeOK
    <2> QED BY <2>1, OneRoomShown
  <1>6. Game' = Game
    BY <1>3, <1>5 DEF Game
  <1>7. Promised!Open(p, r, max)
    BY <1>2, <1>5, <1>6 DEF Promised!Open, Phase, Capacity, Game
  <1> QED BY <1>1, <1>7 DEF Abstracted, Promised!MmNext

\* Taking a seat in a room that waits.
LEMMA JoinJoins ==
  ASSUME TypeOK, RoomInv, FiniteRosters, NEW c \in Clients, NEW p \in IdsOf[c], NEW r \in RoomIds,
         JoinRoom(c, p, r)
  PROVE  Abstracted
  <1>1. p \in PlayerIds /\ rooms[r] \in RoomType
    BY RoomManagerAssumption DEF TypeOK
  <1>2. /\ rooms' = [rooms EXCEPT ![r] = addPlayer(rooms[r], p)]
        /\ rooms[r].state = "WAITING"
        /\ ~isFull(rooms[r])
        /\ player_to_room[p] = NoRoomId
        /\ player_to_room' = [player_to_room EXCEPT ![p] = r]
        /\ issued' = issued /\ announced' = announced
    BY DEF JoinRoom, TakeSeat, MayTakeSeat, storeVars
  <1>3. /\ addPlayer(rooms[r], p).state = rooms[r].state
        /\ addPlayer(rooms[r], p).max_players = rooms[r].max_players
        /\ addPlayer(rooms[r], p).session_id = rooms[r].session_id
    BY <1>1 DEF addPlayer, RoomType
  <1>4. Phase' = Phase /\ Capacity' = Capacity /\ Game' = Game
    BY <1>2, <1>3, NothingShown
  <1>5. Cardinality(Promised!Members(r)) < rooms[r].max_players
    <2>1. IsFiniteSet(rooms[r].players)
      BY DEF FiniteRosters
    <2>2. Cardinality(rooms[r].players) \in Nat
      BY <2>1, FS_CardinalityType
    <2>3. rooms[r].max_players \in Nat
      BY <1>1, RoomAssumption DEF RoomType
    <2> QED BY <1>2, <2>2, <2>3, MembersAreRoster DEF isFull
  <1>6. Promised!Join(p, r)
    <2>1. Phase[r] = "WAITING" /\ Capacity[r] = rooms[r].max_players
      BY <1>2 DEF Phase, Capacity
    <2>2. Promised!Cardinality(Promised!Members(r)) = Cardinality(Promised!Members(r))
      BY Zenon DEF Promised!Cardinality, Cardinality
    <2>3. Promised!Cardinality(Promised!Members(r)) < Capacity[r]
      BY <1>5, <2>1, <2>2
    <2>4. UNCHANGED <<Phase, Capacity, Game, issued, announced>>
      BY <1>2, <1>4
    <2> QED BY <1>2, <2>1, <2>3, <2>4 DEF Promised!Join, Phase, Capacity, Game
  <1> QED BY <1>1, <1>6 DEF Abstracted, Promised!MmNext

\* A room that is erased, with all its members unseated.
LEMMA RemoveRemoves ==
  ASSUME TypeOK, RoomInv, NEW r \in RoomIds, rooms' = [rooms EXCEPT ![r] = NoRoom],
         player_to_room' = Unseat(rooms[r].players), issued' = issued
  PROVE  Promised!Remove(r)
  <1>1. /\ Phase' = [Phase EXCEPT ![r] = "NONE"]
        /\ Capacity' = [Capacity EXCEPT ![r] = 0]
        /\ Game' = [Game EXCEPT ![r] = NoSession]
    <2>1. \A q \in RoomIds :
             /\ rooms'[q].state = IF q = r THEN "NONE" ELSE rooms[q].state
             /\ rooms'[q].max_players = IF q = r THEN 0 ELSE rooms[q].max_players
             /\ rooms'[q].session_id = IF q = r THEN NoSession ELSE rooms[q].session_id
      BY DEF NoRoom, TypeOK
    <2> QED BY <2>1, OneRoomShown
  <1>2. player_to_room' = [p \in PlayerIds |-> IF player_to_room[p] = r THEN NoRoomId
                                               ELSE player_to_room[p]]
    BY DEF Unseat, RoomInv, MembershipAgreement
  <1> QED BY <1>1, <1>2 DEF Promised!Remove, Phase, Capacity, Game

\* One player loses its seat and the room stays.
LEMMA UnseatLeaves ==
  ASSUME TypeOK, NEW p \in PlayerIds, NEW r \in RoomIds, player_to_room[p] = r,
         rooms' = [rooms EXCEPT ![r] = removePlayer(rooms[r], p)],
         player_to_room' = Unseat({p}), issued' = issued, announced' = announced
  PROVE  Promised!Leave(p)
  <1>1. rooms[r] \in RoomType
    BY DEF TypeOK
  <1>2. /\ removePlayer(rooms[r], p).state = rooms[r].state
        /\ removePlayer(rooms[r], p).max_players = rooms[r].max_players
        /\ removePlayer(rooms[r], p).session_id = rooms[r].session_id
    BY <1>1 DEF removePlayer, RoomType
  <1>3. Phase' = Phase /\ Capacity' = Capacity /\ Game' = Game
    BY <1>2, NothingShown
  <1>4. player_to_room' = [player_to_room EXCEPT ![p] = NoRoomId]
    BY DEF Unseat, TypeOK
  <1>5. player_to_room[p] # NoRoomId
    BY RoomManagerAssumption
  <1> QED BY <1>3, <1>4, <1>5 DEF Promised!Leave, Phase, Capacity, Game

\* handleLeaveRoom, which both an explicit leave and a close run.
LEMMA LeaveLeaves ==
  ASSUME TypeOK, RoomInv, NEW p \in PlayerIds, rooms' = RoomsAfterLeave(p),
         player_to_room' = Unseat(Departing(p)), issued' = issued,
         announced' = announced
  PROVE  Abstracted
  <1>0. PICK r : r = player_to_room[p]
    OBVIOUS
  <1>1. CASE r = NoRoomId
    <2>1. rooms' = rooms /\ player_to_room' = player_to_room
      BY <1>0, <1>1 DEF RoomsAfterLeave, Unseat, Departing, TypeOK
    <2> QED BY <2>1, Unseen
  <1>2. CASE r # NoRoomId
    <2>1. r \in RoomIds
      BY <1>0, <1>2 DEF TypeOK
    <2>2. p \in rooms[r].players
      BY <1>0, <2>1 DEF RoomInv, MembershipAgreement
    <2>3. rooms[r].state # "NONE"
      BY <2>1, <2>2 DEF RoomInv, DeadRoomsBlank, NoRoom
    <2>4. CASE isHost(rooms[r], p)
      <3>1. rooms' = [rooms EXCEPT ![r] = NoRoom]
        BY <1>0, <1>2, <2>4 DEF RoomsAfterLeave
      <3>2. Departing(p) = rooms[r].players
        BY <1>0, <1>2, <2>2, <2>4 DEF Departing
      <3>3. Promised!Abandon(r)
        BY <2>1, <2>3, <3>1, <3>2, RemoveRemoves DEF Promised!Abandon
      <3> QED BY <2>1, <3>3 DEF Abstracted, Promised!MmNext
    <2>5. CASE ~isHost(rooms[r], p)
      <3>1. rooms' = [rooms EXCEPT ![r] = removePlayer(rooms[r], p)]
        BY <1>0, <1>2, <2>5 DEF RoomsAfterLeave
      <3>2. Departing(p) = {p}
        BY <1>0, <1>2, <2>5 DEF Departing
      <3>3. Promised!Leave(p)
        BY <1>0, <2>1, <3>1, <3>2, UnseatLeaves
      <3> QED BY <3>3 DEF Abstracted, Promised!MmNext
    <2> QED BY <2>4, <2>5
  <1> QED BY <1>1, <1>2

\* The start of a game.
LEMMA StartStarts ==
  ASSUME TypeOK, RoomInv, NEW c \in Clients, NEW s \in SessionIds,
         NEW registered \in SUBSET {s}, NEW tokened \in SUBSET PlayerIds,
         StartGame(c, s, registered, tokened)
  PROVE  Abstracted
  <1> DEFINE r == player_to_room[pid[c]]
  <1>1. pid[c] \in PlayerIds /\ r \in RoomIds
    BY DEF StartGame, TypeOK
  <1>2. /\ rooms' = [rooms EXCEPT ![r] = startGame(rooms[r], s)]
        /\ InGame = {}
        /\ s \notin issued
        /\ issued' = issued \cup {s}
        /\ announced' = announced \cup {s}
        /\ player_to_room' = player_to_room
    BY DEF StartGame, hasActiveGame
  <1>3. pid[c] \in rooms[r].players
    BY <1>1 DEF RoomInv, MembershipAgreement
  <1>4. rooms[r].state # "NONE"
    BY <1>1, <1>3 DEF RoomInv, DeadRoomsBlank, NoRoom
  <1> HIDE DEF r
  <1>5. rooms[r] \in RoomType /\ \A q \in RoomIds : rooms[q].state # "IN_GAME"
    BY <1>1, <1>2 DEF TypeOK, InGame
  <1>6. rooms[r].state = "WAITING"
    BY <1>1, <1>4, <1>5 DEF RoomType, RoomState
  <1>7. /\ startGame(rooms[r], s).state = "IN_GAME"
        /\ startGame(rooms[r], s).max_players = rooms[r].max_players
        /\ startGame(rooms[r], s).session_id = s
    BY <1>5 DEF startGame, RoomType
  <1>8. /\ Phase' = [Phase EXCEPT ![r] = "IN_GAME"]
        /\ Capacity' = [Capacity EXCEPT ![r] = rooms[r].max_players]
        /\ Game' = [Game EXCEPT ![r] = s]
    <2>1. \A q \in RoomIds :
             /\ rooms'[q].state = IF q = r THEN "IN_GAME" ELSE rooms[q].state
             /\ rooms'[q].max_players = IF q = r THEN rooms[r].max_players ELSE rooms[q].max_players
             /\ rooms'[q].session_id = IF q = r THEN s ELSE rooms[q].session_id
      BY <1>1, <1>2, <1>7 DEF TypeOK
    <2> QED BY <1>1, <2>1, OneRoomShown
  <1>9. Capacity' = Capacity
    BY <1>1, <1>8 DEF Capacity
  <1>10. Promised!Start(r, s)
    BY <1>1, <1>2, <1>5, <1>6, <1>8, <1>9 DEF Promised!Start, Phase, Capacity, Game
  <1> QED BY <1>1, <1>10 DEF Abstracted, Promised!MmNext

\* The release of a slot: the last one finishes the game, or abandons a room
\* that was still waiting.
LEMMA ReleaseReleases ==
  ASSUME TypeOK, RoomInv, NEW g \in GameConns, NEW p \in PlayerIds,
         NEW s \in Reportable, NEW unregistered \in SUBSET SessionIds,
         GsSlotReleased(g, p, s, unregistered)
  PROVE  Abstracted
  <1>0. PICK r, left : r = player_to_room[p] /\ left = removePlayer(rooms[r], p)
    OBVIOUS
  <1>1. r \in RoomIds
    BY <1>0 DEF GsSlotReleased, TypeOK
  <1>2. /\ rooms' = [rooms EXCEPT ![r] = IF left.players = {} THEN NoRoom ELSE left]
        /\ player_to_room' = Unseat({p})
        /\ announced' = announced \ SessionsOver(left)
        /\ issued' = issued
    BY <1>0 DEF GsSlotReleased
  <1>3. p \in rooms[r].players
    BY <1>0, <1>1 DEF RoomInv, MembershipAgreement
  <1>4. rooms[r].state # "NONE"
    BY <1>1, <1>3 DEF RoomInv, DeadRoomsBlank, NoRoom
  <1>5. /\ rooms[r] \in RoomType
        /\ left.players = rooms[r].players \ {p}
        /\ left.session_id = rooms[r].session_id
    BY <1>0, <1>1, RemovePlayerFields DEF TypeOK
  <1>6. CASE left.players # {}
    <2>1. SessionsOver(left) = {}
      BY <1>6 DEF SessionsOver
    <2>2. Promised!Leave(p)
      BY <1>0, <1>1, <1>2, <1>6, <2>1, UnseatLeaves
    <2> QED BY <2>2 DEF Abstracted, Promised!MmNext
  <1>7. CASE left.players = {}
    <2>1. rooms[r].players = {p}
      BY <1>3, <1>5, <1>7
    <2>2. announced' = announced \ {rooms[r].session_id}
      BY <1>2, <1>5, <1>7 DEF SessionsOver
    <2>3. rooms' = [rooms EXCEPT ![r] = NoRoom]
      BY <1>2, <1>7
    <2>4. Promised!Remove(r)
      BY <1>1, <1>2, <2>1, <2>3, RemoveRemoves
    <2>5. CASE rooms[r].state = "IN_GAME"
      <3>1. Promised!Finish(r)
        BY <1>1, <2>2, <2>4, <2>5 DEF Promised!Finish
      <3> QED BY <1>1, <3>1 DEF Abstracted, Promised!MmNext
    <2>6. CASE rooms[r].state # "IN_GAME"
      <3>1. rooms[r].session_id = NoSession
        BY <1>1, <2>6 DEF RoomInv, SessionsOfGames
      <3>2. announced' = announced
        BY <2>2, <3>1, RoomAssumption DEF TypeOK
      <3>3. Promised!Abandon(r)
        BY <1>1, <1>4, <2>4, <3>2 DEF Promised!Abandon
      <3> QED BY <1>1, <3>3 DEF Abstracted, Promised!MmNext
    <2> QED BY <2>5, <2>6
  <1> QED BY <1>6, <1>7

\* The loss of a game server: there is at most one game for it to end.
LEMMA LossFinishes ==
  ASSUME TypeOK, RoomInv, NEW g \in GameConns, NEW after \in GsState,
         NEW unregistered \in SUBSET SessionIds, GsClose(g, after, unregistered)
  PROVE  Abstracted
  <1> DEFINE lost == IF gs[g] = "known" THEN InGame ELSE {}
  <1>1. /\ rooms' = [r \in RoomIds |-> IF r \in lost THEN NoRoom ELSE rooms[r]]
        /\ player_to_room' = Unseat(UNION {rooms[r].players : r \in lost})
        /\ announced' = announced \ {rooms[r].session_id : r \in lost}
        /\ issued' = issued
    BY DEF GsClose
  <1>2. CASE lost = {}
    <2>1. rooms' = rooms
      BY <1>1, <1>2 DEF TypeOK
    <2>2. player_to_room' = player_to_room
      BY <1>1, <1>2 DEF Unseat, TypeOK
    <2>3. announced' = announced
      BY <1>1, <1>2
    <2> QED BY <1>1, <2>1, <2>2, <2>3, Unseen
  <1>3. CASE lost # {}
    <2>1. PICK r \in RoomIds : rooms[r].state = "IN_GAME" /\ lost = {r}
      BY <1>3 DEF RoomInv, AtMostOneGame, InGame
    <2> HIDE DEF lost
    <2>2. rooms' = [rooms EXCEPT ![r] = NoRoom]
      BY <1>1, <2>1 DEF TypeOK
    <2>3. UNION {rooms[q].players : q \in lost} = rooms[r].players
      BY <2>1
    <2>4. announced' = announced \ {rooms[r].session_id}
      BY <1>1, <2>1
    <2>5. Promised!Remove(r)
      BY <1>1, <2>2, <2>3, RemoveRemoves
    <2>6. Promised!Finish(r)
      BY <2>1, <2>4, <2>5 DEF Promised!Finish
    <2> QED BY <2>6 DEF Abstracted, Promised!MmNext
  <1> QED BY <1>2, <1>3

\* Every step of the room server is a step of Matchmaking, or none.
LEMMA StepAbstracted ==
  ASSUME TypeOK, RoomInv, FiniteRosters, [Next]_vars
  PROVE  Abstracted
  <1>1. ASSUME NEW c \in Clients, ClientNext(c) PROVE Abstracted
    <2>1. ASSUME LeaveRoom(c) PROVE Abstracted
      <3>1. /\ pid[c] \in PlayerIds
            /\ rooms' = RoomsAfterLeave(pid[c])
            /\ player_to_room' = Unseat(Departing(pid[c]))
            /\ issued' = issued /\ announced' = announced
        BY <2>1 DEF LeaveRoom, TypeOK, storeVars
      <3> QED BY <3>1, LeaveLeaves
    <2>2. ASSUME ToggleReady(c) PROVE Abstracted
      <3> DEFINE r == player_to_room[pid[c]]
      <3>1. pid[c] \in PlayerIds /\ r \in RoomIds
        BY <2>2 DEF ToggleReady, TypeOK
      <3>2. /\ rooms' = [rooms EXCEPT ![r] = toggleReady(rooms[r], pid[c])]
            /\ player_to_room' = player_to_room
            /\ issued' = issued /\ announced' = announced
        BY <2>2 DEF ToggleReady, storeVars
      <3> HIDE DEF r
      <3>3. rooms[r] \in RoomType
        BY <3>1 DEF TypeOK
      <3>4. Phase' = Phase /\ Capacity' = Capacity /\ Game' = Game
        BY <3>1, <3>2, <3>3, ToggleReadyFields, NothingShown
      <3> QED BY <3>2, <3>4 DEF Abstracted, Promised!mmVars, Phase, Capacity, Game
    <2>3. ASSUME RoomListRequest(c) \/ Connect(c) \/ Destroy(c) PROVE Abstracted
      BY <2>3, Unseen DEF RoomListRequest, Connect, Destroy, storeVars
    <2>4. ASSUME NEW after \in ConnState, Close(c, after) PROVE Abstracted
      <3>1. issued' = issued /\ announced' = announced
        BY <2>4 DEF Close, storeVars
      <3>2. CASE pid[c] = NoPlayer
        BY <2>4, <3>1, <3>2, Unseen DEF Close
      <3>3. CASE pid[c] # NoPlayer
        <4>1. /\ pid[c] \in PlayerIds
              /\ rooms' = RoomsAfterLeave(pid[c])
              /\ player_to_room' = Unseat(Departing(pid[c]))
          BY <2>4, <3>3 DEF Close, TypeOK
        <4> QED BY <3>1, <4>1, LeaveLeaves
      <3> QED BY <3>2, <3>3
    <2> QED
      BY <1>1, <2>1, <2>2, <2>3, <2>4, CreateOpens, JoinJoins, StartStarts
         DEF ClientNext
  <1>2. ASSUME NEW g \in GameConns, GameServerNext(g) PROVE Abstracted
    <2>1. ASSUME \/ GsConnect(g) \/ GsDestroy(g)
                 \/ \E named \in BOOLEAN : GsHeartbeat(g, named)
                 \/ \E t \in tokens : GsTokenValidate(g, t)
          PROVE  Abstracted
      BY <2>1, Unseen DEF GsConnect, GsDestroy, GsHeartbeat, GsTokenValidate, storeVars
    <2> QED BY <1>2, <2>1, ReleaseReleases, LossFinishes DEF GameServerNext
  <1>3. CASE \/ TimerNext
             \/ \E signal \in Signals : Stop(signal)
             \/ \E t \in tokens : TokenExpire(t)
             \/ UNCHANGED vars
    BY <1>3, Unseen DEF TimerNext, LobbyBroadcast, LobbyBroadcastAborted, Stop,
                        TokenExpire, vars, storeVars
  <1> QED BY <1>1, <1>2, <1>3 DEF Next

\* The room server implements Matchmaking: whatever handlers run, in whatever
\* order, players and the chat server see rooms that are opened, joined, left,
\* started one at a time under fresh sessions, finished or abandoned.
THEOREM Refinement == Spec => ImplementsMatchmaking
  <1>1. Init => Promised!MmInit
    BY DEF Init, NoRoom, Promised!MmInit
  <1>2. TypeOK /\ RoomInv /\ FiniteRosters /\ [Next]_vars
          => [Promised!MmNext]_(Promised!mmVars)
    BY StepAbstracted DEF Abstracted
  <1> QED
    BY <1>1, <1>2, TypeCorrect, RoomInvCorrect, FiniteCorrect, PTL
       DEF Spec, ImplementsMatchmaking, Promised!MmSpec

==============================================================================
