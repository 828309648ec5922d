SPECIFICATION FairSpec
CONSTANTS
    c1 = c1  c2 = c2  c3 = c3
    p1 = p1  p2 = p2  p3 = p3
    Clients = {c1, c2, c3}
    PlayerIds = {p1, p2, p3}
    NoPlayer = blank
    RoomIds = {r1, r2}
    NoRoomId = no_room
    SessionIds = {s1}
    NoSession = no_session
    Expired = expired
    Unregistered = unregistered
    MaxPlayersPerRoom = 2
    MaxRooms = 2
    GameConns = {g1}
    IdsOf <- OwnIds
    LateReads = FALSE
    BlankReleases = FALSE
    HasStore = FALSE
    Signals = {SIGTERM}
INVARIANTS LobbyInformed MembersConnected LobbyOrRoom HostPresent
PROPERTY ListReachesLobby
CHECK_DEADLOCK FALSE
