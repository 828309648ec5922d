SPECIFICATION Spec
CONSTANTS
    c1 = c1  c2 = c2  c3 = c3
    p1 = p1  p2 = p2  p3 = p3
    Clients = {c1, c2}
    PlayerIds = {p1, p2}
    NoPlayer = blank
    RoomIds = {r1, r2}
    NoRoomId = no_room
    SessionIds = {s1, s2}
    NoSession = no_session
    Expired = expired
    Unregistered = unregistered
    MaxPlayersPerRoom = 2
    MaxRooms = 2
    GameConns = {g1}
    IdsOf <- AnyIds
    LateReads = TRUE
    BlankReleases = TRUE
    HasStore = FALSE
    Signals = {}
INVARIANTS TypeOK MembershipAgreement MembersRegistered AtMostOneGame GamesAnnounced
PROPERTIES GameIsClosed ImplementsMatchmaking
SYMMETRY SharedSymmetry
