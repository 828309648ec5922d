SPECIFICATION Spec
CONSTANTS
    c1 = c1  c2 = c2  c3 = c3
    p1 = p1  p2 = p2
    Clients = {c1, c2, c3}
    PlayerIds = {p1, p2}
    NoPlayer = blank
    SessionIds = {s1, s2}
    Lobby = lobby
    Expired = expired
    NoClient = no_client
    IdsOf <- OneIdEach
    HistorySize = 1
    MaxMessages = 2
    LateReads = FALSE
    RedisLossy = FALSE
INVARIANTS TypeOK EntryOwned CaughtUp WhispersArrive NoHistoryLeft
SYMMETRY PlayerSymmetry
