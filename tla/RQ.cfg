SPECIFICATION RequestsSpec
CONSTANTS
    MaxRequests = 3
    Window = 4
    NoTtl = no_ttl
    Rooms = {r1, r2, r3, r4}
    Width = 3
    DefaultPageSize = 2
    MaxPageSize = 3
    LobbyBroadcastPageSize = 2
INVARIANTS TypeOK BurstBounded ExpiryKept PagesPartition NoneTwice BroadcastIsFirstPage
PROPERTY Forgiven
SYMMETRY RoomSymmetry
