SPECIFICATION BackendSpec
CONSTANTS
    MaxQueue = 4
    Players = {p1}
    Rooms = {r1}
    Sessions = {s1, s2}
    Nowhere = nowhere
    NoGame = no_game
    MaxSeats = 1
INVARIANTS QueueServed OneAttempt Agreement
PROPERTIES Retries Converges
CHECK_DEADLOCK FALSE
