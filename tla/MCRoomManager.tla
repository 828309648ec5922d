---------------------------- MODULE MCRoomManager ----------------------------
(* Instances of RoomManager for TLC.                                        *)
EXTENDS RoomManager, TLC

CONSTANTS c1, c2, c3, p1, p2, p3

\* Every client may use every id (reconnects, shared ids, the blank id).
AnyIds == [c \in Clients |-> PlayerIds]

\* Every client has an id of its own.
OwnIds == [c \in Clients |-> CASE c = c1 -> {p1} [] c = c2 -> {p2}
                               [] OTHER -> {p3}]

\* Sound where ids are shared: nothing tells the members of a set apart.
SharedSymmetry == Permutations(Clients) \cup Permutations(PlayerIds \ {NoPlayer})
                    \cup Permutations(RoomIds) \cup Permutations(SessionIds)
                    \cup Permutations(GameConns)

==============================================================================
