-------------------------- MODULE MCChannelManager --------------------------
(* Instances of ChannelManager for TLC.                                    *)
EXTENDS ChannelManager, TLC

CONSTANTS c1, c2, c3, p1, p2

\* Every session may authenticate under every id.
AnyIds == [c \in Clients |-> PlayerIds]

\* Every session keeps to one id; the first two belong to the same player.
OneIdEach == [c \in Clients |-> IF c = c3 THEN {p2} ELSE {p1}]

SharedSymmetry == Permutations(Clients) \cup Permutations(PlayerIds)
                    \cup Permutations(SessionIds)

PlayerSymmetry == Permutations({c1, c2}) \cup Permutations(SessionIds)

=============================================================================
