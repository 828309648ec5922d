------------------------------ MODULE RoomList ------------------------------
(***************************************************************************)
(* The pages of the room list (handleRoomListRequest and the broadcast to  *)
(* the lobby), and a client that walks through them while rooms come and   *)
(* go.                                                                     *)
(*                                                                         *)
(* rooms_ is an unordered_map: erasing keeps the order in which the others *)
(* are visited, inserting may rehash and leave any order.  The arithmetic  *)
(* of pages is that of unsigned integers of Width bits (32 in the code).   *)
(***************************************************************************)
EXTENDS Integers, SequencesExt

CONSTANTS Rooms,             \* room ids
          Width,             \* bits of page, page_size, offset and total
          DefaultPageSize,   \* page_size when the request has none
          MaxPageSize,       \* limit on page_size
          LobbyBroadcastPageSize

Modulus == 2^Width
UInt == 0 .. Modulus - 1

\* There are fewer rooms than the integers can count, by a page.
ASSUME RoomListAssumption ==
    /\ Width \in Nat /\ Modulus \in Nat
    /\ {DefaultPageSize, MaxPageSize, LobbyBroadcastPageSize} \subseteq UInt \ {0}
    /\ DefaultPageSize <= MaxPageSize
    /\ IsFiniteSet(Rooms)
    /\ Cardinality(Rooms) + MaxPageSize < Modulus

VARIABLES order,     \* the order in which rooms_ is visited
          waiting,   \* the rooms in ROOM_WAITING
          walk,      \* page and size of the client's next request, and
                     \* whether the last reply was the end of the list
          seen,      \* the rooms it has been shown since page 0, in order
          changes    \* observer: what has happened to the list since page 0

vars == <<order, waiting, walk, seen, changes>>

Init ==
    /\ order = <<>>
    /\ waiting = {}
    /\ walk \in [page : {0}, page_size : UInt, over : {FALSE}]
    /\ seen = <<>>
    /\ changes = {}

-----------------------------------------------------------------------------
(* The reply to a request.                                                 *)

\* The loop that collects them: after the first n rooms of rooms_.
WaitingUpTo(rooms, open) ==
    LET upto[n \in 0..Len(rooms)] ==
            IF n = 0 THEN <<>>
            ELSE IF rooms[n] \in open THEN Append(upto[n - 1], rooms[n])
            ELSE upto[n - 1]
    IN upto
waiting_rooms == WaitingUpTo(order, waiting)[Len(order)]

PageSize(page_size) ==
    IF page_size = 0 THEN DefaultPageSize
    ELSE IF page_size > MaxPageSize THEN MaxPageSize ELSE page_size

\* Mutant: pages are numbered from 1.
OffsetFromOne(page, size) == ((page - 1) * size) % Modulus

Offset(page, size) == (page * size) % Modulus

\* Mutant: the last index is included.
IndicesInclusive(offset, size, total) ==
    {i \in offset .. total - 1 : i <= (offset + size) % Modulus}

\* The indices the loop visits, counted from 0.
Indices(offset, size, total) ==
    {i \in offset .. total - 1 : i < (offset + size) % Modulus}

Reply(page, page_size) ==
    LET size   == PageSize(page_size)
        offset == Offset(page, size)
        shown  == Indices(offset, size, Len(waiting_rooms))
    IN [k \in 1 .. Cardinality(shown) |-> waiting_rooms[offset + k]]

\* Mutant: the broadcast is not cut to a page.
LobbyPageUncut == waiting_rooms

\* What broadcastRoomListToLobby shows.
LobbyPage ==
    LET shown == IF Len(waiting_rooms) < LobbyBroadcastPageSize
                 THEN Len(waiting_rooms) ELSE LobbyBroadcastPageSize
    IN SubSeq(waiting_rooms, 1, shown)

-----------------------------------------------------------------------------

\* A room is made; the map may be rehashed.
Add(r) ==
    /\ r \notin ToSet(order)
    /\ order' \in SetToSeqs(ToSet(order) \cup {r})
    /\ waiting' = waiting \cup {r}
    /\ changes' = changes \cup {"added"}
    /\ UNCHANGED <<walk, seen>>

\* A room starts its game.
StartGame(r) ==
    /\ r \in waiting
    /\ waiting' = waiting \ {r}
    /\ changes' = changes \cup {"removed"}
    /\ UNCHANGED <<order, walk, seen>>

\* A room, waiting or in game, is erased.
Erase(r) ==
    /\ \E i \in 1..Len(order) : order[i] = r /\ order' = RemoveAt(order, i)
    /\ waiting' = waiting \ {r}
    /\ changes' = changes \cup (IF r \in waiting THEN {"removed"} ELSE {})
    /\ UNCHANGED <<walk, seen>>

\* The client asks for the next page; one that is not full was the last.
\* It has no use for a page whose number does not fit.
RoomListRequest ==
    LET reply == Reply(walk.page, walk.page_size)
    IN /\ ~walk.over
       /\ walk.page + 1 \in UInt
       /\ seen' = seen \o reply
       /\ walk' = [walk EXCEPT !.page = @ + 1,
                               !.over = Len(reply) < PageSize(walk.page_size)]
       /\ UNCHANGED <<order, waiting, changes>>

\* It begins again.
Restart(page_size) ==
    /\ walk' = [page |-> 0, page_size |-> page_size, over |-> FALSE]
    /\ seen' = <<>>
    /\ changes' = {}
    /\ UNCHANGED <<order, waiting>>

Next ==
    \/ \E r \in Rooms : Add(r) \/ StartGame(r) \/ Erase(r)
    \/ RoomListRequest
    \/ \E page_size \in UInt : Restart(page_size)

Spec == Init /\ [][Next]_vars

-----------------------------------------------------------------------------
(* Properties.                                                             *)

\* Room number i (from 0) is on page i \div size, at place i % size, and on no
\* other page, as long as the product of page and size fits into Width bits:
\* no room is lost or repeated at the edges of pages, of the list or of the
\* integers, and nothing else is shown.
PagesPartition ==
    \A page, page_size \in UInt :
        LET size  == PageSize(page_size)
            reply == Reply(page, page_size)
        IN page * size < Modulus =>
               /\ \A i \in 0 .. Len(waiting_rooms) - 1 :
                     i \div size = page =>
                         /\ i % size < Len(reply)
                         /\ reply[(i % size) + 1] = waiting_rooms[i + 1]
               /\ \A k \in 1..Len(reply) :
                     \E i \in 0 .. Len(waiting_rooms) - 1 :
                         /\ i \div size = page /\ i % size = k - 1
                         /\ reply[k] = waiting_rooms[i + 1]

\* A walk during which no room was made shows no room twice, whatever rooms
\* went away in between (though it may miss one that stayed).
NoneTwice ==
    "added" \notin changes =>
        \A i, j \in 1..Len(seen) : seen[i] = seen[j] => i = j

\* The broadcast to the lobby is the page a client gets that asks for page 0
\* and names no size.
BroadcastIsFirstPage == LobbyPage = Reply(0, 0)

=============================================================================
