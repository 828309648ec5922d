# A TLA+ development for the SOS backend

The backend consists of two C++ servers and the Redis instance they share. The
*room server* seats players in rooms, starts games and tells a game server who
may enter. The *chat server* relays messages in a lobby and in one channel per
game. This directory holds TLA+ modules that model them, configurations that
TLC checks, and proofs that TLAPS checks. Paths below are relative to the
repository.

## 1. Inventory

Both servers run one `io_context` on one thread. A completion handler is
therefore an atomic step, there are no data races, and everything that is hard
lies in the **order of handlers**: requests of different connections, closes for
many reasons, timers, notices that travel on another connection, Redis calls
that fail one by one, completions that are already queued when something is
closed or cancelled.

| Component (source) | State | Operations | Talks to |
|---|---|---|---|
| `Room` (`src/room/room/Room.*`) | host id, limit, state, session id, the vector of players with `is_ready`, `is_host` | add, remove, toggle ready, can start, summary | called by `RoomManager` |
| `RoomManager` (`src/room/room/RoomManager.*`) | `rooms_`, `player_to_room_`, `sessions_` (weak), `lobby_sessions_` (weak), the pending flag and timer of the lobby broadcast | create, join, leave, ready, start, list, disconnect, slot released, game server lost, delayed broadcast | `Room`, `SessionStore`, `ChatServerChannel`, sends to sessions |
| `ClientSession`, `RoomServer` (`src/room/server`) | `player_id_`, `closed_`, buffers, write queue, heartbeat timer | accept, read and dispatch, write, close, destroy | `RoomManager`, `RateLimiter`, `Codec` |
| `GameServerSession`, `GameServerChannel` (`src/room/internal`) | `server_id_`, buffers | heartbeat, token validation, slot released, close | `RoomManager`, `SessionStore` |
| `SessionStore` (`src/common/redis`) | Redis: `token:*`, `active_sessions`, `game_server:*` | store and validate tokens, register and unregister sessions | `RedisClient` |
| `ChatServerChannel` (`src/room/internal`) | socket, `connected_`, `stopped_`, `write_queue_`, reconnect timer | resolve, connect, read, write, close, schedule a reconnect, stop, send notices | the chat server's `InternalChannel` |
| `ChannelManager` (`src/chat/channel`) | `players_`, `lobby_members_`, `session_channels_`; Redis: `chat:history:*` and keys nobody reads | authenticate, send (lobby, all, whisper), disconnect, session created, session ended | `RedisClient`, sends to sessions |
| `ChatSession`, `ChatServer` (`src/chat/server`) | `player_id_`, `authenticated_`, `closed_`, write queue | as `ClientSession` | `ChannelManager`, `RateLimiter`, `Codec` |
| `InternalSession`, `InternalChannel` (`src/chat/internal`) | buffers | read the room server's notices | `ChannelManager` |
| `Codec` (`src/common/protocol`) | the bytes received and not yet decoded | encode, feed, try to decode | every session |
| `RateLimiter` (`src/common/ratelimit`) | a counter per peer in Redis, with a time to live | allow | `RedisClient` |
| `RedisClient`, `Config`, `Logger`, `UuidGenerator` (`src/common`) | none | one library call each | |

What makes each of them correct:

- **RoomManager**: the three indexes describe one seating; at most one game runs
  (there is one game server); a waiting room can be started by somebody; whoever
  loses a seat is back in the lobby; no change of the list is lost to the lobby;
  the chat server and Redis know which games run.
- **SessionStore**: a token is good for one entry.
- **ChatServerChannel**: one connection at a time, one write at a time, no notice
  forgotten while the link is up, and the link comes back.
- **The sessions**: one read and one write at a time, messages decoded as they were
  sent however reads cut them, silent peers disconnected, closed objects freed.
- **RateLimiter**: bounded bursts, and nobody limited for good.
- **The two servers together**: the chat server has a channel exactly for the games
  that the room server has announced and not ended.
- **ChannelManager**: its three tables agree; an entry belongs to an open
  connection that authenticated for it; channel members miss nothing and see it
  in order; an ended game leaves nothing behind.

The hazards this list is aimed at, each with its line, are in `PROJECT.json`. Some name
no property: there the code does what the hazard fears, or no text of the repository
says what it should do, and the properties nearest to it leave the case out; the note
says so.

## 2. Modules

| Module | Models | Extended by |
|---|---|---|
| `Room` | the class `Room`: a value and its operations | `RoomManager` |
| `RoomManager` | room server: manager, sessions, game servers, Redis facts | `MCRoomManager`, `RoomManagerProofs`, `RoomManagerRefinement` |
| `Matchmaking` | what the room server promises, abstractly; refined by `RoomManager` | instantiated by `RoomManager` and `Backend` |
| `RoomList` | the pages of the room list and a client that walks through them | `MCRequests`, `RoomListProofs` |
| `ChannelManager` | chat server: manager, sessions, notices, histories | `MCChannelManager`, `ChannelManagerProofs` |
| `ChatServerChannel` | the link, with the completion queue of the `io_context` | `Backend` |
| `Backend` | both servers: `Matchmaking`, the link, the connection, the chat server's channels, crashes and restarts | `BackendProofs` |
| `Codec` | the framing of messages | `SessionIo` |
| `SessionIo` | reading, writing, heartbeat and closing of the four session classes | `MCSessionIo`, `SessionIoProofs` |
| `RateLimiter` | the fixed window counter of one peer | `MCRequests`, `RateLimiterProofs` |
| `DataLemmas` | nothing: counting operations that are pending or completed, induction, recursive functions, sequences | `BackendProofs`, `SessionIoProofs`, `RoomListProofs` |
| `MC*` | constants and symmetry sets for TLC; `MCRequests` also puts `RateLimiter` and `RoomList` side by side | |
| `*Proofs` | theorems | |

### Room and RoomManager

A room is a record; the vector of players is three sets (who has an entry, whose
entry is ready, whose entry is marked host), because `host_id` and the `is_host`
mark part ways once the host's entry is removed. `NoRoom` is the absence of a map
entry. Names are left out: no decision reads them.

Every handler is one action. `CreateRoom`, `JoinRoom`, `LeaveRoom`,
`ToggleReady`, `StartGame` and `RoomListRequest` are the messages of a client;
`Connect`, `Close` and `Destroy` its life cycle, where `Close` stands for EOF,
read and write errors, the heartbeat timeout and the rate limit alike, since all
call `close()`. `GsConnect`, `GsHeartbeat`, `GsTokenValidate`, `GsSlotReleased`,
`GsClose` and `GsDestroy` are the game server's. `LobbyBroadcast`,
`LobbyBroadcastAborted` and `Stop` are the timer and the signal handler, and
`TokenExpire` the clock of Redis. A request that is rejected changes no state and
is a stuttering step.

Two details of the reactor are explicit. `close()` cannot take back a read that
has already completed, and the read handler looks at `closed_` only *after* it
has processed a message: with `LateReads` a closed session handles one more
request (`"closing"`). And `sessions_` and `lobby_sessions_` hold weak pointers:
a closed session can be locked until `Destroy`, afterwards its entry is `Expired`.

Redis calls that fail are choices of the action that makes them: the parameters
`registered`, `tokened` and `unregistered` are the effects that took place.
`stale` is an observer, the lobby sessions that have not been shown the current
list. It is the only state without a counterpart in the code.

The game server is not in this repository. It is modelled by the messages it can
send: any heartbeat, the validation of any token, and the release of any player
under a session id that was issued to it or, with `BlankReleases`, under none.

### ChannelManager

`players`, `lobby_members`, `session_channels` and `members` are the manager's
tables. `AuthLobby`, `AuthSession` and `AuthRefused` are the outcomes of
`handleAuth`, `SendLobby`, `SendAll` and `SendWhisper` those of `handleChatSend`
that change something; `SessionCreated` and `SessionEnded` come from the room
server at any time, at most once per session as the room server sends them.
A message is its turn in its channel. `Saved` is LPUSH then LTRIM: with
`RedisLossy` the first may fail (nothing is stored) or the second (the list is
not trimmed), and `HistoryExpire` is the TTL. It too needs `RedisLossy`: a run or
a theorem with `~RedisLossy` (`CaughtUp`, `UpToDate`, `NoHistoryLeft`) is about histories
that are younger than two hours since their last message, and a player who joins
after that is shown nothing of what went before. Two observers are added: `seen`, the
last message a session was shown in its present channel, and `whisper_lost`.

### ChatServerChannel

Here the order of completions *is* the subject, so the module keeps the
`io_context`'s queue: an operation is `pending` until the kernel or the clock
finishes it, its completion waits in `ready`, and the handler at the head runs.
Closing the socket fails what is pending and leaves what is ready alone.
`corrupt` records that `pop_front` was called on an empty deque; what follows is
undefined, and the model stops there. Two assumptions: the reconnect delay of
5 s outlasts completions that are already queued, and the chat server never
writes on this connection (nothing in `InternalSession` does), so a read
completes only with an error.

### Matchmaking

Players, rooms, a phase per room and the sessions announced to the chat server;
no connections, readiness, hosts, Redis or lobby. `RoomManager` instantiates it
with its own `player_to_room`, the rooms' states and `issued`, and
`ImplementsMatchmaking` says that each handler, whatever else it does, is one of
open, join, leave, start, finish and abandon, or none. `Abandon`, the end of a room
whose host goes, tells the chat server nothing even if a game was running. That is
what the code does and not what the documents say: the abstract specification has to
allow it for the refinement to hold, and the run `RM_abandon` shows that the
documented behaviour (`EndedWhenAllLeft`) fails.

### Backend

`Backend` extends the link with the contents of its queue, and puts `Matchmaking`
at one end and the chat server's acceptor, connection and `session_channels` at the
other. `GameStarts` and `GameEnds` are steps of `Matchmaking` that hand a notice to
the link (or drop it, when the link is down). A write completes when the kernel has
the bytes, whether or not anybody reads them; a connection can break unnoticed; the
kernel completes a connect before `InternalChannel` accepts it, and an accept error
stops the accepting. The chat server stops at a signal (it closes its acceptor and
keeps its connections), crashes and starts again with no channels. `lost` is an
observer: sessions of which a notice was dropped, cleared or cut off, or whose channel
a crash has taken. One assumption: the chat server reads what an old connection
still holds within the 5 s before the room server reconnects.

### Codec and SessionIo

`Codec` models bytes as digits of a small base, so that messages of three bytes
already use several digits of the four-byte length, and `encode` and `tryDecode`
on them as the code does: the length test, the limit, the bodies that do not parse
and are taken out, the buffer that is emptied when the length exceeds the limit.
`Turned` is one turn of the read handlers' loop and `Drained` so many of them.

`SessionIo` is one session and the reactor's view of it (pending operations,
completions that wait), in the four variants of the code: `ClientSession` and
`ChatSession` have a heartbeat timer and look at `closed_` in the loop,
`GameServerSession` and `InternalSession` do neither; `ChatSession::send` refuses
once closed, the others queue; `ClientSession` is closed by the rate limiter.
The peer's stream is cut by reads of any size. What messages mean is left to the
managers' modules. The completion of a cancelled timer does nothing and is left out.

### RateLimiter

One Redis key: its counter, its time to live in ticks, and the two calls `INCR` and
`EXPIRE`, each of which may fail without effect, or take effect and throw because
the answer is lost. Both callers let a request pass when the limiter throws.
`recent` and `faulty` are observers.

### RoomList

The reply to a request and the first page that the broadcast shows, in unsigned
arithmetic of `Width` bits, over a list whose order is that of an
`unordered_map`: stable under erasure, arbitrary after an insertion. `WaitingUpTo` is
the loop that collects the waiting rooms, turn by turn.

## 3. Runs

| Run | Instance | Checks | States |
|---|---|---|---|
| `RM_shared` | 2 connections sharing 2 ids, 2 rooms, 2 sessions, late reads, blank releases | `TypeOK`, `MembershipAgreement`, `MembersRegistered`, `AtMostOneGame`, `GamesAnnounced`, `GameIsClosed`, `ImplementsMatchmaking` | 396 000 |
| `RM_store` | 2 connections, 1 id and the blank id, 2 connections of game servers, a store that may fail | `TokensSingleUse` | 476 000 |
| `RM_lobby` | 3 connections with their own ids, 2 rooms, a signal, fair timers | `MembersConnected`, `LobbyOrRoom`, `HostPresent`, `LobbyInformed`, `ListReachesLobby` | 147 000 |
| `CM_own` | 3 connections, two of one player, 2 sessions, history of 1, 2 messages a channel | `TypeOK`, `EntryOwned`, `CaughtUp`, `WhispersArrive`, `NoHistoryLeft` | 79 000 |
| `CM_shared` | 2 connections sharing 2 ids, late reads, failing Redis | `LobbyAgreement`, `ChannelAgreement`, `HistoryNewestFirst` | 170 000 |
| `BE` | 1 player, 1 room, 2 sessions, queue of at most 4, any number of crashes and reconnects | `QueueServed`, `OneAttempt`, `Agreement`, `Retries`, `Converges` | 180 000 |
| `SIO` | all 4 kinds, streams of up to 2 messages (empty, at the limit, too long, not parsing), queue of at most 2 | `TypeOK`, `WriteOwnsFront`, `OneRead`, `FramesInOrder`, `NothingWaits`, `SilentPeerClosed`, `ClosedIsFreed` | 582 000 |
| `RQ` | `RateLimiter`: limit 3, window of 4 ticks; `RoomList`: 4 rooms, 3-bit integers, every page and page size | `TypeOK`, `BurstBounded`, `ExpiryKept`, `Forgiven`; `PagesPartition`, `NoneTwice`, `BroadcastIsFirstPage` | 71 000 |

`RQ` checks two small models that share no state. A behaviour exercises one of them
and leaves the other in its initial state, so the run explores the sum of the two
state spaces.

Four more runs state what a document, a comment or an error message of the
repository says and TLC refutes; see section 6.

**Bounds and why they are enough.** The handlers relate a player to a room, a
session to a player and a room to the one running game. Two connections reach
every case of "the other one", two rooms every case of "another room", and two
sessions let a game follow a game. The third connection in `RM_lobby` makes a room
with a host, a guest and an outsider, the smallest in which a host's leave evicts
somebody while somebody else watches the lobby. `CM_own` gives one player two
connections, so that kicks happen, and a history of one message, so that trimming
happens at the second. In `BE` one player is enough, because notices name sessions
and not players; two sessions give four notices, so a queue of four never fills up.
`SIO` needs a second message behind one that is cut, too long or does not parse;
reads take up to 10 bytes, so that one read can end a message and begin or hold
another; a queue of two
tells the front from the rest. `RoomList` in `RQ` uses 3-bit integers so that products of page
and size wrap, and `RoomListAssumption` keeps, as in the code, the number of rooms
and a page away from the width. `RateLimiter` has a window longer than its limit, so that all
requests of two windows can fall into one stretch. `MaxMessages` bounds the counters
of messages, `MaxQueue` the queues. Symmetry is used only where no constant tells
the permuted values apart. `ImplementsMatchmaking`, checked with symmetry, is a safety
property that treats players, rooms and sessions alike. Of the runs with liveness only
`RQ` uses it, for the rooms: `Forgiven` is about behaviours of the limiter, whose states
hold no room and which no permutation of rooms changes.

**Why some runs restrict inputs.** `MembersConnected`, `EntryOwned` and
`WhispersArrive` are checked without late reads, and the last two with one id
per connection. Those restrictions are needed: section 6 says what happens
otherwise.

**Fairness.** `RM_lobby` assumes that a timer that has expired or was cancelled
gets its handler (`WF(TimerNext)`): a steady timer always completes and the
server's thread never blocks for good. Nothing is assumed of clients.
`ChatServerChannel` assumes that queued handlers run, and that name resolution,
connects and timers end, successfully or not; nothing forces them to succeed. `BE`
adds that a write of a few bytes ends, and that the chat server's reactor accepts
connections and handles what has arrived; nothing makes the chat server restart, a
connection break or a game end. `SIO` assumes that queued handlers run and timers
expire, and nothing of the peer, whose reads and writes need not complete. `RQ`
assumes only that time passes. Deadlock checking is off in `RM_lobby`, `BE`, `SIO`
and `CSC_loss`, because a server that was told to stop, or a session that is closed,
may come to rest.

**Mutants.** Every property of a passing run comes with a definition that changes
the model as a plausible bug would (a dropped guard, a missing reset, a forgotten
member), marked "Mutant" in the modules; under it TLC reports a violation.

## 4. Proofs

The theorems hold for every number of players, connections, rooms, sessions,
messages and crashes, every length of a queue, every limit and every window. They
assume only what the modules' `ASSUME`s say: the special values (`NoRoomId`,
`Expired`, `NoMessage`, ...) differ from real ones, bounds are natural numbers, the limit
of a message fits into the length field, and rooms and a page fit into the integers
that count them. TLC evaluates
these assumptions in every run. Where a theorem has a hypothesis on a constant
(`~LateReads`, `~BlankReleases`, `~RedisLossy`, ids of one's own), it excludes an
input for which the property is false, as section 6 says; the runs check the
property under the same hypothesis.

*Room server.*

- `TypeCorrect`: `Spec => []TypeOK`.
- `RoomInv` is the inductive invariant behind `Membership`, `OneGame` and
  `Announced`. `MembershipAgreement` alone is not inductive: a start needs that a
  removed room is blank (`DeadRoomsBlank`, else a new room could inherit members),
  and the end of a session needs that a room has a session id exactly while it is
  in game, one that was issued and announced (`SessionsOfGames`), and that no other
  game shares it (`AtMostOneGame`), else ending one game would silence another.
- `ClosedGames` and `HostStays` come from `RoomStep`: every action changes each
  room in one of seven ways, proved once, and the two properties follow from the
  seven. `HostStays` assumes `~BlankReleases`; without it a game server could
  release the host of a waiting room.
- `Registered` uses `SessionInv`: a registered, live session goes by the id it is
  registered for, and every seated player is registered. The first half is what a
  takeover of an id by another connection must keep.
- `Refinement` (`RoomManagerRefinement`): `Spec => ImplementsMatchmaking`, one lemma
  per handler (`CreateOpens`, `JoinJoins`, `LeaveLeaves`, `StartStarts`,
  `ReleaseReleases`, `LossFinishes`), joined in `StepAbstracted`. It needs `RoomInv`:
  the abstract members of a room are read off the seats and the concrete ones off
  the roster (`MembershipAgreement`), and the loss of a game server, which ends
  every game, is one abstract step only because there is at most one game
  (`AtMostOneGame`). `FiniteRosters` is added because the set of players may be
  infinite and a free seat is found by counting a roster.

*Room server: connections, lobby and tokens* (also in `RoomManagerProofs`).

- `SingleUse`: no token is accepted twice, whatever Redis calls fail. By induction
  together with `TokensOfIssued`: tokens, stored or used, belong to sessions that were
  issued, and a new game draws a session that was not.
- `Informed` (`~BlankReleases`): `BroadcastInv` adds that until the server is stopped
  the timer of the broadcast is not cancelled, so that a pending flag means a
  broadcast. The hypothesis is needed: a blank release changes a waiting room and
  schedules nothing.
- `Connected` (`~LateReads`): `ConnectedInv` adds `NoneClosing`, that no session is
  between `close()` and its last read. It holds even if connections share ids.
- `LobbyRight` (`IdsApart`, `~LateReads`): `LobbyInv` adds to `ConnectedInv` that only
  an open session goes by an id, one of its own (`IdsHeld`), that registered sessions
  are open and go by the id they are registered for (`RegistrationOpen`: the weak
  pointer of a player who is evicted can be locked), and `LobbyByPlayer`, the lobby as a
  function of ids and seats.

*The link and the two servers* (`BackendProofs`).

- `Served` and `Attempted`: `LinkInv` counts, for reads, writes and attempts, what is
  pending or waits in `ready`. Neither `QueueServed` nor `OneAttempt` is inductive:
  a link that is up has exactly one read under way, a write if the queue needs one and
  no attempt; one that is down has an empty queue and nothing pending on the socket, and
  completions of the old socket are left only while the next attempt is still a pending
  timer. `DataLemmas` has what starting, completing,
  handling and failing an operation do to such a count. The theorems hold for the link
  with arbitrary callers (`Spec`) and inside the composition (`BackendSpec`).
- `LinkComposed`: every step of `Backend` is a step of `ChatServerChannel` or leaves
  its variables alone, which is why what is proved of the link carries over.
- `Agreed`: `BackendInv` adds to the agreement that `write_queue` is the length of the
  queue and that a notice whose write has completed, and which is still at the front
  of the queue, is already on the wire, read or lost (`FrontInv`). That is what makes
  the pop harmless, and it is the step that a test hardly reaches, because the
  completion of a write races the end of the connection.

*Sessions* (`SessionIoProofs`).

- `FrontOwned` and `ReadOnce`, for all four classes, any peer and any stream: `IoInv`
  counts reads and writes as `LinkInv` does, and adds that a closed session has
  neither pending. One lemma per method (`begin`, `doWrite`, `send`, `close`, ...) says
  what it does to the counts.
- `TypeCorrect`, `OrderKept` (`FramesInOrder`) and `NothingLeft` (`NothingWaits`), for every
  stream of messages, every way in which reads cut it, every base of the length field
  and every limit below its range. None of the properties is inductive, since none
  says where in the stream the codec is. `StreamInv` does: while the session is open,
  or a read that has brought bytes is still to be handled, `buffer \o wire` are the bytes
  of the last `n` messages for some `n`, and what was processed is what can be read of
  the messages before them (`InStep`); or a message was too long, and everything before
  it has been processed (`Ahead`). It also says that a completed read has no more bytes
  than are on the wire and, if every message fits and parses, that the codec holds less
  than a frame (`Waits`). A read that leaves the loop early, because the session is
  closed or the rate limiter refuses, does so on a session that has no other read
  (`ReadsSound`), so that nothing is decoded from the wrong place afterwards: here the
  order of the messages rests on the count of the reads.
- The argument goes from the inside out: `LengthRead` (the four digits that `encode`
  writes are the length that `tryDecode` reads), `FrameAtFront` (a buffer that begins
  with a frame, whole or cut), `DecodeSound` (one call keeps `Sound`), `TurnKeeps` and
  `LoopKeeps` (induction on the turns), `LoopEnds` (the loop ends within
  `Len(buffer) \div 4 + 1` turns, because a frame takes at least four bytes), and
  `StreamKept` with one step per handler. `AllReadable` and `WaitsAtEnd` give the last
  part of `NothingWaits`: when every byte has been read, every message has been processed.

*Pages of the room list* (`RoomListProofs`), for any finite set of rooms, any sizes and
any width of the integers.

- `CollectedAlways`, by induction on the turns of the loop over `rooms_`: a waiting room
  stands at its `Rank`, the number of waiting rooms up to it. Hence no room is listed
  twice, and (`ThinnedNoLater`) when rooms start their game or are erased, no other
  room moves to a later place.
- `PagesExact` (`PagesPartition`): `ReplyIsPage` says which rooms a reply shows for any
  offset, also where `offset + page_size` wraps; there the page is empty, as the
  assumption that rooms and a page fit into the integers makes it. Quotient and
  remainder are unique (`QuotientUnique`), so a room is on one page.
- `WalkRepeatsNothing` (`NoneTwice`): the property alone says nothing of rooms that are
  still to be shown. `WalkInv` adds that while no room is made the rooms shown fill the
  pages before the next one exactly, and that a room that was shown and still waits is
  not behind them. As the rooms shown are all different, they are no more than there
  are rooms: that, and not the guard, is why `page * page_size` does not wrap on a walk.
- `BroadcastIsPage` (`BroadcastIsFirstPage`) has the hypothesis
  `LobbyBroadcastPageSize = DefaultPageSize`: both are 20, one a literal in
  `RoomManager.cpp:336`, the other a constant in `RoomManager.h:65`.

*Induction over data* (`DataLemmas`). The library states induction for a predicate, which
the provers cannot instantiate. `Induction` states it for a set of numbers, and is
proved from the fact that `<` is well founded on `Nat`. `FixedPoint` says that a
recursive function `f[n \in D] == IF n = 0 THEN c ELSE step(n, f[n - 1])` exists, where
the step is itself a function; with it, `Turns`, `LastBytesStep`, `LastReadableStep` and
`WaitingStep` read the equations of a recursive definition off its `CHOOSE`.

*Rate limiter* (`RateLimiterProofs`).

- `TypeCorrect`, `Burst` and `Expiry`: `BurstBounded` speaks of one number, and
  `WindowInv` of every stretch of the last `i` ticks: one not older than the key holds
  at most what the key has counted, a longer one at most a full key more.

*Chat server.*

- `TypeCorrect` includes that an untroubled Redis keeps a history within
  `history_size_`.
- `LobbyTables` and `ChannelTables`: `Tables`, their conjunction, is inductive;
  neither half is, because a player moves between the lobby and a channel in one
  handler.
- `HistoryEnds` (if Redis does not fail) adds that an entry names only an existing
  channel, from `Tables`: so nobody can write to an ended session.
- `Owned` and `Whispers` assume one id per connection and no late reads, and use
  `OwnedInv`, which adds that a connection's id is one of its own and that no
  session is between closing and closed.
- `HistoryOrder` needs no assumption: `Ordered(h, n)` survives LPUSH of a newer
  message, LTRIM, and the failure of either.
- `UpToDate` (one id per connection, no late reads, Redis works): the head of the
  stored list is the newest message of its channel (`HistoryTop`), and every entry's
  session has been shown it (`Shown`); `EntryOwned` and `Tables` say which session that
  is and that the channel exists.

**Only model-checked**: the liveness properties `ListReachesLobby`, `Retries`,
`Converges`, `SilentPeerClosed`, `ClosedIsFreed` and `Forgiven`; fairness and `ENABLED`
are out of the prover's reach. Every invariant, and the action property and refinement,
that a passing run checks is also a theorem.

## 5. What is not modelled

- What the write queues carry: `SessionIo` counts messages, and the managers'
  modules take a message sent to an open session to arrive.
- The chat server's members in `Backend`: only the channels, which are all that the
  notices change there. `ChannelManager` has the rest.
- A restart of the room server: it ends every connection and forgets every room;
  afterwards it is in its initial state, with what Redis still holds unread.
- A heartbeat timeout configured as 0, which switches the timers off.
- Accept errors of `RoomServer`, `ChatServer` and `GameServerChannel`: as in
  `InternalChannel` they end the accepting, and no more connections come.
- Redis keys that are written and never read (`chat:session`, `chat:player`,
  `chat:name`, `game_server:*`), `expected_players`, names, wording, logging,
  configuration, deployment and dashboards.

## 6. Where the code and the repository's texts disagree

Each of these is a run with the shortest counterexample TLC finds.

- `RM_duplicate`, `OneSessionPerPlayer`: `handleSlotReleased` forgets the
  registration of a connection that still uses its id, so a second connection can
  take the id although the error for that case says "Player ID already connected".
- `RM_empty`, `NoEmptyRoom`: after the host of a running game was released, the
  last guest's leave does not remove the room. The empty room stays in game, and
  no other game can start until the game server disconnects.
- `RM_abandon`, `EndedWhenAllLeft`: a host who leaves or disconnects during a game
  removes the room through `removeRoom` (`RoomManager.cpp:527`), which sends no
  `SessionEnded` and does not unregister the session, although
  `docs/Systems/Room Server.md:123` says "SessionEnded | 방 전원 퇴장 시". The shortest
  trace is a host who creates a room, starts alone and leaves: nobody plays, and the
  session stays announced for good. In `Backend`, `Abandon` is the same step, and the
  chat channel stays until the chat server ends.
- `CSC_loss`, `LossSurvived`: a write that has completed when a read error closes
  the link pops the cleared queue.

Further observations that follow from the models and have no run of their own:

- A `ChatAuth` for an unknown session from an authenticated connection erases its
  entry and keeps `authenticated_` (`ChannelManager.cpp:82`), so its messages are
  dropped without the error that `docs/Systems/Chat Server.md:60` documents.
- Notices that are dropped while the link is down are never sent again
  (`ChatServerChannel.cpp:44`): `Agreement` and `Converges` hold only outside
  `lost`. The recovery of a restarted chat server from Redis that
  `docs/시스템 아키텍처.md:145-147` describes is not in the code: nothing reads
  `chat:session`.
- An accept error of `InternalChannel` (`InternalChannel.cpp:36`) leaves the chat
  server listening without accepting: the room server's connects and writes keep
  succeeding and nobody reads them (`Unserved`).
- A message that does not parse ends the decoding loop (`Codec.h:40`), so complete
  messages behind it wait for the next read; `docs/Systems/common 라이브러리.md:39`
  says only that the message is skipped. One that is too long (`Codec.h:31`) takes
  everything read with it, and what comes next is decoded from the middle of a frame.
- A read that is handled after `close()` and holds no complete message starts the
  heartbeat timer of the closed session again (`ClientSession.cpp:96`), and the
  object lives until it expires (`ClosedIsFreed` still holds).
- Connections of game servers have no timeout, and the key `game_server:*` is read
  by nobody: a silent game server is not noticed, although
  `docs/시스템 아키텍처.md:142` says its sessions end after 90 s.
- A counter whose `EXPIRE` fails, or whose first `INCR` is done and its answer lost,
  never expires: the peer is limited for good (`RateLimiter.cpp:17`).
- A request for a page whose offset exceeds 2^32 gets rooms of an earlier page
  (`RoomManager.cpp:347`).

- A request read before `close()` and handled after it (`ClientSession.cpp:92`,
  `ChatSession.cpp:88`) seats or registers a player whose disconnect has already
  been handled; nothing removes it until the id is used again.
- A `SlotReleased` without session id that empties a seat in a *waiting* room
  schedules no broadcast of the list (`RoomManager.cpp:382`).
- A connection that authenticates under a second id leaves the first entry behind
  (`ChannelManager.cpp:112`); whispers to it are accepted and lost.
- After a refused `ChatAuth`, a second connection of the same player finds no
  entry and does not replace the first (`ChannelManager.cpp:41`).
- A connect that is under way during `stop()` brings the link up afterwards
  (`ChatServerChannel.cpp:95`).

## 7. State and plan

All components of section 1 that decide anything are modelled: `Room`, `RoomManager`,
`ChannelManager`, `ChatServerChannel`, `Codec`, `SessionIo`, `RateLimiter` and `RoomList`, with
`Matchmaking` as the abstract specification and `Backend` as the composition; the
safety properties are proved. What could follow:

1. Write queues with contents in `SessionIo`, and with them the delivery of what the
   managers send.
2. The members of the chat server's channels in `Backend`.
3. Proofs of the liveness properties, with a prover that supports `ENABLED`.

## 8. How to run

```
tlc -workers 2 -config RM_shared.cfg MCRoomManager
tlc -workers 2 -config CM_own.cfg MCChannelManager
tlc -workers 2 -config BE.cfg Backend
tlc -workers 2 -config SIO.cfg MCSessionIo
tlc -workers 2 -config RQ.cfg MCRequests
tlc -workers 2 -config RM_abandon.cfg MCRoomManager
tlapm RoomManagerProofs.tla
tlapm RoomManagerRefinement.tla
tlapm ChannelManagerProofs.tla
tlapm BackendProofs.tla
tlapm SessionIoProofs.tla
tlapm RateLimiterProofs.tla
tlapm RoomListProofs.tla
tlapm DataLemmas.tla
```
