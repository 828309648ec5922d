--------------------------- MODULE ChannelManager ---------------------------
(***************************************************************************)
(* The chat server: ChannelManager together with the sessions that drive   *)
(* it (ChatSession on the public port, InternalSession for the notices of  *)
(* the room server) and the history lists it keeps in Redis.               *)
(*                                                                         *)
(* Like the room server it runs every handler on one thread.  A client and *)
(* the room server talk to it over different connections, so a ChatAuth    *)
(* for a new game and the SessionCreated of that game arrive in any order. *)
(* Requests that are answered with an error and change nothing, messages   *)
(* that validateMessage or the rate limiter refuse among them, are         *)
(* stuttering steps.  Keys that are written to Redis and never read        *)
(* (chat:session, chat:player, chat:name) and expected_players, which is   *)
(* never consulted either, are left out.                                   *)
(*                                                                         *)
(* A message is the number of its turn in its channel: what the properties *)
(* tell apart is which message comes first.                                *)
(***************************************************************************)
EXTENDS Integers, Sequences, FiniteSets

CONSTANTS PlayerIds,    \* non-empty player ids
          NoPlayer,     \* the empty player id
          SessionIds,   \* ids of game sessions
          Lobby,        \* the empty session id, and the channel of the lobby
          Clients,      \* chat session objects
          Expired,      \* a weak pointer whose session was destroyed
          NoClient,     \* the session of a player without an entry
          IdsOf,        \* the player ids the peer behind a session sends
          HistorySize,  \* history_size_
          MaxMessages,  \* bound: messages sent in one channel
          LateReads,    \* may a read completion outlive close()?
          RedisLossy    \* may calls to Redis fail and keys expire?

ASSUME ChannelManagerAssumption ==
    /\ NoPlayer \notin PlayerIds
    /\ Lobby \notin SessionIds
    /\ Expired \notin Clients /\ NoClient \notin Clients
    /\ Expired # NoClient
    /\ IdsOf \in [Clients -> SUBSET PlayerIds]
    /\ HistorySize \in Nat /\ MaxMessages \in Nat
    /\ LateReads \in BOOLEAN /\ RedisLossy \in BOOLEAN

VARIABLES
    players,           \* players_
    lobby_members,     \* lobby_members_
    session_channels,  \* keys of session_channels_
    members,           \* session_channels_[s].members
    conn,              \* life cycle of every chat session
    pid,               \* player_id_ of every chat session
    authenticated,     \* sessions with authenticated_ set
    created,           \* sessions the room server has announced
    history,           \* Redis lists chat:history:<s>:ALL, newest first
    newest,            \* number of the last message of every channel
    seen,              \* observer: last message a session got in its channel
    whisper_lost       \* observer: a whisper was accepted and went nowhere

chanVars == <<players, lobby_members, session_channels, members>>
observers == <<newest, seen, whisper_lost>>
vars == <<chanVars, conn, pid, authenticated, created, history, observers>>

Channel == SessionIds \cup {Lobby}
PlayerState == [session : Clients \cup {Expired, NoClient},
                session_id : Channel,
                in_lobby : BOOLEAN]
NoState == [session |-> NoClient, session_id |-> Lobby, in_lobby |-> FALSE]

TypeOK ==
    /\ players \in [PlayerIds -> PlayerState]
    /\ lobby_members \subseteq PlayerIds
    /\ session_channels \subseteq created
    /\ members \in [SessionIds -> SUBSET PlayerIds]
    /\ conn \in [Clients -> {"idle", "open", "closing", "closed"}]
    /\ pid \in [Clients -> PlayerIds \cup {NoPlayer}]
    /\ authenticated \subseteq Clients
    /\ created \subseteq SessionIds
    /\ history \in [SessionIds -> Seq(Nat)]
    /\ ~RedisLossy /\ HistorySize > 0 =>
          \A s \in SessionIds : Len(history[s]) <= HistorySize
    /\ newest \in [Channel -> Nat]
    /\ seen \in [Clients -> Nat]
    /\ whisper_lost \in BOOLEAN

Init ==
    /\ players = [p \in PlayerIds |-> NoState]
    /\ lobby_members = {}
    /\ session_channels = {}
    /\ members = [s \in SessionIds |-> {}]
    /\ conn = [c \in Clients |-> "idle"]
    /\ pid = [c \in Clients |-> NoPlayer]
    /\ authenticated = {}
    /\ created = {}
    /\ history = [s \in SessionIds |-> <<>>]
    /\ newest = [k \in Channel |-> 0]
    /\ seen = [c \in Clients |-> 0]
    /\ whisper_lost = FALSE

-----------------------------------------------------------------------------
(* Helpers.                                                                *)

Present(p) == players[p].session # NoClient

\* The read handler checks closed_ only after it has processed a message.
Reads(c) == conn[c] \in {"open", "closing"}
Handled(c) == conn' = [conn EXCEPT ![c] = IF @ = "closing" THEN "closed" ELSE @]

\* The sessions send() reaches among the entries of ps: locked and not closed.
Reached(ps) == {c \in Clients : conn[c] = "open" /\
                                \E p \in ps : players[p].session = c}

\* session_channels_[s].members after erasing p from the channel of its entry.
MembersWithout(p) ==
    [s \in SessionIds |-> IF s = players[p].session_id THEN members[s] \ {p}
                                                       ELSE members[s]]

\* LTRIM and LRANGE 0 .. history_size_ - 1: with size 0 the range is 0 .. -1,
\* which is the whole list.
Recent(h) == IF HistorySize = 0 \/ Len(h) <= HistorySize
              THEN h ELSE SubSeq(h, 1, HistorySize)

\* Mutant: messages are appended to the list instead of pushed to its head.
SavedAppend(h, m) == {Recent(Append(h, m))}
                     \cup IF RedisLossy THEN {h, Append(h, m)} ELSE {}

\* Mutant: the list is never trimmed.
SavedUntrimmed(h, m) == {<<m>> \o h}

\* saveToHistory: what the list may be after message m.  LPUSH may fail, and
\* so may the LTRIM after it.
Saved(h, m) == {Recent(<<m>> \o h)}
               \cup IF RedisLossy THEN {h, <<m>> \o h} ELSE {}

\* sendHistory sends the range in reverse: the last message replayed is the
\* head of the list.  0 stands for no message (LRANGE may fail).
Replayed(s) == {IF history[s] = <<>> THEN 0 ELSE history[s][1]}
               \cup IF RedisLossy THEN {0} ELSE {}

-----------------------------------------------------------------------------
(* Requests of clients (ChatSession::processMessage).                      *)

\* handleAuth: the other live session found under p, which is told that it
\* was replaced and loses its id.  It is not closed.
Kicked(c, p) == ({players[p].session} \cap Clients) \ {c}

\* A successful authentication; k is the channel joined, n the last message
\* of k the session is shown.
Joins(c, p, k, n) ==
    /\ players' = [players EXCEPT ![p] = [session |-> c, session_id |-> k,
                                          in_lobby |-> k = Lobby]]
    /\ pid' = [d \in Clients |-> IF d = c THEN p
                                 ELSE IF d \in Kicked(c, p) THEN NoPlayer
                                 ELSE pid[d]]
    /\ authenticated' = (authenticated \ Kicked(c, p)) \cup {c}
    /\ seen' = [seen EXCEPT ![c] = n]
    /\ Handled(c)
    /\ UNCHANGED <<session_channels, created, history, newest, whisper_lost>>

\* Mutant: a player that moves to the lobby stays in its session's channel.
AuthLobbyInPlace(c, p) ==
    /\ Reads(c)
    /\ lobby_members' = lobby_members \cup {p}
    /\ Joins(c, p, Lobby, newest[Lobby])
    /\ UNCHANGED members

AuthLobby(c, p) ==
    /\ Reads(c)
    /\ lobby_members' = lobby_members \cup {p}
    /\ members' = MembersWithout(p)
    /\ Joins(c, p, Lobby, newest[Lobby])

\* Mutant: a player that joins a game is not taken off the lobby.
AuthSessionFromLobby(c, p, s) ==
    /\ Reads(c)
    /\ s \in session_channels
    /\ members' = [MembersWithout(p) EXCEPT ![s] = @ \cup {p}]
    /\ \E n \in Replayed(s) : Joins(c, p, s, n)
    /\ UNCHANGED lobby_members

AuthSession(c, p, s) ==
    /\ Reads(c)
    /\ s \in session_channels
    /\ lobby_members' = lobby_members \ {p}
    /\ members' = [MembersWithout(p) EXCEPT ![s] = @ \cup {p}]
    /\ \E n \in Replayed(s) : Joins(c, p, s, n)

\* "Session not found": the entry of p is gone and its session kicked, but
\* the session that asked keeps the id and the flag it had.
AuthRefused(c, p, s) ==
    /\ Reads(c)
    /\ s \notin session_channels
    /\ players' = [players EXCEPT ![p] = NoState]
    /\ lobby_members' = lobby_members \ {p}
    /\ members' = MembersWithout(p)
    /\ pid' = [d \in Clients |-> IF d \in Kicked(c, p) THEN NoPlayer
                                                       ELSE pid[d]]
    /\ authenticated' = authenticated \ Kicked(c, p)
    /\ Handled(c)
    /\ UNCHANGED <<session_channels, created, history, observers>>

\* handleChatSend finds the entry of the session's id, whoever's session it
\* names.  A closed session has lost its id.
MaySend(c) ==
    /\ Reads(c)
    /\ c \in authenticated
    /\ pid[c] # NoPlayer
    /\ Present(pid[c])

\* A message to the channel k, given to the sessions of ps.
Broadcast(k, ps) ==
    /\ newest[k] < MaxMessages
    /\ newest' = [newest EXCEPT ![k] = @ + 1]
    /\ seen' = [c \in Clients |-> IF c \in Reached(ps) THEN newest[k] + 1
                                                       ELSE seen[c]]

SendLobby(c) ==
    /\ MaySend(c)
    /\ players[pid[c]].in_lobby
    /\ Broadcast(Lobby, lobby_members)
    /\ UNCHANGED <<chanVars, conn, pid, authenticated, created, history,
                   whisper_lost>>

SendAll(c) ==
    LET s == players[pid[c]].session_id
    IN /\ MaySend(c)
       /\ s # Lobby
       /\ Broadcast(s, IF s \in session_channels THEN members[s] ELSE {})
       /\ \E h \in Saved(history[s], newest[s] + 1) :
             history' = [history EXCEPT ![s] = h]
       /\ UNCHANGED <<chanVars, conn, pid, authenticated, created,
                      whisper_lost>>

\* A whisper is accepted when the target has an entry, and echoed.
SendWhisper(c, target) ==
    /\ MaySend(c)
    /\ Present(target)
    /\ whisper_lost' = (whisper_lost \/ Reached({target}) = {})
    /\ UNCHANGED <<chanVars, conn, pid, authenticated, created, history,
                   newest, seen>>

-----------------------------------------------------------------------------
(* Life cycle of chat sessions.                                            *)

\* doAccept and start().
Connect(c) ==
    /\ conn[c] = "idle"
    /\ conn' = [conn EXCEPT ![c] = "open"]
    /\ UNCHANGED <<chanVars, pid, authenticated, created, history, observers>>

\* Mutant: a disconnect leaves the entry of the player behind.
DisconnectedLeavingEntry(p) == players

\* handleDisconnect: players_ without p.
Disconnected(p) == [players EXCEPT ![p] = NoState]

\* close(), for whatever reason.  handleDisconnect erases the entry of the
\* session's id without asking whose session it names.  authenticated_ stays.
Close(c, after) ==
    LET p == pid[c]
    IN /\ conn[c] = "open"
       /\ after \in {"closed"} \cup (IF LateReads THEN {"closing"} ELSE {})
       /\ conn' = [conn EXCEPT ![c] = after]
       /\ pid' = [pid EXCEPT ![c] = NoPlayer]
       /\ IF p = NoPlayer
          THEN UNCHANGED <<players, lobby_members, members>>
          ELSE /\ players' = Disconnected(p)
               /\ lobby_members' = lobby_members \ {p}
               /\ members' = MembersWithout(p)
       /\ UNCHANGED <<session_channels, authenticated, created, history,
                      observers>>

\* The last handler that holds the session has run: weak pointers expire.
Destroy(c) ==
    /\ conn[c] \in {"closing", "closed"}
    /\ conn' = [conn EXCEPT ![c] = "idle"]
    /\ pid' = [pid EXCEPT ![c] = NoPlayer]
    /\ authenticated' = authenticated \ {c}
    /\ players' = [p \in PlayerIds |->
                   IF players[p].session = c
                   THEN [players[p] EXCEPT !.session = Expired]
                   ELSE players[p]]
    /\ seen' = [seen EXCEPT ![c] = 0]
    /\ UNCHANGED <<lobby_members, session_channels, members, created, history,
                   newest, whisper_lost>>

-----------------------------------------------------------------------------
(* Notices of the room server (InternalSession::processMessage) and the    *)
(* clock of Redis.                                                         *)

\* The room server draws a new session id for every game.
SessionCreated(s) ==
    /\ s \notin created
    /\ created' = created \cup {s}
    /\ session_channels' = session_channels \cup {s}
    /\ members' = [members EXCEPT ![s] = {}]
    /\ UNCHANGED <<players, lobby_members, conn, pid, authenticated, history,
                   observers>>

\* Mutant: the members are sent to the lobby, and their entries are not.
MovedToLobbyNowhere(s) == players

\* The entries once the members of s are back in the lobby.
MovedToLobby(s) ==
    [p \in PlayerIds |-> IF p \in members[s] /\ Present(p)
                         THEN [session |-> players[p].session,
                               session_id |-> Lobby, in_lobby |-> TRUE]
                         ELSE players[p]]

\* Clients are not told: the next lobby message is the first they see there.
SessionEnded(s) ==
    /\ s \in session_channels
    /\ players' = MovedToLobby(s)
    /\ lobby_members' = lobby_members \cup {p \in members[s] : Present(p)}
    /\ session_channels' = session_channels \ {s}
    /\ members' = [members EXCEPT ![s] = {}]
    /\ \E h \in {<<>>} \cup (IF RedisLossy THEN {history[s]} ELSE {}) :
          history' = [history EXCEPT ![s] = h]
    /\ seen' = [c \in Clients |-> IF c \in Reached(members[s])
                                  THEN newest[Lobby] ELSE seen[c]]
    /\ UNCHANGED <<conn, pid, authenticated, created, newest, whisper_lost>>

\* session_ttl_ after the last message of s.
HistoryExpire(s) ==
    /\ RedisLossy
    /\ history[s] # <<>>
    /\ history' = [history EXCEPT ![s] = <<>>]
    /\ UNCHANGED <<chanVars, conn, pid, authenticated, created, observers>>

-----------------------------------------------------------------------------

ClientNext(c) ==
    \/ \E p \in IdsOf[c] : AuthLobby(c, p)
    \/ \E p \in IdsOf[c], s \in SessionIds :
          AuthSession(c, p, s) \/ AuthRefused(c, p, s)
    \/ SendLobby(c)
    \/ SendAll(c)
    \/ \E target \in PlayerIds : SendWhisper(c, target)
    \/ Connect(c)
    \/ \E after \in {"closing", "closed"} : Close(c, after)
    \/ Destroy(c)

RoomServerNext(s) ==
    \/ SessionCreated(s)
    \/ SessionEnded(s)
    \/ HistoryExpire(s)

Next ==
    \/ \E c \in Clients : ClientNext(c)
    \/ \E s \in SessionIds : RoomServerNext(s)

Spec == Init /\ [][Next]_vars

-----------------------------------------------------------------------------
(* Properties.                                                             *)

\* lobby_members_ and the in_lobby flags of players_ are set and cleared by
\* different handlers; they agree, and a player is in the lobby exactly when
\* its entry names no session.
LobbyAgreement ==
    \A p \in PlayerIds :
        /\ p \in lobby_members <=> players[p].in_lobby
        /\ players[p].in_lobby <=> Present(p) /\ players[p].session_id = Lobby

\* The member set of a session's channel and the session ids of players_
\* agree, and an entry names only a session whose channel exists: nobody gets
\* the messages of a game after moving on, and whoever may send to a session
\* is sent its own message.
ChannelAgreement ==
    \A p \in PlayerIds, s \in SessionIds :
        /\ p \in members[s] <=> players[p].session_id = s
        /\ p \in members[s] => Present(p) /\ s \in session_channels

\* A history list is strictly newest first and holds no message that was not
\* sent, whatever calls to Redis fail: reversed, it replays in order and
\* without repetition.
HistoryNewestFirst ==
    \A s \in SessionIds : \A i \in 1..Len(history[s]) :
        /\ history[s][i] <= newest[s]
        /\ \A j \in 1..(i - 1) : history[s][j] > history[s][i]

\* An entry names an open session that is authenticated under the id of the
\* entry: a kick, a refused authentication, a close and a replacement never
\* leave an entry to somebody else's session or to a dead one.
EntryOwned ==
    \A p \in PlayerIds : Present(p) =>
        LET c == players[p].session
        IN c \in Clients /\ conn[c] = "open" /\ pid[c] = p
           /\ c \in authenticated

\* A player in a channel has been shown the newest message of that channel,
\* by broadcast or, if it joined later, by the replay of the history.
CaughtUp ==
    \A p \in PlayerIds : \A c \in Reached({p}) :
        seen[c] = newest[players[p].session_id]

\* A whisper the server accepts and echoes reaches its target.
WhispersArrive == ~whisper_lost

\* When a game is over, nothing of its history is left or can come back.
NoHistoryLeft == \A s \in SessionIds : history[s] # <<>> => s \in session_channels

=============================================================================
