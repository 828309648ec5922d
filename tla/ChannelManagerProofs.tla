------------------------ MODULE ChannelManagerProofs ------------------------
(***************************************************************************)
(* Proofs about ChannelManager, for every value of its constants.          *)
(***************************************************************************)
EXTENDS ChannelManager, SequenceTheorems, TLAPS

(* Helpers.                                                                *)

\* LTRIM yields a list of messages no longer than history_size_.
LEMMA RecentType ==
  ASSUME NEW h \in Seq(Nat)
  PROVE  /\ Recent(h) \in Seq(Nat)
         /\ HistorySize > 0 => Len(Recent(h)) <= HistorySize
  <1>1. CASE HistorySize = 0 \/ Len(h) <= HistorySize
    BY <1>1, ChannelManagerAssumption DEF Recent
  <1>2. CASE ~(HistorySize = 0 \/ Len(h) <= HistorySize)
    <2>1. HistorySize \in 1..Len(h)
      BY <1>2, ChannelManagerAssumption
    <2>2. /\ SubSeq(h, 1, HistorySize) \in Seq(Nat)
          /\ Len(SubSeq(h, 1, HistorySize)) = HistorySize
      BY <2>1, ChannelManagerAssumption
    <2> QED BY <1>2, <2>2, ChannelManagerAssumption DEF Recent
  <1> QED BY <1>1, <1>2

\* LPUSH and LTRIM, done or failed, leave a list of messages.
LEMMA SavedType ==
  ASSUME NEW h \in Seq(Nat), NEW m \in Nat, NEW g \in Saved(h, m)
  PROVE  /\ g \in Seq(Nat)
         /\ ~RedisLossy /\ HistorySize > 0 => Len(g) <= HistorySize
  <1>1. <<m>> \o h \in Seq(Nat)
    OBVIOUS
  <1> QED BY <1>1, RecentType DEF Saved

\* Taking a player out of every channel leaves sets of players.
LEMMA MembersWithoutType ==
  ASSUME TypeOK, NEW p \in PlayerIds
  PROVE  MembersWithout(p) \in [SessionIds -> SUBSET PlayerIds]
  BY DEF MembersWithout, TypeOK

\* The last message a replay shows is a message number.
LEMMA ReplayedType ==
  ASSUME TypeOK, NEW s \in SessionIds, NEW n \in Replayed(s)
  PROVE  n \in Nat
  <1>1. history[s] \in Seq(Nat)
    BY DEF TypeOK
  <1>2. history[s] # <<>> => history[s][1] \in Nat
    BY <1>1
  <1> QED BY <1>2 DEF Replayed

\* The absent entry has the type of an entry.
LEMMA NoStateType == NoState \in PlayerState
  BY ChannelManagerAssumption DEF NoState, PlayerState, Channel

\* An accepted ChatAuth, to the lobby or to a session, keeps the types.
LEMMA JoinsType ==
  ASSUME TypeOK, NEW c \in Clients, NEW p \in PlayerIds, NEW k \in Channel,
         NEW n \in Nat, Joins(c, p, k, n)
  PROVE  /\ players' \in [PlayerIds -> PlayerState]
         /\ conn' \in [Clients -> {"idle", "open", "closing", "closed"}]
         /\ pid' \in [Clients -> PlayerIds \cup {NoPlayer}]
         /\ authenticated' \subseteq Clients
         /\ seen' \in [Clients -> Nat]
         /\ UNCHANGED <<session_channels, created, history, newest, whisper_lost>>
  BY DEF Joins, Handled, TypeOK, PlayerState

-----------------------------------------------------------------------------
(* Type correctness.                                                       *)

\* Every step of the chat server keeps the types.
LEMMA TypeStep == TypeOK /\ [Next]_vars => TypeOK'
  <1> SUFFICES ASSUME TypeOK, [Next]_vars PROVE TypeOK'
    OBVIOUS
  <1> USE ChannelManagerAssumption
  <1>1. ASSUME NEW c \in Clients, NEW p \in IdsOf[c], AuthLobby(c, p)
        PROVE  TypeOK'
    <2>1. p \in PlayerIds /\ Lobby \in Channel /\ newest[Lobby] \in Nat
      BY DEF Channel, TypeOK
    <2>2. members' \in [SessionIds -> SUBSET PlayerIds]
      BY <1>1, <2>1, MembersWithoutType DEF AuthLobby
    <2> QED BY <1>1, <2>1, <2>2, JoinsType DEF AuthLobby, TypeOK
  <1>2. ASSUME NEW c \in Clients, NEW p \in IdsOf[c], NEW s \in SessionIds,
               AuthSession(c, p, s)
        PROVE  TypeOK'
    <2>1. p \in PlayerIds /\ s \in Channel
      BY DEF Channel
    <2>2. members' \in [SessionIds -> SUBSET PlayerIds]
      BY <1>2, <2>1, MembersWithoutType DEF AuthSession
    <2>3. PICK n \in Replayed(s) : Joins(c, p, s, n)
      BY <1>2 DEF AuthSession
    <2>4. n \in Nat
      BY <2>3, ReplayedType
    <2> QED BY <1>2, <2>1, <2>2, <2>3, <2>4, JoinsType DEF AuthSession, TypeOK
  <1>3. ASSUME NEW c \in Clients, NEW p \in IdsOf[c], NEW s \in SessionIds,
               AuthRefused(c, p, s)
        PROVE  TypeOK'
    <2>1. p \in PlayerIds
      OBVIOUS
    <2>2. members' \in [SessionIds -> SUBSET PlayerIds]
      BY <1>3, <2>1, MembersWithoutType DEF AuthRefused
    <2> QED
      BY <1>3, <2>1, <2>2, NoStateType
         DEF AuthRefused, Handled, observers, TypeOK
  <1>4. ASSUME NEW c \in Clients, SendLobby(c)
        PROVE  TypeOK'
    BY <1>4 DEF SendLobby, Broadcast, chanVars, TypeOK, Channel
  <1>5. ASSUME NEW c \in Clients, SendAll(c)
        PROVE  TypeOK'
    <2> DEFINE s == players[pid[c]].session_id
    <2>1. s \in SessionIds
      BY <1>5 DEF SendAll, MaySend, TypeOK, PlayerState, Channel
    <2>2. newest[s] \in Nat /\ history[s] \in Seq(Nat)
      BY <2>1 DEF TypeOK, Channel
    <2>3. PICK h \in Saved(history[s], newest[s] + 1) :
             history' = [history EXCEPT ![s] = h]
      BY <1>5 DEF SendAll
    <2>4. h \in Seq(Nat) /\ (~RedisLossy /\ HistorySize > 0 => Len(h) <= HistorySize)
      BY <2>2, <2>3, SavedType
    <2>5. /\ history' \in [SessionIds -> Seq(Nat)]
          /\ ~RedisLossy /\ HistorySize > 0 =>
                \A t \in SessionIds : Len(history'[t]) <= HistorySize
      <3> HIDE DEF s
      <3> QED BY <2>1, <2>3, <2>4 DEF TypeOK
    <2>6. newest' \in [Channel -> Nat] /\ seen' \in [Clients -> Nat]
      <3>1. PICK ps : Broadcast(s, ps)
        BY <1>5 DEF SendAll
      <3>2. newest[s] + 1 \in Nat /\ newest \in [Channel -> Nat]
            /\ seen \in [Clients -> Nat]
        BY <2>2 DEF TypeOK
      <3>3. /\ newest' = [newest EXCEPT ![s] = newest[s] + 1]
            /\ seen' = [d \in Clients |-> IF d \in Reached(ps) THEN newest[s] + 1
                                                             ELSE seen[d]]
        BY <3>1 DEF Broadcast
      <3> HIDE DEF s
      <3> QED BY <3>2, <3>3
    <2> QED BY <1>5, <2>5, <2>6 DEF SendAll, chanVars, TypeOK
  <1>6. ASSUME NEW c \in Clients, NEW target \in PlayerIds, SendWhisper(c, target)
        PROVE  TypeOK'
    BY <1>6 DEF SendWhisper, chanVars, TypeOK
  <1>7. ASSUME NEW c \in Clients, Connect(c)
        PROVE  TypeOK'
    BY <1>7 DEF Connect, chanVars, observers, TypeOK
  <1>8. ASSUME NEW c \in Clients, NEW after \in {"closing", "closed"}, Close(c, after)
        PROVE  TypeOK'
    <2>1. CASE pid[c] = NoPlayer
      BY <1>8, <2>1 DEF Close, observers, TypeOK
    <2>2. CASE pid[c] # NoPlayer
      <3>1. pid[c] \in PlayerIds
        BY <2>2 DEF TypeOK
      <3>2. members' \in [SessionIds -> SUBSET PlayerIds]
        BY <1>8, <2>2, <3>1, MembersWithoutType DEF Close
      <3>3. players' \in [PlayerIds -> PlayerState]
        BY <1>8, <2>2, <3>1, NoStateType DEF Close, Disconnected, TypeOK
      <3> QED
        BY <1>8, <2>2, <3>1, <3>2, <3>3 DEF Close, observers, TypeOK
    <2> QED BY <2>1, <2>2
  <1>9. ASSUME NEW c \in Clients, Destroy(c)
        PROVE  TypeOK'
    <2>1. players' \in [PlayerIds -> PlayerState]
      <3>1. \A p \in PlayerIds : [players[p] EXCEPT !.session = Expired] \in PlayerState
        BY DEF TypeOK, PlayerState
      <3> QED BY <1>9, <3>1 DEF Destroy, TypeOK
    <2> QED BY <1>9, <2>1 DEF Destroy, TypeOK
  <1>10. ASSUME NEW s \in SessionIds, SessionCreated(s)
         PROVE  TypeOK'
    BY <1>10 DEF SessionCreated, observers, TypeOK
  <1>11. ASSUME NEW s \in SessionIds, SessionEnded(s)
         PROVE  TypeOK'
    <2>1. players' \in [PlayerIds -> PlayerState]
      BY <1>11 DEF SessionEnded, MovedToLobby, TypeOK, PlayerState, Channel
    <2>2. seen' \in [Clients -> Nat]
      BY <1>11 DEF SessionEnded, TypeOK, Channel
    <2>3. PICK h \in {<<>>, history[s]} : history' = [history EXCEPT ![s] = h]
      BY <1>11 DEF SessionEnded
    <2>4. /\ h \in Seq(Nat)
          /\ ~RedisLossy /\ HistorySize > 0 => Len(h) <= HistorySize
      <3>1. CASE h = <<>>
        BY <3>1
      <3>2. CASE h = history[s]
        BY <3>2 DEF TypeOK
      <3> QED BY <2>3, <3>1, <3>2
    <2>5. /\ history' \in [SessionIds -> Seq(Nat)]
          /\ ~RedisLossy /\ HistorySize > 0 =>
                \A t \in SessionIds : Len(history'[t]) <= HistorySize
      BY <2>3, <2>4 DEF TypeOK
    <2> QED BY <1>11, <2>1, <2>2, <2>5 DEF SessionEnded, TypeOK
  <1>12. ASSUME NEW s \in SessionIds, HistoryExpire(s)
         PROVE  TypeOK'
    <2>1. history' \in [SessionIds -> Seq(Nat)] /\ RedisLossy
      BY <1>12 DEF HistoryExpire, TypeOK
    <2> QED BY <1>12, <2>1 DEF HistoryExpire, chanVars, observers, TypeOK
  <1>13. CASE UNCHANGED vars
    BY <1>13 DEF vars, chanVars, observers, TypeOK
  <1> QED
    BY <1>1, <1>2, <1>3, <1>4, <1>5, <1>6, <1>7, <1>8, <1>9, <1>10, <1>11,
       <1>12, <1>13
       DEF Next, ClientNext, RoomServerNext

\* Every variable of the chat server keeps its type, and a history list that
\* Redis never failed to trim stays within history_size_.
THEOREM TypeCorrect == Spec => []TypeOK
  <1>1. ASSUME Init PROVE TypeOK
    <2>1. <<>> \in Seq(Nat) /\ Len(<<>>) = 0
      OBVIOUS
    <2>2. /\ history \in [SessionIds -> Seq(Nat)]
          /\ \A s \in SessionIds : history[s] = <<>>
      BY <1>1, <2>1 DEF Init
    <2>3. HistorySize > 0 => \A s \in SessionIds : Len(history[s]) <= HistorySize
      BY <2>1, <2>2, ChannelManagerAssumption
    <2> QED BY <1>1, <2>2, <2>3, NoStateType DEF Init, TypeOK
  <1> QED BY <1>1, TypeStep, PTL DEF Spec

-----------------------------------------------------------------------------
(* The three tables.                                                       *)

Tables == LobbyAgreement /\ ChannelAgreement

\* The entry, the lobby and the channels after a player has been taken out.
LEMMA WithoutMembers ==
  ASSUME TypeOK, Tables, NEW p \in PlayerIds
  PROVE  \A q \in PlayerIds, s \in SessionIds :
            q \in MembersWithout(p)[s] <=> q # p /\ q \in members[s]
  BY DEF MembersWithout, Tables, ChannelAgreement, TypeOK

\* Every step keeps the tables in agreement.
LEMMA TablesStep == TypeOK /\ Tables /\ [Next]_vars => Tables'
  <1> SUFFICES ASSUME TypeOK, Tables, [Next]_vars PROVE Tables'
    OBVIOUS
  <1> USE ChannelManagerAssumption
  <1>1. ASSUME NEW c \in Clients, NEW p \in IdsOf[c], AuthLobby(c, p)
        PROVE  Tables'
    <2>1. p \in PlayerIds
      OBVIOUS
    <2>2. /\ players' = [players EXCEPT ![p] = [session |-> c, session_id |-> Lobby,
                                                in_lobby |-> TRUE]]
          /\ lobby_members' = lobby_members \cup {p}
          /\ members' = MembersWithout(p)
          /\ session_channels' = session_channels
      BY <1>1 DEF AuthLobby, Joins
    <2> QED
      BY <2>1, <2>2, WithoutMembers
         DEF Tables, LobbyAgreement, ChannelAgreement, Present, TypeOK
  <1>2. ASSUME NEW c \in Clients, NEW p \in IdsOf[c], NEW s \in SessionIds,
               AuthSession(c, p, s)
        PROVE  Tables'
    <2>1. p \in PlayerIds /\ s # Lobby
      OBVIOUS
    <2>2. /\ players' = [players EXCEPT ![p] = [session |-> c, session_id |-> s,
                                                in_lobby |-> FALSE]]
          /\ lobby_members' = lobby_members \ {p}
          /\ members' = [MembersWithout(p) EXCEPT ![s] = @ \cup {p}]
          /\ session_channels' = session_channels
          /\ s \in session_channels
      BY <1>2, <2>1 DEF AuthSession, Joins
    <2>3. \A q \in PlayerIds, t \in SessionIds :
             q \in members'[t] <=> IF q = p THEN t = s ELSE q \in members[t]
      BY <2>1, <2>2, WithoutMembers, MembersWithoutType
    <2> QED
      BY <2>1, <2>2, <2>3
         DEF Tables, LobbyAgreement, ChannelAgreement, Present, TypeOK
  <1>3. ASSUME NEW c \in Clients, NEW p \in IdsOf[c], NEW s \in SessionIds,
               AuthRefused(c, p, s)
        PROVE  Tables'
    <2>1. p \in PlayerIds
      OBVIOUS
    <2> QED
      BY <1>3, <2>1, WithoutMembers
         DEF AuthRefused, NoState, Tables, LobbyAgreement, ChannelAgreement,
             Present, TypeOK
  <1>4. CASE \E c \in Clients : SendLobby(c) \/ SendAll(c)
    BY <1>4 DEF SendLobby, SendAll, chanVars, Tables, LobbyAgreement,
                ChannelAgreement, Present
  <1>5. CASE \E c \in Clients, target \in PlayerIds : SendWhisper(c, target)
    BY <1>5 DEF SendWhisper, chanVars, Tables, LobbyAgreement,
                ChannelAgreement, Present
  <1>6. CASE \E c \in Clients : Connect(c)
    BY <1>6 DEF Connect, chanVars, Tables, LobbyAgreement, ChannelAgreement,
                Present
  <1>7. ASSUME NEW c \in Clients, NEW after \in {"closing", "closed"}, Close(c, after)
        PROVE  Tables'
    <2>1. CASE pid[c] = NoPlayer
      BY <1>7, <2>1 DEF Close, Tables, LobbyAgreement, ChannelAgreement, Present
    <2>2. CASE pid[c] # NoPlayer
      <3>1. pid[c] \in PlayerIds
        BY <2>2 DEF TypeOK
      <3>2. /\ players' = [players EXCEPT ![pid[c]] = NoState]
            /\ lobby_members' = lobby_members \ {pid[c]}
            /\ members' = MembersWithout(pid[c])
            /\ session_channels' = session_channels
        BY <1>7, <2>2 DEF Close, Disconnected
      <3> QED
        BY <3>1, <3>2, WithoutMembers
           DEF NoState, Tables, LobbyAgreement, ChannelAgreement, Present, TypeOK
    <2> QED BY <2>1, <2>2
  <1>8. ASSUME NEW c \in Clients, Destroy(c)
        PROVE  Tables'
    <2>1. \A p \in PlayerIds :
             /\ players'[p].session_id = players[p].session_id
             /\ players'[p].in_lobby = players[p].in_lobby
             /\ players'[p].session # NoClient <=> players[p].session # NoClient
      BY <1>8 DEF Destroy, TypeOK, PlayerState
    <2> QED
      BY <1>8, <2>1 DEF Destroy, Tables, LobbyAgreement, ChannelAgreement, Present
  <1>9. ASSUME NEW s \in SessionIds, SessionCreated(s)
        PROVE  Tables'
    <2>1. s \notin session_channels
      BY <1>9 DEF SessionCreated, TypeOK
    <2>2. \A p \in PlayerIds : players[p].session_id # s
      BY <2>1 DEF Tables, ChannelAgreement
    <2> QED
      BY <1>9, <2>1, <2>2
         DEF SessionCreated, Tables, LobbyAgreement, ChannelAgreement, Present,
             TypeOK
  <1>10. ASSUME NEW s \in SessionIds, SessionEnded(s)
         PROVE  Tables'
    <2>1. \A p \in PlayerIds :
             players'[p] = IF p \in members[s]
                           THEN [session |-> players[p].session,
                                 session_id |-> Lobby, in_lobby |-> TRUE]
                           ELSE players[p]
      BY <1>10 DEF SessionEnded, MovedToLobby, Tables, ChannelAgreement
    <2>2. /\ lobby_members' = lobby_members \cup members[s]
          /\ session_channels' = session_channels \ {s}
          /\ members' = [members EXCEPT ![s] = {}]
      BY <1>10 DEF SessionEnded, Tables, ChannelAgreement, TypeOK
    <2>0. /\ members[s] \subseteq PlayerIds
          /\ \A p \in PlayerIds : p \in members[s] =>
                players[p].session # NoClient /\ players[p].session_id = s
      BY DEF Tables, ChannelAgreement, Present, TypeOK
    <2>3. \A p \in PlayerIds : p \in members[s] =>
             /\ players'[p].session_id = Lobby
             /\ players'[p].in_lobby
             /\ players'[p].session # NoClient
      <3> SUFFICES ASSUME NEW p \in PlayerIds, p \in members[s]
                   PROVE  /\ players'[p].session_id = Lobby
                          /\ players'[p].in_lobby
                          /\ players'[p].session # NoClient
        OBVIOUS
      <3>1. players'[p] = [session |-> players[p].session,
                           session_id |-> Lobby, in_lobby |-> TRUE]
        BY <2>1
      <3> QED BY <2>0, <3>1
    <2>4. \A p \in PlayerIds : p \notin members[s] => players'[p] = players[p]
      BY <2>1
    <2>5. LobbyAgreement'
      BY <2>0, <2>2, <2>3, <2>4 DEF Tables, LobbyAgreement, Present
    <2>6. ChannelAgreement'
      <3>1. \A p \in PlayerIds, t \in SessionIds :
               p \in members'[t] <=> p \in members[t] /\ t # s
        BY <2>2 DEF TypeOK
      <3>2. \A p \in PlayerIds, t \in SessionIds :
               p \in members[s] /\ p \in members[t] => t = s
        BY <2>0 DEF Tables, ChannelAgreement
      <3> QED
        BY <2>2, <2>3, <2>4, <3>1, <3>2 DEF Tables, ChannelAgreement, Present
    <2> QED BY <2>5, <2>6 DEF Tables
  <1>11. CASE \E s \in SessionIds : HistoryExpire(s)
    BY <1>11 DEF HistoryExpire, chanVars, Tables, LobbyAgreement,
                 ChannelAgreement, Present
  <1>12. CASE UNCHANGED vars
    BY <1>12 DEF vars, chanVars, Tables, LobbyAgreement, ChannelAgreement, Present
  <1> QED
    BY <1>1, <1>2, <1>3, <1>4, <1>5, <1>6, <1>7, <1>8, <1>9, <1>10, <1>11,
       <1>12
       DEF Next, ClientNext, RoomServerNext

\* The tables agree in every reachable state.
LEMMA TablesAlways == Spec => []Tables
  <1>1. Init => Tables
    BY ChannelManagerAssumption
       DEF Init, NoState, Tables, LobbyAgreement, ChannelAgreement, Present
  <1> QED BY <1>1, TablesStep, TypeCorrect, PTL DEF Spec

\* lobby_members_ and the entries of players_ never disagree on who is in the
\* lobby, whatever clients, the room server and the network do.
THEOREM LobbyTables == Spec => []LobbyAgreement
  <1>1. Tables => LobbyAgreement
    BY DEF Tables
  <1> QED BY <1>1, TablesAlways, PTL

\* The channel of a session has exactly the members whose entries name it,
\* and an entry names only an existing channel.
THEOREM ChannelTables == Spec => []ChannelAgreement
  <1>1. Tables => ChannelAgreement
    BY DEF Tables
  <1> QED BY <1>1, TablesAlways, PTL

-----------------------------------------------------------------------------
(* Histories.                                                              *)

\* While Redis works, no step leaves a history without its channel.
LEMMA HistoryStep ==
  ~RedisLossy /\ TypeOK /\ Tables /\ NoHistoryLeft /\ [Next]_vars => NoHistoryLeft'
  <1> SUFFICES ASSUME ~RedisLossy, TypeOK, Tables, NoHistoryLeft, [Next]_vars
               PROVE  NoHistoryLeft'
    OBVIOUS
  <1>1. ASSUME NEW c \in Clients, SendAll(c)
        PROVE  NoHistoryLeft'
    <2> DEFINE s == players[pid[c]].session_id
    <2>1. pid[c] \in PlayerIds /\ s \in SessionIds
      BY <1>1 DEF SendAll, MaySend, TypeOK, PlayerState, Channel
    <2>2. s \in session_channels
      BY <2>1 DEF Tables, ChannelAgreement
    <2>3. PICK h : history' = [history EXCEPT ![s] = h]
      BY <1>1 DEF SendAll
    <2>4. session_channels' = session_channels
      BY <1>1 DEF SendAll, chanVars
    <2> HIDE DEF s
    <2> QED BY <2>1, <2>2, <2>3, <2>4 DEF NoHistoryLeft, TypeOK
  <1>2. ASSUME NEW s \in SessionIds, SessionEnded(s)
        PROVE  NoHistoryLeft'
    <2>1. history' = [history EXCEPT ![s] = <<>>]
      BY <1>2 DEF SessionEnded
    <2> QED BY <1>2, <2>1 DEF SessionEnded, NoHistoryLeft, TypeOK
  <1>3. ASSUME NEW s \in SessionIds, SessionCreated(s) \/ HistoryExpire(s)
        PROVE  NoHistoryLeft'
    BY <1>3 DEF SessionCreated, HistoryExpire, NoHistoryLeft
  <1>4. ASSUME NEW c \in Clients, NEW p, NEW s,
               AuthLobby(c, p) \/ AuthSession(c, p, s) \/ AuthRefused(c, p, s)
        PROVE  NoHistoryLeft'
    BY <1>4 DEF AuthLobby, AuthSession, AuthRefused, Joins, NoHistoryLeft
  <1>5. ASSUME NEW c \in Clients, NEW x,
               SendLobby(c) \/ SendWhisper(c, x) \/ Connect(c) \/ Close(c, x)
               \/ Destroy(c)
        PROVE  NoHistoryLeft'
    BY <1>5 DEF SendLobby, SendWhisper, Connect, Close, Destroy, chanVars,
                NoHistoryLeft
  <1>6. CASE UNCHANGED vars
    BY <1>6 DEF vars, chanVars, NoHistoryLeft
  <1> QED
    BY <1>1, <1>2, <1>3, <1>4, <1>5, <1>6 DEF Next, ClientNext, RoomServerNext

\* If calls to Redis do not fail, an ended session leaves no history and no
\* later message brings it back.
THEOREM HistoryEnds == ~RedisLossy => (Spec => []NoHistoryLeft)
  <1> SUFFICES ASSUME ~RedisLossy PROVE Spec => []NoHistoryLeft
    OBVIOUS
  <1>1. Init => NoHistoryLeft
    BY DEF Init, NoHistoryLeft
  <1>2. TypeOK /\ Tables /\ NoHistoryLeft /\ [Next]_vars => NoHistoryLeft'
    BY HistoryStep
  <1> QED BY <1>1, <1>2, TablesAlways, TypeCorrect, PTL DEF Spec

-----------------------------------------------------------------------------
(* Entries and the sessions they name.                                     *)

\* What the theorems of this section assume of clients and of the network:
\* a connection authenticates under one id only, and no read outlives close().
OneIdPerSession == \A c \in Clients : \A p, q \in IdsOf[c] : p = q

\* EntryOwned is not inductive: it needs to know that the id a session goes by
\* is the id its peer sends, so that authenticating anew does not orphan an
\* entry, and that a closed session handles nothing.
OwnedInv ==
    /\ EntryOwned
    /\ \A c \in Clients : pid[c] # NoPlayer => pid[c] \in IdsOf[c]
    /\ \A c \in Clients : conn[c] # "closing"

\* Every step keeps entries and connections in a one-to-one relation.
LEMMA OwnedStep ==
  ASSUME OneIdPerSession, ~LateReads, TypeOK, OwnedInv, [Next]_vars
  PROVE  OwnedInv'
  <1> USE ChannelManagerAssumption
  <1>1. ASSUME NEW c \in Clients, NEW p \in IdsOf[c], NEW k, NEW n, Reads(c),
               Joins(c, p, k, n)
        PROVE  OwnedInv'
    <2>1. p \in PlayerIds /\ conn[c] = "open" /\ conn' = conn
      BY <1>1 DEF Reads, Joins, Handled, OwnedInv, TypeOK
    <2>2. /\ players'[p].session = c
          /\ pid'[c] = p /\ c \in authenticated'
      BY <1>1, <2>1 DEF Joins, TypeOK
    <2>3. ASSUME NEW q \in PlayerIds, q # p, players[q].session # NoClient
          PROVE  LET d == players[q].session
                 IN /\ d \in Clients /\ conn[d] = "open" /\ pid'[d] = q
                    /\ d \in authenticated'
      <3> DEFINE d == players[q].session
      <3>1. d \in Clients /\ conn[d] = "open" /\ pid[d] = q /\ d \in authenticated
        BY <2>3 DEF OwnedInv, EntryOwned, Present
      <3>2. d # c
        <4>1. pid[c] = q => q \in IdsOf[c]
          BY <2>3 DEF OwnedInv
        <4> QED BY <2>3, <3>1, <4>1 DEF OneIdPerSession
      <3>3. d \notin Kicked(c, p)
        BY <2>1, <2>3, <3>1 DEF Kicked, OwnedInv, EntryOwned, Present
      <3> QED BY <1>1, <3>1, <3>2, <3>3 DEF Joins
    <2>4. \A q \in PlayerIds : q # p => players'[q] = players[q]
      BY <1>1 DEF Joins, TypeOK
    <2>5. EntryOwned'
      BY <2>1, <2>2, <2>3, <2>4 DEF EntryOwned, Present
    <2> QED BY <1>1, <2>1, <2>5 DEF Joins, OwnedInv
  <1>2. ASSUME NEW c \in Clients, NEW p \in IdsOf[c], AuthLobby(c, p)
        PROVE  OwnedInv'
    BY <1>1, <1>2 DEF AuthLobby
  <1>3. ASSUME NEW c \in Clients, NEW p \in IdsOf[c], NEW s \in SessionIds,
               AuthSession(c, p, s)
        PROVE  OwnedInv'
    BY <1>1, <1>3 DEF AuthSession
  <1>4. ASSUME NEW c \in Clients, NEW p \in IdsOf[c], NEW s \in SessionIds,
               AuthRefused(c, p, s)
        PROVE  OwnedInv'
    <2>1. p \in PlayerIds /\ conn' = conn
      BY <1>4 DEF AuthRefused, Reads, Handled, OwnedInv, TypeOK
    <2>2. ~Present(p)'
      BY <1>4, <2>1 DEF AuthRefused, Present, NoState, TypeOK
    <2>3. ASSUME NEW q \in PlayerIds, q # p, players[q].session # NoClient
          PROVE  LET d == players[q].session
                 IN /\ d \in Clients /\ conn[d] = "open" /\ pid'[d] = q
                    /\ d \in authenticated'
      <3> DEFINE d == players[q].session
      <3>1. d \in Clients /\ conn[d] = "open" /\ pid[d] = q /\ d \in authenticated
        BY <2>3 DEF OwnedInv, EntryOwned, Present
      <3>2. d \notin Kicked(c, p)
        BY <2>1, <2>3, <3>1 DEF Kicked, OwnedInv, EntryOwned, Present
      <3> QED BY <1>4, <3>1, <3>2 DEF AuthRefused
    <2>4. \A q \in PlayerIds : q # p => players'[q] = players[q]
      BY <1>4 DEF AuthRefused, TypeOK
    <2>5. EntryOwned'
      BY <2>1, <2>2, <2>3, <2>4 DEF EntryOwned, Present
    <2> QED BY <1>4, <2>1, <2>5 DEF AuthRefused, OwnedInv
  <1>5. CASE \E c \in Clients : SendLobby(c) \/ SendAll(c)
    BY <1>5 DEF SendLobby, SendAll, chanVars, OwnedInv, EntryOwned, Present
  <1>6. CASE \E c \in Clients, target \in PlayerIds : SendWhisper(c, target)
    BY <1>6 DEF SendWhisper, chanVars, OwnedInv, EntryOwned, Present
  <1>7. ASSUME NEW c \in Clients, Connect(c)
        PROVE  OwnedInv'
    BY <1>7 DEF Connect, chanVars, OwnedInv, EntryOwned, Present, TypeOK
  <1>8. ASSUME NEW c \in Clients, NEW after \in {"closing", "closed"}, Close(c, after)
        PROVE  OwnedInv'
    <2>1. /\ conn' = [conn EXCEPT ![c] = "closed"]
          /\ pid' = [pid EXCEPT ![c] = NoPlayer]
          /\ authenticated' = authenticated
      BY <1>8 DEF Close
    <2>2. ASSUME NEW q \in PlayerIds, Present(q)'
          PROVE  players'[q] = players[q] /\ players[q].session # c
      <3>1. CASE pid[c] = NoPlayer
        BY <1>8, <2>2, <3>1 DEF Close, Present, OwnedInv, EntryOwned
      <3>2. CASE pid[c] # NoPlayer
        <4>1. players' = [players EXCEPT ![pid[c]] = NoState]
          BY <1>8, <3>2 DEF Close, Disconnected
        <4>2. q # pid[c]
          BY <2>2, <4>1 DEF Present, NoState, TypeOK
        <4>3. players'[q] = players[q]
          BY <4>1, <4>2 DEF TypeOK
        <4> QED BY <2>2, <4>2, <4>3 DEF Present, OwnedInv, EntryOwned
      <3> QED BY <3>1, <3>2
    <2>3. EntryOwned'
      BY <2>1, <2>2 DEF OwnedInv, EntryOwned, Present, TypeOK
    <2> QED BY <2>1, <2>3 DEF OwnedInv, TypeOK
  <1>9. ASSUME NEW c \in Clients, Destroy(c)
        PROVE  OwnedInv'
    <2>1. \A p \in PlayerIds : players[p].session # c
      BY <1>9 DEF Destroy, OwnedInv, EntryOwned, Present
    <2>2. \A p \in PlayerIds : players'[p] = players[p]
      BY <1>9, <2>1 DEF Destroy
    <2>3. EntryOwned'
      BY <1>9, <2>1, <2>2 DEF Destroy, OwnedInv, EntryOwned, Present, TypeOK
    <2> QED BY <1>9, <2>3 DEF Destroy, OwnedInv, TypeOK
  <1>10. CASE \E s \in SessionIds : SessionCreated(s)
    BY <1>10 DEF SessionCreated, OwnedInv, EntryOwned, Present
  <1>11. ASSUME NEW s \in SessionIds, SessionEnded(s)
         PROVE  OwnedInv'
    <2>1. \A p \in PlayerIds : players'[p].session = players[p].session
      BY <1>11 DEF SessionEnded, MovedToLobby
    <2> QED BY <1>11, <2>1 DEF SessionEnded, OwnedInv, EntryOwned, Present
  <1>12. CASE \E s \in SessionIds : HistoryExpire(s)
    BY <1>12 DEF HistoryExpire, chanVars, OwnedInv, EntryOwned, Present
  <1>13. CASE UNCHANGED vars
    BY <1>13 DEF vars, chanVars, OwnedInv, EntryOwned, Present
  <1> QED
    BY <1>2, <1>3, <1>4, <1>5, <1>6, <1>7, <1>8, <1>9, <1>10, <1>11, <1>12,
       <1>13
       DEF Next, ClientNext, RoomServerNext

\* Entries and connections are in that relation in every reachable state.
LEMMA OwnedAlways ==
  ASSUME OneIdPerSession, ~LateReads
  PROVE  Spec => []OwnedInv
  <1>1. Init => OwnedInv
    BY DEF Init, OwnedInv, EntryOwned, Present, NoState
  <1>2. TypeOK /\ OwnedInv /\ [Next]_vars => OwnedInv'
    BY OwnedStep
  <1> QED BY <1>1, <1>2, TypeCorrect, PTL DEF Spec

\* Kicks, refusals, closes and replacements never leave an entry to a dead
\* session or to one that goes by another id, if every connection keeps to
\* one id and no read outlives close().
THEOREM Owned == OneIdPerSession /\ ~LateReads => (Spec => []EntryOwned)
  <1> SUFFICES ASSUME OneIdPerSession, ~LateReads PROVE Spec => []EntryOwned
    OBVIOUS
  <1>1. OwnedInv => EntryOwned
    BY DEF OwnedInv
  <1> QED BY <1>1, OwnedAlways, PTL

\* Under the same assumptions no whisper is accepted and lost.
THEOREM Whispers == OneIdPerSession /\ ~LateReads => (Spec => []WhispersArrive)
  <1> SUFFICES ASSUME OneIdPerSession, ~LateReads PROVE Spec => []WhispersArrive
    OBVIOUS
  <1>1. Init => WhispersArrive
    BY DEF Init, WhispersArrive
  <1>2. ASSUME OwnedInv, WhispersArrive, [Next]_vars
        PROVE  WhispersArrive'
    <2>1. ASSUME NEW c \in Clients, NEW target \in PlayerIds, SendWhisper(c, target)
          PROVE  WhispersArrive'
      <3>1. players[target].session \in Reached({target})
        BY <1>2, <2>1 DEF SendWhisper, OwnedInv, EntryOwned, Reached
      <3> QED BY <1>2, <2>1, <3>1 DEF SendWhisper, WhispersArrive
    <2>2. CASE ~\E c \in Clients, target \in PlayerIds : SendWhisper(c, target)
      <3>1. whisper_lost' = whisper_lost
        BY <1>2, <2>2
           DEF Next, ClientNext, RoomServerNext, AuthLobby, AuthSession, Joins,
               AuthRefused, SendLobby, SendAll, Connect, Close, Destroy,
               SessionCreated, SessionEnded, HistoryExpire, observers, vars
      <3> QED BY <1>2, <3>1 DEF WhispersArrive
    <2> QED BY <2>1, <2>2
  <1> QED BY <1>1, <1>2, OwnedAlways, PTL DEF Spec

-----------------------------------------------------------------------------
(* The order of histories.                                                 *)

\* h is strictly newest first, with no message after n.
Ordered(h, n) ==
    \A i \in 1..Len(h) : h[i] <= n /\ \A j \in 1..(i - 1) : h[j] > h[i]

\* LPUSH of a newer message keeps the order.
LEMMA PushOrdered ==
  ASSUME NEW h \in Seq(Nat), NEW n \in Nat, Ordered(h, n)
  PROVE  Ordered(<<n + 1>> \o h, n + 1) /\ Ordered(h, n + 1)
  <1> DEFINE g == <<n + 1>> \o h
  <1>1. /\ g \in Seq(Nat) /\ Len(g) = Len(h) + 1 /\ g[1] = n + 1
        /\ \A i \in 2..Len(g) : g[i] = h[i - 1]
    OBVIOUS
  <1> HIDE DEF g
  <1>2. ASSUME NEW i \in 1..Len(g) PROVE g[i] <= n + 1
    <2>1. CASE i = 1
      BY <1>1, <2>1
    <2>2. CASE i # 1
      <3>1. i - 1 \in 1..Len(h) /\ g[i] = h[i - 1]
        BY <1>1, <2>2
      <3>2. h[i - 1] <= n /\ h[i - 1] \in Nat
        BY <3>1 DEF Ordered
      <3> QED BY <3>1, <3>2
    <2> QED BY <2>1, <2>2
  <1>3. ASSUME NEW i \in 1..Len(g), NEW j \in 1..(i - 1) PROVE g[j] > g[i]
    <2>1. i \in 2..Len(g) /\ i - 1 \in 1..Len(h) /\ g[i] = h[i - 1]
          /\ h[i - 1] <= n /\ h[i - 1] \in Nat
      BY <1>1 DEF Ordered
    <2>2. CASE j = 1
      BY <1>1, <2>1, <2>2
    <2>3. CASE j # 1
      <3>1. j - 1 \in 1..(i - 1 - 1) /\ g[j] = h[j - 1]
        BY <1>1, <2>1, <2>3
      <3> QED BY <2>1, <3>1 DEF Ordered
    <2> QED BY <2>2, <2>3
  <1>4. Ordered(g, n + 1)
    BY <1>2, <1>3 DEF Ordered
  <1>5. Ordered(h, n + 1)
    BY DEF Ordered
  <1> QED BY <1>4, <1>5 DEF g

\* LTRIM keeps the order.
LEMMA RecentOrdered ==
  ASSUME NEW h \in Seq(Nat), NEW n \in Nat, Ordered(h, n)
  PROVE  Ordered(Recent(h), n)
  <1>1. CASE HistorySize = 0 \/ Len(h) <= HistorySize
    BY <1>1 DEF Recent
  <1>2. CASE ~(HistorySize = 0 \/ Len(h) <= HistorySize)
    <2>1. HistorySize \in 1..Len(h)
      BY <1>2, ChannelManagerAssumption
    <2>2. /\ Len(SubSeq(h, 1, HistorySize)) = HistorySize
          /\ \A i \in 1..HistorySize : SubSeq(h, 1, HistorySize)[i] = h[i]
      BY <2>1, ChannelManagerAssumption
    <2>3. Ordered(SubSeq(h, 1, HistorySize), n)
      BY <2>1, <2>2 DEF Ordered
    <2> QED BY <1>2, <2>3 DEF Recent
  <1> QED BY <1>1, <1>2

\* The order survives a save, whichever of its calls fail.
LEMMA SavedOrdered ==
  ASSUME NEW h \in Seq(Nat), NEW n \in Nat, Ordered(h, n),
         NEW g \in Saved(h, n + 1)
  PROVE  Ordered(g, n + 1)
  <1>1. <<n + 1>> \o h \in Seq(Nat)
    OBVIOUS
  <1>2. Ordered(<<n + 1>> \o h, n + 1) /\ Ordered(h, n + 1) /\ n + 1 \in Nat
    BY PushOrdered
  <1>3. Ordered(Recent(<<n + 1>> \o h), n + 1) /\ Ordered(Recent(h), n + 1)
    BY <1>1, <1>2, RecentOrdered
  <1>4. g \in {h, <<n + 1>> \o h, Recent(h), Recent(<<n + 1>> \o h)}
    BY DEF Saved
  <1> QED BY <1>2, <1>3, <1>4

\* A deleted or expired list is in order.
LEMMA EmptyOrdered ==
  ASSUME NEW n \in Nat PROVE Ordered(<<>>, n)
  BY DEF Ordered

\* Whatever calls to Redis fail and whenever keys expire, a history replays
\* in the order of sending and without repetition.
THEOREM HistoryOrder == Spec => []HistoryNewestFirst
  <1> DEFINE Inv == \A s \in SessionIds : Ordered(history[s], newest[s])
  <1>1. Inv <=> HistoryNewestFirst
    BY DEF Ordered, HistoryNewestFirst
  <1>2. ASSUME Init PROVE Inv
    BY <1>2, EmptyOrdered DEF Init, Channel
  <1>3. ASSUME TypeOK, Inv, [Next]_vars
        PROVE  Inv'
    <2>1. ASSUME NEW c \in Clients, SendAll(c)
          PROVE  Inv'
      <3> DEFINE s == players[pid[c]].session_id
      <3>1. s \in SessionIds
        BY <1>3, <2>1 DEF SendAll, MaySend, TypeOK, PlayerState, Channel
      <3>2. newest[s] \in Nat /\ history[s] \in Seq(Nat) /\ s \in Channel
        BY <1>3, <3>1 DEF TypeOK, Channel
      <3>3. PICK h \in Saved(history[s], newest[s] + 1) :
               history' = [history EXCEPT ![s] = h]
        BY <2>1 DEF SendAll
      <3>4. newest' = [newest EXCEPT ![s] = newest[s] + 1]
        BY <2>1 DEF SendAll, Broadcast
      <3> HIDE DEF s
      <3>5. Ordered(h, newest[s] + 1)
        BY <1>3, <3>1, <3>2, <3>3, SavedOrdered
      <3> QED BY <1>3, <3>1, <3>2, <3>3, <3>4, <3>5 DEF TypeOK, Channel
    <2>2. ASSUME NEW s \in SessionIds, SessionEnded(s)
          PROVE  Inv'
      <3>1. PICK h \in {<<>>, history[s]} : history' = [history EXCEPT ![s] = h]
        BY <2>2 DEF SessionEnded
      <3>2. newest' = newest /\ newest[s] \in Nat
        BY <1>3, <2>2 DEF SessionEnded, TypeOK, Channel
      <3>3. Ordered(h, newest[s])
        BY <1>3, <3>1, <3>2, EmptyOrdered
      <3> QED BY <1>3, <3>1, <3>2, <3>3 DEF TypeOK
    <2>3. ASSUME NEW s \in SessionIds, HistoryExpire(s)
          PROVE  Inv'
      <3>1. /\ history' = [history EXCEPT ![s] = <<>>]
            /\ newest' = newest /\ newest[s] \in Nat
        BY <1>3, <2>3 DEF HistoryExpire, observers, TypeOK, Channel
      <3> QED BY <1>3, <3>1, EmptyOrdered DEF TypeOK
    <2>4. ASSUME NEW c \in Clients, SendLobby(c)
          PROVE  Inv'
      <3>1. history' = history /\ \A s \in SessionIds : newest'[s] = newest[s]
        BY <1>3, <2>4, ChannelManagerAssumption
           DEF SendLobby, Broadcast, TypeOK, Channel
      <3> QED BY <1>3, <3>1
    <2>5. CASE UNCHANGED <<history, newest>>
      BY <1>3, <2>5
    <2>6. \/ \E c \in Clients : SendAll(c) \/ SendLobby(c)
          \/ \E s \in SessionIds : SessionEnded(s) \/ HistoryExpire(s)
          \/ UNCHANGED <<history, newest>>
      <3>1. CASE UNCHANGED vars
        BY <3>1 DEF vars, observers
      <3>2. ASSUME NEW c \in Clients, ClientNext(c),
                   ~SendAll(c), ~SendLobby(c)
            PROVE  UNCHANGED <<history, newest>>
        BY <3>2
           DEF ClientNext, AuthLobby, AuthSession, Joins, AuthRefused,
               SendWhisper, Connect, Close, Destroy, observers
      <3>3. ASSUME NEW s \in SessionIds, RoomServerNext(s),
                   ~SessionEnded(s), ~HistoryExpire(s)
            PROVE  UNCHANGED <<history, newest>>
        BY <3>3 DEF RoomServerNext, SessionCreated, observers
      <3> QED BY <1>3, <3>1, <3>2, <3>3 DEF Next
    <2> HIDE DEF Inv
    <2> QED BY <2>1, <2>2, <2>3, <2>4, <2>5, <2>6
  <1> HIDE DEF Inv
  <1> QED BY <1>1, <1>2, <1>3, TypeCorrect, PTL DEF Spec

-----------------------------------------------------------------------------
(* What the members of a channel have been shown.                          *)

\* A history that is kept begins with the channel's newest message, and a
\* session that was never announced has had no message.
HistoryTop ==
    \A s \in SessionIds :
        /\ s \notin created => newest[s] = 0 /\ history[s] = <<>>
        /\ s \in session_channels =>
              newest[s] = IF history[s] = <<>> THEN 0 ELSE history[s][1]

\* Every entry's session has been shown the newest message of the entry's
\* channel.
Shown ==
    \A p \in PlayerIds :
        Present(p) => seen[players[p].session] = newest[players[p].session_id]

\* The head of the list after LPUSH and LTRIM is the message pushed.
LEMMA RecentHead ==
  ASSUME NEW h \in Seq(Nat), NEW m \in Nat
  PROVE  Recent(<<m>> \o h) # <<>> /\ Recent(<<m>> \o h)[1] = m
  <1> DEFINE g == <<m>> \o h
  <1>1. g \in Seq(Nat) /\ Len(g) > 0 /\ g[1] = m
    OBVIOUS
  <1> HIDE DEF g
  <1>2. CASE HistorySize = 0 \/ Len(g) <= HistorySize
    <2>1. Recent(g) = g
      BY <1>2 DEF Recent
    <2>2. g # <<>>
      BY <1>1
    <2> QED BY <1>1, <2>1, <2>2 DEF g
  <1>3. CASE ~(HistorySize = 0 \/ Len(g) <= HistorySize)
    <2>1. Recent(g) = SubSeq(g, 1, HistorySize) /\ HistorySize \in 1..Len(g)
      BY <1>1, <1>3, ChannelManagerAssumption DEF Recent
    <2>2. Len(Recent(g)) = HistorySize /\ Recent(g)[1] = g[1]
      BY <1>1, <2>1
    <2>3. Recent(g) # <<>>
      BY <2>1, <2>2
    <2> QED BY <1>1, <2>2, <2>3 DEF g
  <1> QED BY <1>2, <1>3

\* While Redis works, every step keeps the newest message at the head.
LEMMA TopStep ==
  ASSUME ~RedisLossy, TypeOK, Tables, HistoryTop, [Next]_vars
  PROVE  HistoryTop'
  <1> USE ChannelManagerAssumption
  <1>1. ASSUME newest' = newest, history' = history, created' = created,
               session_channels' = session_channels
        PROVE  HistoryTop'
    BY <1>1 DEF HistoryTop
  <1>2. ASSUME NEW c \in Clients, NEW p, NEW s,
               AuthLobby(c, p) \/ AuthSession(c, p, s) \/ AuthRefused(c, p, s)
        PROVE  HistoryTop'
    BY <1>1, <1>2 DEF AuthLobby, AuthSession, AuthRefused, Joins, observers
  <1>3. ASSUME NEW c \in Clients, NEW x,
               SendWhisper(c, x) \/ Connect(c) \/ Close(c, x) \/ Destroy(c)
        PROVE  HistoryTop'
    BY <1>1, <1>3 DEF SendWhisper, Connect, Close, Destroy, chanVars, observers
  <1>4. ASSUME NEW c \in Clients, SendLobby(c)
        PROVE  HistoryTop'
    <2>1. \A s \in SessionIds : newest'[s] = newest[s]
      BY <1>4 DEF SendLobby, Broadcast, TypeOK, Channel
    <2> QED BY <1>4, <2>1 DEF SendLobby, chanVars, HistoryTop
  <1>5. ASSUME NEW c \in Clients, SendAll(c)
        PROVE  HistoryTop'
    <2> DEFINE s == players[pid[c]].session_id
               m == newest[s] + 1
    <2>1. pid[c] \in PlayerIds /\ s \in SessionIds
      BY <1>5 DEF SendAll, MaySend, TypeOK, PlayerState, Channel
    <2>2. s \in session_channels /\ s \in created
      BY <2>1 DEF Tables, ChannelAgreement, TypeOK
    <2>3. /\ newest' = [newest EXCEPT ![s] = m]
          /\ history' = [history EXCEPT ![s] = Recent(<<m>> \o history[s])]
          /\ session_channels' = session_channels /\ created' = created
      BY <1>5 DEF SendAll, Broadcast, Saved, chanVars
    <2>4. history[s] \in Seq(Nat) /\ m \in Nat /\ s \in Channel
      BY <2>1 DEF TypeOK, Channel
    <2> HIDE DEF s, m
    <2>5. /\ newest'[s] = m /\ history'[s] # <<>> /\ history'[s][1] = m
      BY <2>1, <2>3, <2>4, RecentHead DEF TypeOK
    <2>6. \A t \in SessionIds : t # s =>
             newest'[t] = newest[t] /\ history'[t] = history[t]
      BY <2>3 DEF TypeOK, Channel
    <2> QED BY <2>2, <2>3, <2>5, <2>6 DEF HistoryTop
  <1>6. ASSUME NEW s \in SessionIds, SessionCreated(s)
        PROVE  HistoryTop'
    BY <1>6 DEF SessionCreated, observers, HistoryTop
  <1>7. ASSUME NEW s \in SessionIds, SessionEnded(s)
        PROVE  HistoryTop'
    <2>1. /\ history' = [history EXCEPT ![s] = <<>>]
          /\ s \in session_channels /\ session_channels' = session_channels \ {s}
          /\ newest' = newest /\ created' = created
      BY <1>7 DEF SessionEnded
    <2>2. s \in created
      BY <2>1 DEF TypeOK
    <2> QED BY <2>1, <2>2 DEF HistoryTop, TypeOK
  <1>8. CASE \E s \in SessionIds : HistoryExpire(s)
    BY <1>8 DEF HistoryExpire
  <1>9. CASE UNCHANGED vars
    BY <1>1, <1>9 DEF vars, chanVars, observers
  <1> QED
    BY <1>2, <1>3, <1>4, <1>5, <1>6, <1>7, <1>8, <1>9
       DEF Next, ClientNext, RoomServerNext

\* No two entries name the same session.
LEMMA OneEntryEach ==
  ASSUME EntryOwned, NEW p \in PlayerIds, NEW q \in PlayerIds, Present(p),
         players[q].session = players[p].session
  PROVE  q = p
  BY DEF EntryOwned, Present

\* Who gets a broadcast to the entries of ps.
LEMMA ReachedEntries ==
  ASSUME EntryOwned, NEW ps \in SUBSET PlayerIds, NEW p \in PlayerIds, Present(p)
  PROVE  players[p].session \in Reached(ps) <=> p \in ps
  <1>1. players[p].session \in Clients /\ conn[players[p].session] = "open"
    BY DEF EntryOwned
  <1>2. ASSUME NEW q \in ps, players[q].session = players[p].session
        PROVE  p \in ps
    BY <1>2, OneEntryEach
  <1> QED BY <1>1, <1>2 DEF Reached

\* Every step shows the members of a channel what has become its newest
\* message, and whoever joins one what was the newest before.
LEMMA ShownStep ==
  ASSUME OneIdPerSession, ~LateReads, ~RedisLossy, TypeOK, Tables, OwnedInv,
         HistoryTop, Shown, [Next]_vars
  PROVE  Shown'
  <1> USE ChannelManagerAssumption
  <1>0. EntryOwned
    BY DEF OwnedInv
  <1>1. ASSUME newest' = newest, seen' = seen,
               NEW ps \in SUBSET PlayerIds,
               \A q \in PlayerIds : players'[q] = IF q \in ps THEN NoState ELSE players[q]
        PROVE  Shown'
    BY <1>1 DEF Shown, Present, NoState
  <1>2. ASSUME newest' = newest, seen' = seen, players' = players
        PROVE  Shown'
    BY <1>2 DEF Shown, Present
  <1>3. ASSUME NEW c \in Clients, NEW p \in IdsOf[c], NEW k \in Channel, NEW n,
               n = newest[k], Joins(c, p, k, n)
        PROVE  Shown'
    <2>1. /\ p \in PlayerIds
          /\ players' = [players EXCEPT ![p] = [session |-> c, session_id |-> k,
                                                in_lobby |-> k = Lobby]]
          /\ seen' = [seen EXCEPT ![c] = n] /\ newest' = newest
      BY <1>3 DEF Joins
    <2>2. players'[p].session = c /\ players'[p].session_id = k /\ seen'[c] = n
      BY <2>1 DEF TypeOK
    <2>3. ASSUME NEW q \in PlayerIds, q # p, Present(q)
          PROVE  players'[q] = players[q] /\ seen'[players[q].session] = seen[players[q].session]
      <3>1. players[q].session \in Clients /\ pid[players[q].session] = q
        BY <1>0, <2>3 DEF EntryOwned
      <3>2. players[q].session # c
        BY <2>3, <3>1 DEF OwnedInv, OneIdPerSession
      <3> QED BY <2>1, <2>3, <3>1, <3>2 DEF TypeOK
    <2>4. ASSUME NEW q \in PlayerIds, q # p PROVE players'[q] = players[q]
      BY <2>1, <2>4 DEF TypeOK
    <2> QED BY <1>3, <2>1, <2>2, <2>3, <2>4 DEF Shown, Present
  <1>4. ASSUME NEW c \in Clients, NEW p \in IdsOf[c], AuthLobby(c, p)
        PROVE  Shown'
    BY <1>3, <1>4 DEF AuthLobby, Channel
  <1>5. ASSUME NEW c \in Clients, NEW p \in IdsOf[c], NEW s \in SessionIds,
               AuthSession(c, p, s)
        PROVE  Shown'
    <2>1. PICK n \in Replayed(s) : Joins(c, p, s, n)
      BY <1>5 DEF AuthSession
    <2>2. n = newest[s]
      BY <1>5, <2>1 DEF Replayed, AuthSession, HistoryTop
    <2> QED BY <1>3, <2>1, <2>2 DEF Channel
  <1>6. ASSUME NEW c \in Clients, NEW p \in IdsOf[c], NEW s \in SessionIds,
               AuthRefused(c, p, s)
        PROVE  Shown'
    <2>1. /\ newest' = newest /\ seen' = seen /\ {p} \in SUBSET PlayerIds
          /\ players' = [players EXCEPT ![p] = NoState]
      BY <1>6 DEF AuthRefused, observers
    <2>2. \A q \in PlayerIds : players'[q] = IF q \in {p} THEN NoState ELSE players[q]
      BY <2>1 DEF TypeOK
    <2> QED BY <1>1, <2>1, <2>2
  <1>7. ASSUME NEW k \in Channel, NEW ps \in SUBSET PlayerIds, Broadcast(k, ps),
               players' = players,
               \A q \in PlayerIds : Present(q) =>
                  (q \in ps <=> players[q].session_id = k)
        PROVE  Shown'
    <2> SUFFICES ASSUME NEW q \in PlayerIds, Present(q)
                 PROVE  seen'[players[q].session] = newest'[players[q].session_id]
      BY <1>7 DEF Shown, Present
    <2>1. /\ players[q].session \in Clients
          /\ players[q].session \in Reached(ps) <=> players[q].session_id = k
      BY <1>0, <1>7, ReachedEntries DEF EntryOwned
    <2>2. seen[players[q].session] = newest[players[q].session_id]
          /\ players[q].session_id \in Channel
      BY DEF Shown, TypeOK, PlayerState
    <2> QED BY <1>7, <2>1, <2>2 DEF Broadcast, TypeOK
  <1>8. ASSUME NEW c \in Clients, SendLobby(c)
        PROVE  Shown'
    <2>1. \A q \in PlayerIds : Present(q) =>
             (q \in lobby_members <=> players[q].session_id = Lobby)
      BY DEF Tables, LobbyAgreement
    <2>2. Broadcast(Lobby, lobby_members) /\ players' = players
      BY <1>8 DEF SendLobby, chanVars
    <2> QED BY <1>7, <2>1, <2>2 DEF Channel, TypeOK
  <1>9. ASSUME NEW c \in Clients, SendAll(c)
        PROVE  Shown'
    <2> DEFINE s == players[pid[c]].session_id
    <2>1. pid[c] \in PlayerIds /\ s \in SessionIds
      BY <1>9 DEF SendAll, MaySend, TypeOK, PlayerState, Channel
    <2>2. s \in session_channels
      BY <2>1 DEF Tables, ChannelAgreement
    <2>3. Broadcast(s, members[s]) /\ players' = players
      BY <1>9, <2>2 DEF SendAll, chanVars
    <2> HIDE DEF s
    <2>4. \A q \in PlayerIds : q \in members[s] <=> players[q].session_id = s
      BY <2>1 DEF Tables, ChannelAgreement
    <2>5. s \in Channel /\ members[s] \in SUBSET PlayerIds
      BY <2>1 DEF Channel, TypeOK
    <2> QED BY <1>7, <2>3, <2>4, <2>5
  <1>10. ASSUME NEW c \in Clients, NEW x, SendWhisper(c, x) \/ Connect(c)
         PROVE  Shown'
    BY <1>2, <1>10 DEF SendWhisper, Connect, chanVars, observers
  <1>11. ASSUME NEW c \in Clients, NEW after \in {"closing", "closed"}, Close(c, after)
         PROVE  Shown'
    <2>1. newest' = newest /\ seen' = seen
      BY <1>11 DEF Close, observers
    <2>2. CASE pid[c] = NoPlayer
      BY <1>2, <1>11, <2>1, <2>2 DEF Close
    <2>3. CASE pid[c] # NoPlayer
      <3>1. /\ {pid[c]} \in SUBSET PlayerIds
            /\ players' = [players EXCEPT ![pid[c]] = NoState]
        BY <1>11, <2>3 DEF Close, Disconnected, TypeOK
      <3>2. \A q \in PlayerIds : players'[q] = IF q \in {pid[c]} THEN NoState
                                               ELSE players[q]
        BY <3>1 DEF TypeOK
      <3> QED BY <1>1, <2>1, <3>1, <3>2
    <2> QED BY <2>2, <2>3
  <1>12. ASSUME NEW c \in Clients, Destroy(c)
         PROVE  Shown'
    <2>1. \A p \in PlayerIds : players[p].session # c
      BY <1>0, <1>12 DEF Destroy, EntryOwned, Present
    <2>2. \A p \in PlayerIds : players'[p] = players[p]
      BY <1>12, <2>1 DEF Destroy
    <2>3. newest' = newest /\ seen' = [seen EXCEPT ![c] = 0]
      BY <1>12 DEF Destroy
    <2> QED BY <1>0, <2>1, <2>2, <2>3 DEF Shown, Present, EntryOwned, TypeOK
  <1>13. CASE \E s \in SessionIds : SessionCreated(s) \/ HistoryExpire(s)
    BY <1>2, <1>13 DEF SessionCreated, HistoryExpire, chanVars, observers
  <1>14. ASSUME NEW s \in SessionIds, SessionEnded(s)
         PROVE  Shown'
    <2>1. /\ newest' = newest /\ players' = MovedToLobby(s)
          /\ seen' = [c \in Clients |-> IF c \in Reached(members[s])
                                        THEN newest[Lobby] ELSE seen[c]]
      BY <1>14 DEF SessionEnded
    <2> SUFFICES ASSUME NEW q \in PlayerIds, Present(q)'
                 PROVE  seen'[players'[q].session] = newest[players'[q].session_id]
      BY <2>1 DEF Shown
    <2>2. players'[q].session = players[q].session /\ Present(q)
      BY <2>1 DEF MovedToLobby, Present
    <2>3. /\ players[q].session \in Clients
          /\ players[q].session \in Reached(members[s]) <=> q \in members[s]
      BY <1>0, <2>2, ReachedEntries DEF EntryOwned, TypeOK
    <2>4. players'[q].session_id = IF q \in members[s] THEN Lobby
                                   ELSE players[q].session_id
      BY <2>1, <2>2 DEF MovedToLobby
    <2> QED BY <2>1, <2>2, <2>3, <2>4 DEF Shown
  <1>15. CASE UNCHANGED vars
    BY <1>2, <1>15 DEF vars, chanVars, observers
  <1> QED
    BY <1>4, <1>5, <1>6, <1>8, <1>9, <1>10, <1>11, <1>12, <1>13, <1>14, <1>15
       DEF Next, ClientNext, RoomServerNext

\* While Redis works, and under the assumptions of the theorem on entries, a
\* player in a channel is never behind: whatever it missed before it joined or
\* came back is in what sendHistory replays.
THEOREM UpToDate ==
  OneIdPerSession /\ ~LateReads /\ ~RedisLossy => (Spec => []CaughtUp)
  <1> SUFFICES ASSUME OneIdPerSession, ~LateReads, ~RedisLossy
               PROVE  Spec => []CaughtUp
    OBVIOUS
  <1>1. Init => HistoryTop /\ Shown
    BY DEF Init, HistoryTop, Shown, Present, NoState, Channel
  <1>2. TypeOK /\ Tables /\ HistoryTop /\ [Next]_vars => HistoryTop'
    BY TopStep
  <1>3. TypeOK /\ Tables /\ OwnedInv /\ HistoryTop /\ Shown /\ [Next]_vars => Shown'
    BY ShownStep
  <1>4. Shown => CaughtUp
    BY ChannelManagerAssumption DEF Shown, CaughtUp, Reached, Present
  <1> QED
    BY <1>1, <1>2, <1>3, <1>4, TypeCorrect, TablesAlways,
       OwnedAlways, PTL
       DEF Spec

=============================================================================
