------------------------------- MODULE Backend -------------------------------
(***************************************************************************)
(* The two servers together: games that start and end in the room server   *)
(* (as Matchmaking says they do), the notices of them that its             *)
(* ChatServerChannel queues, writes or drops, the connection that carries  *)
(* them, and the chat server that makes and removes a channel for each     *)
(* session, crashes and restarts.                                          *)
(*                                                                         *)
(* The link is the module ChatServerChannel; here its queue has contents.  *)
(* A notice that has been written is on the wire until the chat server     *)
(* reads it, also after the room server has closed the connection; the     *)
(* reconnect delay (5 s) is taken to be long enough for the chat server to *)
(* read what an old connection still holds.                                *)
(***************************************************************************)
EXTENDS ChatServerChannel

CONSTANTS Players, Rooms, Sessions, Nowhere, NoGame, MaxSeats

VARIABLES seat, phase, capacity, game, used, announced,   \* see Matchmaking
          queue,             \* what write_queue_ holds
          wire,              \* notices written and not yet read
          connection,        \* the connection as the chat server has it
          acceptor,          \* the chat server's listening socket
          session_channels,  \* keys of session_channels_
          lost               \* observer: sessions of which a notice may be lost

roomVars == <<seat, phase, capacity, game, used, announced>>
chatVars == <<acceptor, session_channels>>
allVars == <<vars, roomVars, queue, wire, connection, chatVars, lost>>

M == INSTANCE Matchmaking

\* "waiting": the kernel has accepted it and the chat server has not.
Connection == {"none", "waiting", "accepted"}
\* "stuck": open, but no accept is under way; "down": no chat server.
Acceptor == {"open", "stuck", "closed", "down"}
Notice == [about : Sessions, created : BOOLEAN]

BackendInit ==
    /\ Init
    /\ M!MmInit
    /\ queue = <<>>
    /\ wire = <<>>
    /\ connection = "none"
    /\ acceptor = "open"
    /\ session_channels = {}
    /\ lost = {}

About(notices) == {notices[i].about : i \in 1..Len(notices)}

-----------------------------------------------------------------------------
(* The room server.                                                        *)

\* What the chat server is not told of.
Seats ==
    /\ ~corrupt
    /\ \/ \E p \in Players, r \in Rooms :
             \/ \E n \in 1..MaxSeats : M!Open(p, r, n)
             \/ M!Join(p, r)
       \/ \E p \in Players : M!Leave(p)
       \/ \E r \in Rooms : M!Abandon(r)
    /\ UNCHANGED <<vars, queue, wire, connection, chatVars, lost>>

\* Mutant: the newest notice is written first.
EnqueuedFirst(notice) == <<notice>> \o queue

Enqueued(notice) == Append(queue, notice)

\* sendSessionCreated and sendSessionEnded.
Notify(notice) ==
    /\ ~corrupt
    /\ \/ /\ Send
          /\ queue' = Enqueued(notice)
          /\ UNCHANGED lost
       \/ /\ ~connected
          /\ lost' = lost \cup {notice.about}
          /\ UNCHANGED <<vars, queue>>
    /\ UNCHANGED <<wire, connection, chatVars>>

GameStarts(r, s) == M!Start(r, s) /\ Notify([about |-> s, created |-> TRUE])

GameEnds(r) == M!Finish(r) /\ Notify([about |-> game[r], created |-> FALSE])

\* The queue after a step of the link, which pops or clears it.
QueueShortened == SubSeq(queue, Len(queue) - write_queue' + 1, Len(queue))

\* A step of the link after which it may be down.  A write that is cut short
\* may have put its notice on the wire all the same.
LinkStep ==
    /\ queue' = QueueShortened
    /\ IF connected /\ ~connected'
       THEN /\ lost' = lost \cup About(queue)
            /\ wire' \in {wire} \cup (IF "write" \in pending /\ connection # "none"
                                      THEN {Append(wire, Head(queue))} ELSE {})
       ELSE UNCHANGED <<lost, wire>>
    /\ UNCHANGED <<roomVars, connection, chatVars>>

LinkHandler == Handler /\ LinkStep

LinkStops == Stop /\ LinkStep

\* The kernel finishes an operation of the link other than a write.
LinkCompletes(op, ok) ==
    /\ op # "write"
    /\ Complete(op, ok)
    /\ IF op = "connect" /\ ok
       THEN /\ acceptor \in {"open", "stuck"}
            /\ wire = <<>>
            /\ connection' = "waiting"
       ELSE UNCHANGED connection
    /\ UNCHANGED <<roomVars, queue, wire, chatVars, lost>>

\* A write succeeds as soon as the kernel has the bytes, whether or not there
\* is still somebody at the other end; one that fails may have sent them.
LinkWrites(ok) ==
    /\ Complete("write", ok)
    /\ IF connection = "none"
       THEN /\ lost' = lost \cup About(<<Head(queue)>>)
            /\ UNCHANGED wire
       ELSE /\ wire' \in {Append(wire, Head(queue))} \cup (IF ok THEN {} ELSE {wire})
            /\ UNCHANGED lost
    /\ UNCHANGED <<roomVars, queue, connection, chatVars>>

-----------------------------------------------------------------------------
(* The connection and the chat server.                                     *)

\* The connection breaks; the room server learns of it by a failing read or
\* write, or never.
Break ==
    /\ connection # "none"
    /\ connection' = "none"
    /\ wire' = <<>>
    /\ lost' = lost \cup About(wire)
    /\ UNCHANGED <<vars, roomVars, queue, chatVars>>

\* InternalChannel::doAccept: an error ends the accepting.
ChatAccepts(ok) ==
    /\ acceptor = "open"
    /\ connection = "waiting"
    /\ connection' = IF ok THEN "accepted" ELSE connection
    /\ acceptor' = IF ok THEN acceptor ELSE "stuck"
    /\ UNCHANGED <<vars, roomVars, queue, wire, session_channels, lost>>

\* Mutant: the end of a session is not acted on.
ChannelsAfterAdding(notice) ==
    IF notice.created THEN session_channels \cup {notice.about} ELSE session_channels

\* handleSessionCreated and handleSessionEnded.
ChannelsAfter(notice) ==
    IF notice.created THEN session_channels \cup {notice.about}
                      ELSE session_channels \ {notice.about}

\* A read of the InternalSession.
ChatReads ==
    /\ connection = "accepted"
    /\ wire # <<>>
    /\ session_channels' = ChannelsAfter(Head(wire))
    /\ wire' = Tail(wire)
    /\ UNCHANGED <<vars, roomVars, queue, connection, acceptor, lost>>

\* The chat server's signal handler closes the acceptor, and with it a
\* connection it has not accepted; it keeps reading the one it has.
ChatStops ==
    /\ acceptor \in {"open", "stuck"}
    /\ acceptor' = "closed"
    /\ IF connection = "waiting"
       THEN /\ connection' = "none"
            /\ wire' = <<>>
            /\ lost' = lost \cup About(wire)
       ELSE UNCHANGED <<connection, wire, lost>>
    /\ UNCHANGED <<vars, roomVars, queue, session_channels>>

\* The chat server ends, for whatever reason.  Its channels are only in memory.
ChatCrashes ==
    /\ acceptor # "down"
    /\ acceptor' = "down"
    /\ connection' = "none"
    /\ session_channels' = {}
    /\ wire' = <<>>
    /\ lost' = lost \cup About(wire) \cup session_channels
    /\ UNCHANGED <<vars, roomVars, queue>>

\* A new chat server: main() makes an empty ChannelManager and listens.
ChatStarts ==
    /\ acceptor = "down"
    /\ acceptor' = "open"
    /\ UNCHANGED <<vars, roomVars, queue, wire, connection, session_channels, lost>>

-----------------------------------------------------------------------------

LinkAttempt ==
    \E op \in {"resolve", "connect", "timer"}, ok \in BOOLEAN : LinkCompletes(op, ok)

LinkWritten == \E ok \in BOOLEAN : LinkWrites(ok)

ChatAccepting == \E ok \in BOOLEAN : ChatAccepts(ok)

BackendNext ==
    \/ Seats
    \/ \E r \in Rooms : GameEnds(r) \/ \E s \in Sessions : GameStarts(r, s)
    \/ LinkHandler
    \/ LinkStops
    \/ \E op \in Operation, ok \in BOOLEAN : LinkCompletes(op, ok)
    \/ LinkWritten
    \/ Break
    \/ ChatAccepting
    \/ ChatReads
    \/ ChatStops
    \/ ChatCrashes
    \/ ChatStarts

\* Beside the fairness of the link: a write of a few bytes ends, and the chat
\* server's reactor accepts connections and handles what has arrived.
BackendSpec ==
    /\ BackendInit
    /\ [][BackendNext]_allVars
    /\ WF_allVars(LinkHandler)
    /\ WF_allVars(LinkAttempt)
    /\ WF_allVars(LinkWritten)
    /\ WF_allVars(ChatAccepting)
    /\ WF_allVars(ChatReads)

-----------------------------------------------------------------------------
(* Properties.                                                             *)

\* The last of the notices about s says that it was created.
LastCreates(notices, s) ==
    \E i \in 1..Len(notices) :
        /\ notices[i].about = s /\ notices[i].created
        /\ \A j \in (i + 1)..Len(notices) : notices[j].about # s

\* The channels of a chat server that has channels and reads the notices.
OnceRead(channels, notices) ==
    {s \in Sessions : \/ s \in channels /\ s \notin About(notices)
                      \/ LastCreates(notices, s)}

\* The channels once the chat server has read all that is on its way: what is
\* on the wire, then the queue, whose front may have been written already.
ChannelsToBe == OnceRead(OnceRead(session_channels, wire), queue)

\* However games, writes, failures and reads interleave, the chat server's
\* channels and what is on its way to it add up to the games that the room
\* server has announced and not ended, but for sessions whose notice was
\* dropped while the link was down, cleared with the queue, on a connection
\* that broke, or known to a chat server that crashed.
Agreement ==
    ~corrupt => \A s \in Sessions \ lost : s \in announced <=> s \in ChannelsToBe

\* The chat server cannot serve the connection: its acceptor gave up.
Unserved == acceptor = "stuck" /\ connection = "waiting"

\* A session that was announced gets its channel, and one that ended loses it,
\* unless a notice of it is lost or the chat server has stopped accepting.
Converges ==
    \A s \in Sessions :
        (s \in announced) # (s \in session_channels)
            ~> \/ (s \in announced) = (s \in session_channels)
               \/ s \in lost
               \/ Unserved
               \/ corrupt

=============================================================================
