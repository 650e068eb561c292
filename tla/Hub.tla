-------------------------------- MODULE Hub --------------------------------
(***************************************************************************)
(* Sessions and channels of the chat server: server-go/hub.go (the Hub     *)
(* goroutine) together with the three goroutine bodies of                  *)
(* server-go/client.go that talk to it, the login handler, readPump and    *)
(* writePump of every connection.                                          *)
(*                                                                         *)
(* The Hub goroutine owns its maps, so a Hub handler is one step, built    *)
(* from operators that take the Hub's state `s` and return the next one,   *)
(* in the order of the calls in the Go code.  The exception is the kick,   *)
(* whose two halves writePump can tell apart (see KickNotify).  The        *)
(* channels into the Hub are unbuffered: the step in which the Hub serves  *)
(* a request is also the one in which the sending goroutine moves on.      *)
(*                                                                         *)
(* A message is "msg" or the kick notice "kick", the one content any code  *)
(* here looks at.  The administrator's approval of a login is the subject  *)
(* of module Approval: a connection here starts when it is approved.       *)
(***************************************************************************)
EXTENDS Integers, Sequences, FiniteSets

CONSTANTS
    Conns,      \* the accepted connections, each with its *Client object
    Codes,      \* normalized user codes
    CodeOf,     \* CodeOf[c]: the user code connection c logs in with
    AdminCode,  \* Hub.AdminCode
    RoomNames,  \* the valid channel names
    Lobby,      \* defaultRoomName
    SendCap,    \* clientSendBufferSize, the capacity of Client.Send
    MaxPending, \* bound on the approvals shown to an administrator at login
    Store,      \* whether the server runs with an account database
    None        \* "no entry"

ASSUME HubAssumption ==
    /\ CodeOf \in [Conns -> Codes]
    /\ Lobby \in RoomNames
    /\ None \notin Conns /\ None \notin Codes
    /\ SendCap \in Nat \ {0} /\ MaxPending \in Nat
    /\ Store \in BOOLEAN

VARIABLES
    h,          \* the Hub's maps and the Client objects they point to
    pc,         \* pc[c]: where the handler goroutine of c is
    writer,     \* writer[c]: where writePump of c is
    kick        \* the kick the Hub is in the middle of, <<>> when it is idle

vars == <<h, pc, writer, kick>>

Msg == {"msg", "kick"}

HubState ==
    [clients : SUBSET Conns,
     activeCodes : [Codes -> Conns \cup {None}],
     usedCodes : SUBSET Codes,
     rooms : [RoomNames -> SUBSET Conns],      \* {} where Rooms has no entry
     roomDefinitions : SUBSET RoomNames,
     private : SUBSET RoomNames,
     ownerCode : [RoomNames -> Codes \cup {None}],
     allowed : [RoomNames -> SUBSET Codes],
     room : [Conns -> RoomNames],              \* Client.Room
     send : [Conns -> Seq(Msg)],               \* Client.Send
     sendClosed : SUBSET Conns,                \* closeSend was called
     connClosed : SUBSET Conns,                \* closeConnection was called
     flush : SUBSET Conns]                     \* disconnectAfterFlush

NewHub ==
    [clients |-> {},
     activeCodes |-> [k \in Codes |-> None],
     usedCodes |-> {},
     rooms |-> [r \in RoomNames |-> {}],
     roomDefinitions |-> {Lobby},
     private |-> {},
     ownerCode |-> [r \in RoomNames |-> None],
     allowed |-> [r \in RoomNames |-> {}],
     room |-> [c \in Conns |-> Lobby],
     send |-> [c \in Conns |-> <<>>],
     sendClosed |-> {},
     connClosed |-> {},
     flush |-> {}]

HandlerState == {"login", "greeting", "pushing", "offering", "reading",
                 "sending", "leaving", "done"}
WriterState == {"off", "running", "failed", "exited"}

IsAdmin(c) == CodeOf[c] = AdminCode

-----------------------------------------------------------------------------
(* The Hub's helpers.  RemoveClients, CloseSessions and Broadcast act on a  *)
(* set of clients: the loops of the code run over Go maps, and what they do *)
(* to one client does not depend on what they did to another.  A definition *)
(* marked variant is the one after it with a plausible mistake in it, which *)
(* a property must notice; no other definition uses it.                     *)

NeverFreed(s, S) == s.usedCodes       \* variant: the names stay taken

\* Without accounts a display name is free again once its client is gone.
UsedCodesWithout(s, S) ==
    IF Store THEN s.usedCodes ELSE s.usedCodes \ {CodeOf[c] : c \in S}

RemoveClients(s, S) ==
    [s EXCEPT
      !.clients = @ \ S,
      !.rooms = [r \in RoomNames |-> @[r] \ {c \in S : s.room[c] = r}],
      !.activeCodes = [k \in Codes |->
          IF \E c \in S : CodeOf[c] = k /\ @[k] = c THEN None ELSE @[k]],
      !.usedCodes = UsedCodesWithout(s, S)]

CloseSessions(s, S) ==
    [s EXCEPT !.sendClosed = @ \cup S, !.connClosed = @ \cup S]

Full(s, c) == Len(s.send[c]) >= SendCap

\* deliver() for every client in S: the clients whose buffer is full are
\* removed and closed, the others get m.
Broadcast(s, S, m) ==
    LET live == S \cap s.clients
        slow == {c \in live : Full(s, c)}
        t == CloseSessions(RemoveClients(s, slow), slow)
    IN  [t EXCEPT !.send = [c \in Conns |->
            IF c \in live \ slow THEN Append(@[c], m) ELSE @[c]]]

Deliver(s, c, m) == Broadcast(s, {c}, m)

RemoveFromRoom(s, c) == [s EXCEPT !.rooms[s.room[c]] = @ \ {c}]

AddToRoom(s, c, r) == [s EXCEPT !.rooms[r] = @ \cup {c}]

JoinOnly(s, c, r) == AddToRoom([s EXCEPT !.room[c] = r], c, r)   \* variant

\* removeFromRoom; client.Room = r; addToRoom
MoveTo(s, c, r) ==
    AddToRoom([RemoveFromRoom(s, c) EXCEPT !.room[c] = r], c, r)

CloseOnly(s, c) == CloseSessions(s, {c})        \* variants: one half of the
RemoveOnly(s, c) == RemoveClients(s, {c})       \* work is forgotten

UnregisterClient(s, c) ==
    IF c \notin s.clients THEN s
    ELSE LET t == RemoveClients(s, {c})
         IN  CloseSessions(Broadcast(t, t.rooms[t.room[c]], "msg"), {c})

UnregisterClientAfterFlush(s, c) ==
    IF c \notin s.clients THEN s
    ELSE LET t == RemoveClients([s EXCEPT !.flush = @ \cup {c}], {c})
             u == Broadcast(t, t.rooms[t.room[c]], "msg")
         IN  [u EXCEPT !.sendClosed = @ \cup {c}]

CanJoinRoom(s, c, r) ==
    r \notin s.private \/ IsAdmin(c) \/ CodeOf[c] \in s.allowed[r]

CanManageRoom(s, c, r) == IsAdmin(c) \/ s.ownerCode[r] = CodeOf[c]

\* The common tail of handleRoomJoin and handleRoomLeave.
ChangeRoom(s, c, r) ==
    LET left == Broadcast(s, s.rooms[s.room[c]], "msg")
        moved == MoveTo(left, c, r)
    IN  Broadcast(moved, moved.rooms[r], "msg")

RoomJoin(s, c, r) ==
    IF c \notin s.clients THEN s
    ELSE IF /\ r \in s.roomDefinitions
            /\ CanJoinRoom(s, c, r)
            /\ r # s.room[c]
         THEN ChangeRoom(s, c, r)
         ELSE Deliver(s, c, "msg")       \* an error, or "Already in room"

RoomLeave(s, c) ==
    IF c \notin s.clients THEN s
    ELSE IF s.room[c] = Lobby THEN Deliver(s, c, "msg")
         ELSE ChangeRoom(s, c, Lobby)

NameIsFree(s, r) == r \notin s.roomDefinitions

RoomCreate(s, c, r, isPrivate) ==
    IF c \notin s.clients THEN s
    ELSE IF ~NameIsFree(s, r) THEN Deliver(s, c, "msg")
    ELSE LET t == [s EXCEPT
                    !.roomDefinitions = @ \cup {r},
                    !.private = IF isPrivate THEN @ \cup {r} ELSE @,
                    !.ownerCode[r] = CodeOf[c],
                    !.allowed[r] = {CodeOf[c]}]
         IN  RoomJoin(Deliver(t, c, "msg"), c, r)

RoomDelete(s, r) ==
    LET members == s.rooms[r]
        moved == [s EXCEPT
                    !.rooms = [q \in RoomNames |->
                        IF q = r THEN {} ELSE IF q = Lobby THEN @[q] \cup members ELSE @[q]],
                    !.room = [c \in Conns |-> IF c \in members THEN Lobby ELSE @[c]]]
        told == Broadcast(moved, members, "msg")
    IN  [told EXCEPT !.roomDefinitions = @ \ {r}, !.private = @ \ {r},
                     !.ownerCode[r] = None, !.allowed[r] = {}]

RoomInvite(s, c, r, code) ==
    Deliver([s EXCEPT !.allowed[r] = @ \cup {code}], c, "msg")

\* Variant: the member stays in the channel.
Uninvite(s, c, r, code) ==
    Deliver([s EXCEPT !.allowed[r] = @ \ {code}], c, "msg")

RoomRemoveMember(s, c, r, code) ==
    LET t == [s EXCEPT !.allowed[r] = @ \ {code}]
        target == s.activeCodes[code]
        u == IF target # None /\ s.room[target] = r
             THEN Deliver(MoveTo(t, target, Lobby), target, "msg") ELSE t
    IN  Deliver(u, c, "msg")

\* handleRoomAction: the sender must be online, the channel must exist and not
\* be the lobby, and the sender must be its owner or the administrator.
RoomAction(s, c, r, act, code) ==
    IF c \notin s.clients THEN s
    ELSE IF r \notin s.roomDefinitions \/ r = Lobby \/ ~CanManageRoom(s, c, r)
         THEN Deliver(s, c, "msg")
    ELSE CASE act = "delete" -> RoomDelete(s, r)
           [] act = "invite" -> RoomInvite(s, c, r, code)
           [] act = "remove_member" -> RoomRemoveMember(s, c, r, code)

\* n messages to one client, one after the other.
DeliverEach(s, c, n) ==
    LET room == SendCap - Len(s.send[c])
        fits == IF n < room THEN n ELSE room
        t == [s EXCEPT !.send[c] = @ \o [i \in 1..fits |-> "msg"]]
    IN  IF c \notin s.clients \/ n = 0 THEN s
        ELSE IF n <= room THEN t ELSE Deliver(t, c, "msg")

NoTakeOver(s, k) == s                                     \* variant
TakeOver(s, k) ==
    IF s.activeCodes[k] # None THEN UnregisterClient(s, s.activeCodes[k]) ELSE s

\* Without accounts, a name that is online or used is refused.
NameTaken(s, k) == ~Store /\ (s.activeCodes[k] # None \/ k \in s.usedCodes)

\* handleRegisterRequest.  Result: the next state and whether it succeeded.
Register(s, c, nPending) ==
    LET k == CodeOf[c]
        t == TakeOver(s, k)
        u == AddToRoom([t EXCEPT !.usedCodes = @ \cup {k},
                                 !.activeCodes[k] = c,
                                 !.clients = @ \cup {c}], c, t.room[c])
        v == Broadcast(u, u.rooms[u.room[c]], "msg")
    IN  IF NameTaken(s, k) THEN [state |-> s, ok |-> FALSE]
        ELSE [state |-> IF IsAdmin(c) THEN DeliverEach(v, c, nPending) ELSE v,
              ok |-> TRUE]

Admins(s) == {c \in s.clients : IsAdmin(c)}

-----------------------------------------------------------------------------
(* The login handler of a connection, handleConnectionWithStore.            *)

Goto(c, from, to) == pc[c] = from /\ pc' = [pc EXCEPT ![c] = to]

\* The Hub is in its select, ready to serve the next request.
HubIdle == kick = <<>>

CloseConn(c) == h' = [h EXCEPT !.connClosed = @ \cup {c}]

\* Any early return before the client is registered: an unreadable or invalid
\* login message, a refused or expired approval, an identity the store rejects.
LoginRejected(c) ==
    /\ Goto(c, "login", "done")
    /\ CloseConn(c)
    /\ UNCHANGED <<writer, kick>>

HandleRegister(c, nPending) ==
    /\ HubIdle
    /\ LET result == Register(h, c, nPending)
       IN  IF result.ok
           THEN h' = result.state /\ Goto(c, "login", "greeting")
           ELSE CloseConn(c) /\ Goto(c, "login", "done")
    /\ UNCHANGED <<writer, kick>>

\* login_ok is on the wire; writePump starts.
SendLoginOk(c) ==
    /\ c \notin h.connClosed
    /\ Goto(c, "greeting", "pushing")
    /\ writer' = [writer EXCEPT ![c] = "running"]
    /\ UNCHANGED <<h, kick>>

LoginOkFails(c) ==
    /\ Goto(c, "greeting", "leaving")
    /\ UNCHANGED <<h, writer, kick>>

\* The stored offline messages and pending welcomes, one at a time: in
\* "pushing" the handler looks for the next one, in "offering" it has one.
PushNext(c) ==
    /\ Goto(c, "pushing", "offering")
    /\ UNCHANGED <<h, writer, kick>>

\* client.Send <- message by the handler goroutine itself: it blocks while the
\* buffer is full, and panics, into the deferred recover, once the Hub has
\* closed the channel.
Push(c) ==
    /\ IF c \in h.sendClosed
       THEN Goto(c, "offering", "leaving") /\ UNCHANGED h
       ELSE /\ Len(h.send[c]) < SendCap
            /\ h' = [h EXCEPT !.send[c] = Append(@, "msg")]
            /\ Goto(c, "offering", "pushing")
    /\ UNCHANGED <<writer, kick>>

PushDone(c) ==
    /\ Goto(c, "pushing", "reading")
    /\ UNCHANGED <<h, writer, kick>>

-----------------------------------------------------------------------------
(* readPump.  In "sending" it has a request for the Hub.                    *)

Receive(c) ==
    /\ c \notin h.connClosed
    /\ Goto(c, "reading", "sending")
    /\ UNCHANGED <<h, writer, kick>>

\* The peer is gone, a deadline passed, the frame was invalid, or the server
\* closed the socket.
ReceiveFails(c) ==
    /\ Goto(c, "reading", "leaving")
    /\ UNCHANGED <<h, writer, kick>>

\* The Hub takes c's request and leaves its state as s.
Serve(c, s) ==
    /\ HubIdle
    /\ Goto(c, "sending", "reading")
    /\ h' = s
    /\ UNCHANGED <<writer, kick>>

HandleRoomJoin(c, r) == Serve(c, RoomJoin(h, c, r))

HandleRoomLeave(c) == Serve(c, RoomLeave(h, c))

HandleRoomCreate(c, r, isPrivate) ==
    Serve(c, RoomCreate(h, c, r, isPrivate))

HandleRoomAction(c, r, act, code) ==
    Serve(c, RoomAction(h, c, r, act, code))

\* broadcastMessage: the author's session and channel are looked up by user
\* code.  With a store a message of a code that is not online cannot be saved
\* and is dropped; without one it goes to everybody.
ChatAudience(s, c) ==
    LET sender == s.activeCodes[CodeOf[c]]
    IN  IF sender # None THEN s.rooms[s.room[sender]]
        ELSE IF Store THEN {} ELSE s.clients

HandleChat(c, receipt) ==
    LET said == Broadcast(h, ChatAudience(h, c), "msg")
    IN  Serve(c, IF receipt THEN Deliver(said, h.activeCodes[CodeOf[c]], "msg")
                 ELSE said)

\* A duplicate, or a failing store: only the author's session hears of it.
HandleChatNotSaved(c) ==
    /\ Store
    /\ Serve(c, Deliver(h, h.activeCodes[CodeOf[c]], "msg"))

\* Every other request (private message, users, rooms, history, recall, mute,
\* MLS, attachment, an error): messages to the clients the handler selects, c among
\* them when it is answered.  What is selected is the subject of other modules.
HandleRelay(c, S) ==
    /\ S \subseteq h.clients
    /\ Serve(c, IF c \in h.clients THEN Broadcast(h, S, "msg") ELSE h)

HandleQuit(c) ==
    /\ HubIdle
    /\ Goto(c, "sending", "leaving")
    /\ h' = UnregisterClient(h, c)
    /\ UNCHANGED <<writer, kick>>

\* The deferred hub.Unregister <- c, then the deferred closeConnection.
HandleUnregister(c) ==
    /\ HubIdle
    /\ Goto(c, "leaving", "done")
    /\ h' = [UnregisterClient(h, c) EXCEPT !.connClosed = @ \cup {c}]
    /\ UNCHANGED <<writer, kick>>

-----------------------------------------------------------------------------
(* Administrator actions.                                                   *)

\* handleConnectionApproval, cancelConnectionApproval and the answer to an
\* approval: every administrator is told.
TellAdmins ==
    /\ HubIdle
    /\ h' = Broadcast(h, Admins(h), "msg")
    /\ UNCHANGED <<pc, writer, kick>>

\* The kick, first half: the notice is queued.  writePump may take it and
\* write it before the second half sets disconnectAfterFlush.
KickNotify(a, code) ==
    LET target == h.activeCodes[code]
    IN  /\ HubIdle
        /\ Goto(a, "sending", "reading")
        /\ IF a \in Admins(h) /\ target \notin {None, a}
           THEN h' = Deliver(h, target, "kick") /\ kick' = <<a, target>>
           ELSE h' = Deliver(h, a, "msg") /\ UNCHANGED kick
        /\ UNCHANGED writer

KickRemove ==
    /\ kick # <<>>
    /\ h' = Deliver(UnregisterClientAfterFlush(h, kick[2]), kick[1], "msg")
    /\ kick' = <<>>
    /\ UNCHANGED <<pc, writer>>

-----------------------------------------------------------------------------
(* writePump.                                                               *)

Write(c) ==
    /\ writer[c] = "running"
    /\ h.send[c] # <<>>
    /\ c \notin h.connClosed
    /\ LET last == c \in h.flush /\ Head(h.send[c]) = "kick"
       IN  /\ h' = [h EXCEPT !.send[c] = Tail(@),
                             !.connClosed = IF last THEN @ \cup {c} ELSE @]
           /\ writer' = [writer EXCEPT ![c] = IF last THEN "exited" ELSE "running"]
    /\ UNCHANGED <<pc, kick>>

WriteFails(c) ==
    /\ writer[c] = "running"
    /\ h.send[c] # <<>>
    /\ h' = [h EXCEPT !.send[c] = Tail(@)]
    /\ writer' = [writer EXCEPT ![c] = "failed"]
    /\ UNCHANGED <<pc, kick>>

\* Variant: the Hub is not told.
WriterGivesUp(c) ==
    /\ writer[c] = "failed"
    /\ writer' = [writer EXCEPT ![c] = "exited"]
    /\ CloseConn(c)
    /\ UNCHANGED <<pc, kick>>

\* hub.Unregister <- c after a failed write, then closeConnection.
HandleWriterUnregister(c) ==
    /\ HubIdle
    /\ writer[c] = "failed"
    /\ writer' = [writer EXCEPT ![c] = "exited"]
    /\ h' = [UnregisterClient(h, c) EXCEPT !.connClosed = @ \cup {c}]
    /\ UNCHANGED <<pc, kick>>

\* The loop over the closed and drained channel ends; the socket stays as it is.
WriterEnds(c) ==
    /\ writer[c] = "running"
    /\ h.send[c] = <<>> /\ c \in h.sendClosed
    /\ writer' = [writer EXCEPT ![c] = "exited"]
    /\ UNCHANGED <<h, pc, kick>>

-----------------------------------------------------------------------------
Init ==
    /\ h = NewHub
    /\ pc = [c \in Conns |-> "login"]
    /\ writer = [c \in Conns |-> "off"]
    /\ kick = <<>>

RoomActions == {"delete", "invite", "remove_member"}

Login(c) ==
    \/ LoginRejected(c)
    \/ \E nPending \in 0..MaxPending : HandleRegister(c, nPending)
    \/ SendLoginOk(c) \/ LoginOkFails(c)
    \/ PushNext(c) \/ Push(c) \/ PushDone(c)

Request(c) ==
    \/ HandleRoomLeave(c) \/ HandleChatNotSaved(c) \/ HandleQuit(c)
    \/ \E receipt \in BOOLEAN : HandleChat(c, receipt)
    \/ \E S \in SUBSET Conns : HandleRelay(c, S)
    \/ \E r \in RoomNames :
          \/ HandleRoomJoin(c, r)
          \/ \E isPrivate \in BOOLEAN : HandleRoomCreate(c, r, isPrivate)
          \/ \E act \in RoomActions, code \in Codes :
                HandleRoomAction(c, r, act, code)
    \/ \E code \in Codes : KickNotify(c, code)

Writer(c) == Write(c) \/ WriteFails(c) \/ WriterEnds(c)

\* Every connection has come and gone; the Hub waits for the next one.
AllGone == (\A c \in Conns : pc[c] = "done") /\ UNCHANGED vars

Next ==
    \/ \E c \in Conns :
          \/ Login(c) \/ Receive(c) \/ ReceiveFails(c) \/ Request(c)
          \/ HandleUnregister(c) \/ Writer(c) \/ HandleWriterUnregister(c)
    \/ KickRemove \/ TellAdmins
    \/ AllGone

Spec == Init /\ [][Next]_vars

(* Go runs every goroutine that is not blocked, and a select with several   *)
(* ready channels picks one at random, so a goroutine that keeps offering   *)
(* its request is served although the Hub is busy in between (strong        *)
(* fairness).  Nothing is assumed of the peers: they need not send, read    *)
(* or leave, and a socket operation may fail at any time.  A login pushes   *)
(* at most maxOfflineMessagesPerUser stored messages, so it gets to its end *)
(* although "pushing" is left for "offering" again and again.               *)
Fairness ==
    /\ WF_vars(KickRemove)
    /\ \A c \in Conns :
         /\ WF_vars(SendLoginOk(c) \/ LoginOkFails(c))
         /\ SF_vars(PushDone(c))
         /\ SF_vars(Push(c))
         /\ WF_vars(c \in h.connClosed /\ ReceiveFails(c))
         /\ SF_vars(Request(c))
         /\ SF_vars(HandleUnregister(c))
         /\ WF_vars(Writer(c))
         /\ SF_vars(HandleWriterUnregister(c))

FairSpec == Spec /\ Fairness

-----------------------------------------------------------------------------
(* Properties.                                                              *)

\* Every variable has its type, and no buffer holds more than SendCap messages
\* (Client.Send is a bounded channel).
TypeOK ==
    /\ h \in HubState
    /\ \A c \in Conns : Len(h.send[c]) <= SendCap
    /\ pc \in [Conns -> HandlerState]
    /\ writer \in [Conns -> WriterState]
    /\ kick = <<>> \/ kick \in Conns \X Conns

\* Clients and ActiveCodes are two views of the same sessions: a user code has
\* at most one active session, the one ActiveCodes names, whatever logins,
\* takeovers, kicks and slow-client removals happened (handleRegisterRequest,
\* removeClient).
SessionPerCode ==
    /\ \A c \in h.clients : h.activeCodes[CodeOf[c]] = c
    /\ \A k \in Codes : h.activeCodes[k] # None =>
          h.activeCodes[k] \in h.clients /\ CodeOf[h.activeCodes[k]] = k

\* The Hub never keeps a client whose Send channel or socket was closed, so
\* deliver(), which runs in a goroutine without a recover, never sends on a
\* closed channel.
OnlyOpenSessions == h.clients \cap (h.sendClosed \cup h.connClosed) = {}

\* Without accounts, a name is taken exactly as long as its client is online: no
\* removal, for whatever reason, leaves the name unusable for ever
\* (handleRegisterRequest, removeClient).
NamesAreFreed == ~Store => h.usedCodes = {CodeOf[c] : c \in h.clients}

\* A client that is online is a member of exactly one channel, the one in its
\* Room field, and that channel is defined (addToRoom, removeFromRoom,
\* handleRoomAction).
OneRoom ==
    \A c \in h.clients :
        /\ \A r \in RoomNames : c \in h.rooms[r] <=> r = h.room[c]
        /\ h.room[c] \in h.roomDefinitions

\* Only the administrator and the codes its owner allowed are online in a
\* private channel, also after invitations are withdrawn, the channel is
\* deleted and its name is used again (canJoinRoom, handleRoomAction).
PrivateRooms ==
    \A c \in h.clients :
        h.room[c] \in h.private =>
            IsAdmin(c) \/ CodeOf[c] \in h.allowed[h.room[c]]

\* While the handler or the writer of a registered connection runs, the Hub
\* either serves the connection or has closed its Send channel: nobody is left
\* waiting on a channel that no one will ever close.
NobodyAbandoned ==
    \A c \in Conns :
        \/ pc[c] \in {"greeting", "pushing", "offering", "reading", "sending"}
        \/ writer[c] \in {"running", "failed"}
        => c \in h.clients \cup h.sendClosed

\* A session that loses its user code to another connection, or loses it
\* altogether, is ended in the same step (unregisterClient in the takeover,
\* removeSlowClient, unregisterClientAfterFlush).
OldSessionEnds ==
    [][\A c \in h.clients :
          h'.activeCodes[CodeOf[c]] # c => c \notin h'.clients /\ c \in h'.sendClosed]_vars

\* Once the server has closed a connection, its goroutines end: the Hub, the
\* handler and writePump never wait for each other in a circle (the deferred
\* Unregister, the blocking push into Client.Send, writePump's Unregister).
GoroutinesEnd ==
    \A c \in Conns :
        c \in h.connClosed ~> pc[c] = "done" /\ writer[c] \in {"off", "exited"}

=============================================================================
