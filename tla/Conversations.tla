--------------------------- MODULE Conversations ---------------------------
(***************************************************************************)
(* What the graphical client shows: the conversations GuiChatController    *)
(* keeps (client-cpp/gui/src/gui_chat_controller.cpp) in ChatListModels    *)
(* (chat_model.cpp), and the snapshot of them that ChatBridge publishes to *)
(* the page (chat_bridge.cpp).                                             *)
(*                                                                         *)
(* A conversation is a channel or a peer with whom private messages are    *)
(* exchanged.  The controller caches the models of a few conversations and *)
(* deletes the least recently used one; messageModel_ points to the model  *)
(* of the active conversation.  Rows come from the user, from messages, in *)
(* reply to history requests, and again from retries.                      *)
(*                                                                         *)
(* Calls go to the worker thread and on to the server, signals come back;  *)
(* module GuiSession has the details of connecting.  Here the worker       *)
(* either has a connection or not, and what is written to a broken one is  *)
(* lost until that is noticed.  Texts are left out: a message is its id,   *)
(* a search either is on or not, an unread count is zero or not, and sent  *)
(* stands for the states sent and delivered.                               *)
(***************************************************************************)
EXTENDS Naturals, Sequences, FiniteSets, Functions

CONSTANTS Rooms, Peers, Lobby,
          Messages,     \* message ids
          Mine,         \* the ones the user writes
          Home,         \* the conversation each is written in
          Matching,     \* the ones a search finds
          None,         \* no message id, no model
          MaxModels,    \* kMaxCachedConversationModels, 8 in the code
          MaxRows,      \* kMaxRowsPerModel, 1000 in the code
          MaxCommands,  \* bound on commands of the user
          MaxNews,      \* bound on lists and system messages from the server
          MaxBreaks,    \* bound on broken connections
          MaxUnderWay   \* bound on calls and signals under way when someone does something

Keys == Rooms \cup Peers

ASSUME ConversationsAssumption ==
    /\ Lobby \in Rooms
    /\ Rooms \cap Peers = {}
    /\ Mine \cup Matching \subseteq Messages
    /\ Home \in [Messages -> Keys]
    /\ None \notin Messages \cup Keys /\ Keys \cap {"lists", "page"} = {}
    /\ MaxModels \in Nat \ {0, 1}
    /\ MaxRows \in Nat \ {0}
    /\ {MaxCommands, MaxNews, MaxBreaks, MaxUnderWay} \subseteq Nat

VARIABLES c,         \* the controller
          b,         \* the bridge
          calls,     \* slot calls on their way to the worker
          signals,   \* signals on their way to the controller
          link,      \* the worker's connection and explicitDisconnect_, the user's channel at
                     \* the server, and the messages that were lost with a connection
          log,       \* the server's history: message and conversation, oldest first
          recalled,  \* messages the server has recalled
          written,   \* messages the user has written
          spent      \* commands, news and broken connections so far

vars == <<c, b, calls, signals, link, log, recalled, written, spent>>

Row == [id : Messages \cup {None}, state : {"queued", "sent", "failed", "none"}]
Entry == [id : Messages, key : Keys]

\* the calls that write to the connection
Requests == {"send", "join", "history", "recall"}

Call(type, id, key, search) == [type |-> type, id |-> id, key |-> key, search |-> search]
Signal(type, id, key, state) ==
    [type |-> type, id |-> id, key |-> key, state |-> state, search |-> FALSE, page |-> <<>>]

TypeOK ==
    /\ DOMAIN c.models \subseteq Keys
    /\ \A k \in DOMAIN c.models : c.models[k] \in Seq(Row) /\ Len(c.models[k]) <= MaxRows
    /\ Range(c.used) = DOMAIN c.models /\ IsInjective(c.used)
    /\ c.active \in Keys /\ c.shown \in Keys \cup {None}
    /\ c.unread \subseteq c.listed /\ c.listed \subseteq Keys
    /\ {c.connected, c.reconnecting, c.loading, c.searching} \subseteq BOOLEAN
    /\ c.joined \in Rooms
    /\ b.watched \cup b.dirty \cup b.fresh \subseteq Keys \cup {"lists", "page"}
    /\ link \in [state : {"up", "down"}, room : Rooms, explicit : BOOLEAN, lost : SUBSET Messages]
    /\ log \in Seq(Entry)

Init ==
    /\ c = [connected |-> FALSE, reconnecting |-> FALSE, loading |-> FALSE, searching |-> FALSE,
            joined |-> Lobby, active |-> Lobby, shown |-> Lobby, models |-> [k \in {Lobby} |-> <<>>],
            used |-> <<Lobby>>, listed |-> {}, unread |-> {}]
    /\ b = [watched |-> {"lists", Lobby}, dirty |-> {}, timer |-> FALSE,
            fresh |-> {"lists", "page", Lobby}, pending |-> {}]
    /\ calls = <<>>
    /\ signals = <<>>
    /\ link = [state |-> "down", room |-> Lobby, explicit |-> FALSE, lost |-> {}]
    /\ log = <<>>
    /\ recalled = {}
    /\ written = {}
    /\ spent = [commands |-> 0, news |-> 0, breaks |-> 0]

\* The elements of q that are in S, in their order.
Keep(q, S) ==
    LET kept[i \in 0 .. Len(q)] ==
          IF i = 0 THEN <<>>
          ELSE IF q[i] \in S THEN Append(kept[i - 1], q[i]) ELSE kept[i - 1]
    IN  kept[Len(q)]

(***************************************************************************)
(* ChatListModel                                                           *)
(***************************************************************************)

HasRow(rows, id) == \E i \in DOMAIN rows : rows[i].id = id

\* appendRows: a message that has a row updates it; the oldest row makes room.
AppendRow(rows, row) ==
    IF row.id # None /\ HasRow(rows, row.id)
      THEN [i \in DOMAIN rows |-> IF rows[i].id = row.id THEN row ELSE rows[i]]
      ELSE LET all == Append(rows, row)
           IN  IF Len(all) > MaxRows THEN Tail(all) ELSE all

\* prependRows: the newest rows make room.
PrependRows(rows, page) ==
    LET incoming == SubSeq(page, IF Len(page) > MaxRows THEN Len(page) - MaxRows + 1 ELSE 1, Len(page))
        all == incoming \o rows
    IN  SubSeq(all, 1, IF Len(all) > MaxRows THEN MaxRows ELSE Len(all))

\* updateRow and removeRowsByValue, as the controller calls them: in every
\* cached model
UpdateRow(row, id, state) == IF row.id = id THEN [id |-> id, state |-> state] ELSE row

UpdateRows(d, id, state) ==
    [d EXCEPT !.models = [k \in DOMAIN d.models |->
        [i \in DOMAIN d.models[k] |-> UpdateRow(d.models[k][i], id, state)]]]

RemoveRows(d, id) ==
    [d EXCEPT !.models = [k \in DOMAIN d.models |-> Keep(d.models[k], {row \in Row : row.id # id})]]

(***************************************************************************)
(* The controller's conversations.  d is the controller within a handler.  *)
(***************************************************************************)

\* variant of Protected: only the model that was just made is safe
NewestOnly(d, k) == {k}

Protected(d, k) == {d.active, k}

\* trimConversationModelCache: one model more than allowed deletes the least
\* recently used one.  A pointer to it is left behind.
Trim(d, k) ==
    LET old == Keep(d.used, Keys \ Protected(d, k))
        gone == Head(old)
    IN  IF Cardinality(DOMAIN d.models) <= MaxModels \/ old = <<>>
          THEN d
          ELSE [d EXCEPT !.models = [x \in DOMAIN d.models \ {gone} |-> d.models[x]],
                         !.used = Keep(d.used, Keys \ {gone}),
                         !.shown = IF d.shown = gone THEN None ELSE d.shown]

\* ensureConversationModel
Ensure(d, k) ==
    LET used == Append(Keep(d.used, Keys \ {k}), k)
        models == [x \in DOMAIN d.models \cup {k} |-> IF x = k THEN <<>> ELSE d.models[x]]
    IN  IF k \in DOMAIN d.models
          THEN [d EXCEPT !.used = used]
          ELSE Trim([d EXCEPT !.used = used, !.models = models], k)

AppendTo(d, k, row) ==
    LET e == Ensure(d, k) IN [e EXCEPT !.models[k] = AppendRow(e.models[k], row)]

\* appendSystemMessage writes through messageModel_.
AppendSystemMessage(d) ==
    [d EXCEPT !.models[d.shown] = AppendRow(d.models[d.shown], [id |-> None, state |-> "none"])]

\* incrementUnreadForConversation: a peer that is not listed is added.
IncrementUnread(d, k) ==
    IF k \in Rooms
      THEN [d EXCEPT !.unread = IF k \in d.listed THEN @ \cup {k} ELSE @]
      ELSE [d EXCEPT !.listed = @ \cup {k}, !.unread = @ \cup {k}]

\* requestActiveHistory, in two parts: what the controller remembers, and the
\* call it makes
MayRequest(d) == d.connected /\ ~d.loading
Requested(d) == [d EXCEPT !.loading = @ \/ MayRequest(d)]
RequestCalls(d, search) ==
    IF MayRequest(d) THEN <<Call("history", None, d.active, search)>> ELSE <<>>

\* The conversation is made the active one.
Open(d, k) ==
    [Ensure(d, k) EXCEPT !.searching = FALSE, !.shown = k, !.active = k, !.unread = @ \ {k}]

(***************************************************************************)
(* ChatBridge                                                              *)
(***************************************************************************)

\* variant of MarkDirty: a model that is connected is serialized at its next
\* change
MarkLater(new) == {}

\* connectModel marks a model it sees for the first time.
MarkDirty(new) == new

Fields(d) == [d EXCEPT !.models = <<>>, !.used = <<>>, !.listed = {}, !.unread = {}, !.loading = FALSE,
                       !.searching = FALSE, !.joined = Lobby]

\* The bridge after a handler took the controller from c to d.  Models that
\* changed signal it, deleted ones are forgotten; activeMessageModelChanged
\* (opened) connects the model that is shown now.  Signals of a row that is
\* updated to what it was are left out.
After(d, opened) ==
    LET kept == DOMAIN c.models \cap DOMAIN d.models
        gone == DOMAIN c.models \ DOMAIN d.models
        lists == IF <<c.listed, c.unread>> # <<d.listed, d.unread>> THEN {"lists"} ELSE {}
        changed == {k \in kept : c.models[k] # d.models[k]} \cup lists
        page == IF Fields(c) # Fields(d) THEN {"page"} ELSE {}
        new == IF opened THEN {d.shown} \ (b.watched \ gone) ELSE {}
    IN  [b EXCEPT !.watched = (@ \ gone) \cup new,
                  !.dirty = (@ \ gone) \cup (changed \cap b.watched) \cup MarkDirty(new),
                  !.timer = @ \/ opened \/ (changed \cap b.watched) \cup page # {},
                  !.fresh = @ \ (gone \cup changed \cup page)]

\* The timer fires: dirty models are serialized and the snapshot is published.
PublishState ==
    /\ b.timer
    /\ b' = [b EXCEPT !.timer = FALSE, !.dirty = {}, !.fresh = @ \cup b.dirty \cup {"page"}]
    /\ UNCHANGED <<c, calls, signals, link, log, recalled, written, spent>>

(***************************************************************************)
(* Commands of the user                                                    *)
(***************************************************************************)

\* A handler takes the controller to d and makes the calls out.
Becomes(d, opened, out) ==
    /\ c' = d
    /\ b' = After(d, opened)
    /\ calls' = calls \o out

Commands ==
    /\ Len(calls) + Len(signals) < MaxUnderWay
    /\ spent.commands < MaxCommands
    /\ spent' = [spent EXCEPT !.commands = @ + 1]

Does(d, opened, out) ==
    /\ Commands
    /\ Becomes(d, opened, out)
    /\ UNCHANGED <<signals, link, log, recalled>>

ConnectToServer ==
    /\ ~c.connected /\ ~c.reconnecting /\ calls = <<>> /\ signals = <<>>
    /\ Does(c, FALSE, <<Call("connect", None, None, FALSE)>>)
    /\ UNCHANGED written

DisconnectFromServer ==
    /\ c.connected
    /\ Does([c EXCEPT !.connected = FALSE], FALSE, <<Call("disconnect", None, None, FALSE)>>)
    /\ UNCHANGED written

\* The controller remembers the channel it joined last, not where the server
\* has put the user.
SelectRoom(r) ==
    LET d == Open(c, r)
        join == IF c.connected /\ c.joined # r THEN <<Call("join", None, r, FALSE)>> ELSE <<>>
    IN  /\ Does([Requested(d) EXCEPT !.joined = IF c.connected THEN r ELSE @, !.reconnecting = FALSE],
                TRUE, join \o RequestCalls(d, FALSE))
        /\ UNCHANGED written

SelectDirectMessage(p) ==
    LET d == Open(c, p)
    IN  /\ Does(Requested(d), TRUE, RequestCalls(d, FALSE))
        /\ UNCHANGED written

OpenPrivateChat(p) ==
    LET d == Open([c EXCEPT !.listed = @ \cup {p}], p)
    IN  /\ Does(Requested(d), TRUE, RequestCalls(d, FALSE))
        /\ UNCHANGED written

SearchActiveHistory ==
    LET d == [c EXCEPT !.searching = TRUE]
    IN  /\ Does(Requested(d), FALSE, RequestCalls(d, TRUE))
        /\ UNCHANGED written

\* sendRoomMessage, sendPrivateMessage: the row is there before the message is
\* sent.
SendMessage(m) ==
    /\ m \in Mine \ written
    /\ written' = written \cup {m}
    /\ Does(AppendTo(c, Home[m], [id |-> m, state |-> "queued"]), FALSE, <<Call("send", m, Home[m], FALSE)>>)

\* The first model that has the message as failed says where to send it.
RetryMessage(m, k) ==
    /\ m \in Mine
    /\ k \in DOMAIN c.models
    /\ \E i \in DOMAIN c.models[k] : c.models[k][i] = [id |-> m, state |-> "failed"]
    /\ Len(calls) + Len(signals) < MaxUnderWay
    /\ Becomes([c EXCEPT !.models[k] = AppendRow(c.models[k], [id |-> m, state |-> "queued"])], FALSE,
               <<Call("send", m, k, FALSE)>>)
    /\ UNCHANGED <<signals, link, log, recalled, written, spent>>

\* The page offers this for messages that have a row.
RemoveLocalMessage(m) ==
    /\ \E k \in DOMAIN c.models : HasRow(c.models[k], m)
    /\ Does(RemoveRows(c, m), FALSE, <<>>)
    /\ UNCHANGED written

CanRecallMessage(m) == m \in Mine /\ \E k \in DOMAIN c.models : HasRow(c.models[k], m)

\* The command stays pending until the server answers.
RecallMessage(m) ==
    /\ CanRecallMessage(m)
    /\ m \notin b.pending
    /\ Commands
    /\ b' = [b EXCEPT !.pending = @ \cup {m}, !.timer = TRUE]
    /\ calls' = Append(calls, Call("recall", m, None, FALSE))
    /\ UNCHANGED <<c, signals, link, log, recalled, written>>

(***************************************************************************)
(* Signals to the controller                                               *)
(***************************************************************************)

Handles(type) ==
    /\ signals # <<>>
    /\ Head(signals).type = type
    /\ signals' = Tail(signals)
    /\ UNCHANGED <<link, log, recalled, written, spent>>

\* resetSessionData: rows are cleared, models stay cached.
ResetSessionData(d) ==
    LET cleared == [d EXCEPT !.models = [k \in DOMAIN d.models |-> <<>>], !.active = Lobby]
    IN  [Ensure(cleared, Lobby) EXCEPT !.listed = {Lobby}, !.unread = {}, !.joined = Lobby, !.shown = Lobby,
                                       !.loading = FALSE, !.searching = FALSE]

HandleConnected ==
    LET d == [(IF c.reconnecting THEN c ELSE ResetSessionData(c)) EXCEPT !.reconnecting = FALSE, !.connected = TRUE]
    IN  /\ Handles("connected")
        /\ Becomes(Requested(d), ~c.reconnecting, RequestCalls(d, FALSE))

HandleConnectionFailed ==
    /\ Handles("connectionFailed")
    /\ Becomes(AppendSystemMessage([c EXCEPT !.connected = FALSE]), FALSE, <<>>)

HandleConnectionLost ==
    /\ Handles("connectionLost")
    /\ Becomes([c EXCEPT !.connected = FALSE, !.reconnecting = TRUE], FALSE,
               <<Call("scheduleReconnect", None, None, FALSE)>>)

\* variant of IsActive: a row is unread in the active conversation as well
NeverActive(k) == FALSE

IsActive(k) == k = c.active

\* chat and private_chat: the row goes to its conversation, open or not.
HandleChat ==
    LET e == Head(signals)
        d == AppendTo(c, e.key, [id |-> e.id, state |-> e.state])
    IN  /\ Handles("chat")
        /\ Becomes(IF e.id \in Mine \/ IsActive(e.key) THEN d ELSE IncrementUnread(d, e.key), FALSE, <<>>)

\* delivery_receipt, messageDeliveryFailed and an error with a message id
HandleState ==
    /\ Handles("state")
    /\ Becomes(UpdateRows(c, Head(signals).id, Head(signals).state), FALSE, <<>>)

\* completeRecallCommand
Completed(e) == [e EXCEPT !.pending = @ \ {Head(signals).id}]

\* message_recalled
HandleRecalled ==
    LET d == RemoveRows(c, Head(signals).id)
    IN  /\ Handles("recalled")
        /\ c' = d
        /\ b' = Completed(After(d, FALSE))
        /\ UNCHANGED calls

\* An error with a message and a command id: the recall failed, and the row of
\* the message is shown as failed.
HandleRecallRefused ==
    LET d == UpdateRows(c, Head(signals).id, "failed")
    IN  /\ Handles("recallRefused")
        /\ c' = d
        /\ b' = Completed(After(d, FALSE))
        /\ UNCHANGED calls

\* variant of NewRows: rows that are there already come again
AllRows(page) == [i \in DOMAIN page |-> [id |-> page[i], state |-> "sent"]]

\* Messages of a page that have no row yet.
NewRows(page) ==
    LET ids == Keep(page, {id \in Messages : ~HasRow(c.models[c.shown], id)})
    IN  [i \in DOMAIN ids |-> [id |-> ids[i], state |-> "sent"]]

\* A page of another conversation is dropped, one of another search makes the
\* controller ask again.
HandleHistory ==
    LET e == Head(signals)
        d == [c EXCEPT !.loading = FALSE]
    IN  /\ Handles("history")
        /\ \/ /\ e.key # c.active
              /\ Becomes(d, FALSE, <<>>)
           \/ /\ e.key = c.active /\ e.search # c.searching
              /\ Becomes(Requested(d), FALSE, RequestCalls(d, c.searching))
           \/ /\ e.key = c.active /\ e.search = c.searching
              /\ Becomes([d EXCEPT !.models[c.shown] = PrependRows(c.models[c.shown], NewRows(e.page))],
                         FALSE, <<>>)

(***************************************************************************)
(* Messages that may come at any time while there is a connection          *)
(***************************************************************************)

Comes(d) ==
    /\ link.state = "up" /\ c.connected
    /\ spent.news < MaxNews
    /\ spent' = [spent EXCEPT !.news = @ + 1]
    /\ c' = d
    /\ b' = After(d, FALSE)
    /\ UNCHANGED <<calls, signals, link, log, recalled, written>>

\* users_response: the list of peers is replaced by who is online; the counts of
\* the others are lost.
HandleUsersResponse ==
    \E online \in SUBSET Peers :
        LET listed == (c.listed \cap Rooms) \cup online
        IN  Comes([c EXCEPT !.listed = listed, !.unread = @ \cap listed])

\* rooms_response
HandleRoomsResponse == Comes([c EXCEPT !.listed = @ \cup Rooms])

\* A system message of the user's channel.
HandleSystem == Comes(AppendTo(c, link.room, [id |-> None, state |-> "none"]))

(***************************************************************************)
(* The worker, the connection and the server                               *)
(***************************************************************************)

Takes(type) ==
    /\ calls # <<>>
    /\ Head(calls).type = type
    /\ calls' = Tail(calls)
    /\ UNCHANGED <<c, b, written>>

Posted(m) == \E i \in DOMAIN log : log[i].id = m

\* The page the server returns: messages of the conversation, oldest first,
\* recalled ones included.
HistoryPage(key, search) ==
    LET entries == Keep(log, {e \in Entry : e.key = key /\ (search => e.id \in Matching)})
    IN  [i \in DOMAIN entries |-> entries[i].id]

\* A new connection; the server puts the user into the lobby.  After the user
\* has disconnected scheduleReconnect does nothing.
Connects ==
    /\ Takes("connect") \/ (Takes("scheduleReconnect") /\ ~link.explicit)
    /\ link' = [link EXCEPT !.state = "up", !.room = Lobby, !.explicit = FALSE]
    /\ signals' = Append(signals, Signal("connected", None, None, "none"))
    /\ UNCHANGED <<log, recalled, spent>>

StaysDisconnected ==
    /\ Takes("scheduleReconnect")
    /\ link.explicit
    /\ UNCHANGED <<signals, link, log, recalled, spent>>

ConnectFails ==
    /\ Takes("connect")
    /\ link' = [link EXCEPT !.state = "down", !.explicit = FALSE]
    /\ signals' = Append(signals, Signal("connectionFailed", None, None, "none"))
    /\ UNCHANGED <<log, recalled, spent>>

Disconnects ==
    /\ Takes("disconnect")
    /\ link' = [link EXCEPT !.state = "down", !.explicit = TRUE]
    /\ UNCHANGED <<signals, log, recalled, spent>>

\* variant of NotReady: all calls are dropped in silence
Silently(call) == <<>>

\* What the worker signals for a call that finds no connection: only a message
\* is reported as failed.
NotReady(call) == IF call.type = "send" THEN <<Signal("state", call.id, None, "failed")>> ELSE <<>>

DropCall ==
    /\ \E type \in Requests : Takes(type)
    /\ link.state = "down"
    /\ signals' = signals \o NotReady(Head(calls))
    /\ UNCHANGED <<link, log, recalled, spent>>

\* The server takes a channel message for the channel the user is in, whatever
\* channel it names; it knows messages by their ids.
ServeSend ==
    LET m == Head(calls).id
        key == IF Head(calls).key \in Rooms THEN link.room ELSE Head(calls).key
    IN  /\ Takes("send")
        /\ link.state = "up"
        /\ signals' = signals \o (IF Posted(m) THEN <<>> ELSE <<Signal("chat", m, key, "sent")>>)
                              \o <<Signal("state", m, None, "sent")>>
        /\ log' = IF Posted(m) THEN log ELSE Append(log, [id |-> m, key |-> key])
        /\ UNCHANGED <<link, recalled, spent>>

\* muted, or too many messages
RefuseSend ==
    /\ Takes("send")
    /\ link.state = "up"
    /\ signals' = Append(signals, Signal("state", Head(calls).id, None, "failed"))
    /\ UNCHANGED <<link, log, recalled, spent>>

ServeJoin ==
    /\ Takes("join")
    /\ link.state = "up"
    /\ link' = [link EXCEPT !.room = Head(calls).key]
    /\ UNCHANGED <<signals, log, recalled, spent>>

ServeHistory ==
    LET call == Head(calls)
    IN  /\ Takes("history")
        /\ link.state = "up"
        /\ signals' = Append(signals, [type |-> "history", id |-> None, key |-> call.key, state |-> "none",
                                       search |-> call.search, page |-> HistoryPage(call.key, call.search)])
        /\ UNCHANGED <<link, log, recalled, spent>>

\* The server refuses a channel or a page of history.  The error it sends has
\* no id, so it only changes the status text, and historyLoading_ stays set.
RefuseRequest ==
    /\ \E type \in {"join", "history"} : Takes(type)
    /\ link.state = "up"
    /\ UNCHANGED <<signals, link, log, recalled, spent>>

ServeRecall ==
    LET m == Head(calls).id
        may == Posted(m) /\ m \notin recalled
    IN  /\ Takes("recall")
        /\ link.state = "up"
        /\ recalled' = IF may THEN recalled \cup {m} ELSE recalled
        /\ signals' = Append(signals, Signal(IF may THEN "recalled" ELSE "recallRefused", m, None, "none"))
        /\ UNCHANGED <<link, log, spent>>

\* A message of another user reaches the client if it is in the channel, or the
\* peer of the private message.
PeerPosts(m) ==
    /\ m \notin Mine
    /\ ~Posted(m)
    /\ Len(calls) + Len(signals) < MaxUnderWay
    /\ log' = Append(log, [id |-> m, key |-> Home[m]])
    /\ signals' = IF link.state = "up" /\ Home[m] \in Peers \cup {link.room}
                    THEN Append(signals, Signal("chat", m, Home[m], "sent"))
                    ELSE signals
    /\ UNCHANGED <<c, b, calls, link, recalled, written, spent>>

\* The connection breaks and the receive thread reports it.  What was written
\* until then is lost: the first n of the calls under way.
Break ==
    /\ link.state = "up"
    /\ spent.breaks < MaxBreaks
    /\ spent' = [spent EXCEPT !.breaks = @ + 1]
    /\ \E n \in 0 .. Len(calls) :
          /\ \A i \in 1 .. n : calls[i].type \in Requests
          /\ calls' = SubSeq(calls, n + 1, Len(calls))
          /\ link' = [link EXCEPT !.state = "down", !.lost = @ \cup ({calls[i].id : i \in 1 .. n} \ {None})]
    /\ signals' = Append(signals, Signal("connectionLost", None, None, "none"))
    /\ UNCHANGED <<c, b, log, recalled, written>>

User ==
    \/ ConnectToServer \/ DisconnectFromServer \/ SearchActiveHistory
    \/ \E r \in Rooms : SelectRoom(r)
    \/ \E p \in Peers : SelectDirectMessage(p) \/ OpenPrivateChat(p)
    \/ \E m \in Messages : \/ SendMessage(m) \/ RemoveLocalMessage(m) \/ RecallMessage(m)
                           \/ \E k \in Keys : RetryMessage(m, k)

Controller ==
    \/ HandleConnected \/ HandleConnectionFailed \/ HandleConnectionLost
    \/ HandleChat \/ HandleState \/ HandleRecalled \/ HandleRecallRefused \/ HandleHistory
    \/ HandleUsersResponse \/ HandleRoomsResponse \/ HandleSystem

WorkerAndServer ==
    \/ Connects \/ StaysDisconnected \/ ConnectFails \/ Disconnects \/ DropCall
    \/ ServeSend \/ RefuseSend \/ ServeJoin \/ ServeHistory \/ RefuseRequest \/ ServeRecall

Network == Break \/ \E m \in Messages : PeerPosts(m)

Next == User \/ Controller \/ PublishState \/ WorkerAndServer \/ Network

Spec == Init /\ [][Next]_vars

(***************************************************************************)
(* Properties                                                              *)
(***************************************************************************)

\* messageModel_ always points to the cached model of the active conversation:
\* messages for other conversations fill the cache and delete models, but never
\* the one that is shown, and the cache stays within its limit.
ActiveIsCached ==
    /\ c.shown = c.active
    /\ c.active \in DOMAIN c.models
    /\ Cardinality(DOMAIN c.models) <= MaxModels

\* A message has one row in a conversation, although it may come from the user,
\* the server's echo, a page of history and a retry, in any order.
UniqueRows ==
    \A k \in DOMAIN c.models : \A i, j \in DOMAIN c.models[k] :
        (c.models[k][i].id = c.models[k][j].id /\ c.models[k][i].id # None) => i = j

\* What the page shows is what the controller has, unless a snapshot is about
\* to be published: no change is left unpublished, in particular none to a
\* model that was deleted and made again, or changed before it was shown.
FreshSnapshot == ~b.timer => {"page", "lists", c.active} \subseteq b.fresh

\* The active conversation has no unread messages, however lists, signals and
\* selections interleave.
ActiveIsRead == c.active \notin c.unread

\* A message whose row says that it is queued is under way, or was written to a
\* connection that then broke: disconnecting, refusals, retries and other
\* channels never leave a row that waits for nothing.
QueuedIsUnderWay ==
    \A k \in DOMAIN c.models : \A i \in DOMAIN c.models[k] :
        LET row == c.models[k][i]
        IN  row.state = "queued" => \/ row.id \in link.lost
                                    \/ \E j \in DOMAIN calls : calls[j].type = "send" /\ calls[j].id = row.id
                                    \/ \E j \in DOMAIN signals : signals[j].type = "state" /\ signals[j].id = row.id
=============================================================================
