------------------------------ MODULE Delivery ------------------------------
(***************************************************************************)
(* What becomes of a message: broadcastMessage, handlePrivateMessage and   *)
(* the recall branch of handleAdminAction (server-go/hub.go), the tables   *)
(* chat_messages and offline_messages (server-go/auth_store.go) and the    *)
(* push of offline messages after a login (server-go/client.go).           *)
(*                                                                         *)
(* All users are in one channel, Room.  A user has at most one session     *)
(* (module Hub); a step names the sessions whose Send buffer turns out to  *)
(* be full, which deliver() ends.  Echoes, receipts and recall notices     *)
(* leave no trace here; a buffer that one of them fills is a Disconnect.   *)
(*                                                                         *)
(* Graphical clients give their messages an ID of their own and send one   *)
(* again, with the same ID, when they have seen no receipt.  The console   *)
(* client sends none; the Hub then counts, from 1 in every life of the     *)
(* server.  A definition marked variant is the one after it with a         *)
(* plausible mistake in it, which a property must notice.                  *)
(***************************************************************************)
EXTENDS Integers, FiniteSets, Functions

CONSTANTS
    Users,       \* normalized user codes
    Console,     \* those who use the console client
    ConsoleTo,   \* whom they write to
    Admin,       \* the administrator's
    Room,        \* the channel, as the addressee of a chat message
    Supplied,    \* message IDs that clients supply
    From, To,    \* From[id], To[id]: the message that a supplied ID is for
    MaxGen,      \* bound on the IDs the Hub generates in one life
    MaxRestarts, \* bound on the restarts of the server
    OfflineCap,  \* maxOfflineMessagesPerUser
    HistoryCap,  \* maxHistoryRowsPerConversation
    None

ASSUME DeliveryAssumption ==
    /\ Room \notin Users /\ Console \subseteq Users
    /\ ConsoleTo \subseteq Users \cup {Room}
    /\ From \in [Supplied -> Users] /\ To \in [Supplied -> Users \cup {Room}]
    /\ \A id \in Supplied : From[id] # To[id]
    /\ MaxGen \in Nat /\ MaxRestarts \in Nat
    /\ OfflineCap \in Nat \ {0} /\ HistoryCap \in Nat \ {0}
    /\ Supplied \cap (1..MaxGen) = {} /\ None \notin Supplied \cup (1..MaxGen)

VARIABLES
    accounts,    \* codes with a row in accounts
    session,     \* session[u]: "off", "new" (registered, its handler has not
                 \* yet asked for offline messages) or "on"
    old,         \* users with a handler in state "new" whose session has ended
    taken,       \* taken[u]: offline messages u's handler has still to push
    rows,        \* chat_messages by id
    offline,     \* offline_messages by id
    records,     \* Hub.MessageRecords
    nextID,      \* Hub.NextMessageID
    got,         \* got[u]: the messages put into the Send buffer of u
    again,       \* those that were put into it more than once
    tried,       \* the supplied IDs that were sent at least once
    restarts     \* the number of restarts

memory == <<session, old, taken, records, nextID>>
database == <<accounts, rows, offline>>
ghosts == <<got, again, tried>>
vars == <<memory, database, ghosts, restarts>>

IDs == Supplied \cup (1..MaxGen)
Message == [id : IDs, from : Users, to : Users \cup {Room}]
Row == [msg : Message, state : {"sent", "delivered"}, recalled : BOOLEAN]
Record == [author : Users, offlineID : IDs \cup {None}, recalled : BOOLEAN]
NoRecord == [author |-> None, offlineID |-> None, recalled |-> FALSE]

\* A table is a function on the ids of its rows.  A new row has the next id
\* after the others; that AUTOINCREMENT also skips the ids of deleted rows
\* does not change the order.
IsTable(q, S) == DOMAIN q \subseteq Nat /\ q \in [DOMAIN q -> S]
Empty == [i \in {} |-> None]
NextRow(q) == {k \in {1} \cup {i + 1 : i \in DOMAIN q} : \A i \in DOMAIN q : i < k}
Insert(q, k, x) == [i \in DOMAIN q \cup {k} |-> IF i = k THEN x ELSE q[i]]
Delete(q, which) == Restrict(q, DOMAIN q \ which)

Init ==
    /\ accounts = {}
    /\ session = [u \in Users |-> "off"]
    /\ old = {}
    /\ taken = [u \in Users |-> Empty]
    /\ rows = Empty
    /\ offline = Empty
    /\ records = [id \in IDs |-> NoRecord]
    /\ nextID = 0
    /\ got = [u \in Users |-> {}]
    /\ again = [u \in Users |-> {}]
    /\ tried = {}
    /\ restarts = 0

Online == {u \in Users : session[u] # "off"}

-----------------------------------------------------------------------------
(* The tables.                                                             *)

\* conversation_key
Conversation(m) == IF m.to = Room THEN {Room} ELSE {m.from, m.to}

Stored(m) == {i \in DOMAIN rows : rows[i].msg = m}

AlwaysNew(m) == TRUE                                      \* variant
\* INSERT OR IGNORE inserts: (sender_code, conversation_key, message_id) is new.
IsNew(m) == Stored(m) = {}

\* The rows in which that are not among its cap newest ones.
Oldest(which, cap) == {i \in which : Cardinality({j \in which : j > i}) >= cap}

\* SaveChatMessageIfNew and UpdateChatMessageDeliveryStateForMessage.
SaveChatMessage(m, state) ==
    \E k \in NextRow(rows) :
        LET q == Insert(rows, k, [msg |-> m, state |-> state, recalled |-> FALSE])
            same == {i \in DOMAIN q : Conversation(q[i].msg) = Conversation(m)}
        IN  rows' = Delete(q, Oldest(same, HistoryCap))

For(u) == {i \in DOMAIN offline : offline[i].to = u}
Queue(u) == Restrict(offline, For(u))

SaveOfflineMessage(m) ==
    \E k \in NextRow(offline) :
        LET q == Insert(offline, k, m)
        IN  offline' = Delete(q, Oldest({i \in DOMAIN q : q[i].to = m.to}, OfflineCap))

\* The unique index on offline_messages(message_id).
InQueue(id) == \E i \in DOMAIN offline : offline[i].id = id

WithoutTarget(u) == Delete(offline, For(u))
WithoutID(id) == Delete(offline, {i \in DOMAIN offline : offline[i].id = id})

-----------------------------------------------------------------------------
(* Sessions.                                                               *)

\* A handler that had not asked for offline messages yet goes on to do so.
Ended(S) == old \cup {u \in S : session[u] = "new"}

Login(u) ==
    /\ accounts' = accounts \cup {u}
    /\ session' = [session EXCEPT ![u] = "new"]
    /\ old' = Ended({u})
    /\ taken' = [taken EXCEPT ![u] = Empty]
    /\ UNCHANGED <<rows, offline, records, nextID, ghosts, restarts>>

\* Whatever ends a session; sent: its handler is past the login_ok message, so
\* that it does ask for offline messages.
Disconnect(u, sent) ==
    /\ u \in Online
    /\ session' = [session EXCEPT ![u] = "off"]
    /\ old' = IF sent THEN Ended({u}) ELSE old
    /\ taken' = [taken EXCEPT ![u] = Empty]
    /\ UNCHANGED <<database, records, nextID, ghosts, restarts>>

\* One transaction: the rows are read and deleted.
TakeOfflineMessages(u) ==
    /\ session[u] = "new"
    /\ taken' = [taken EXCEPT ![u] = Queue(u)]
    /\ offline' = WithoutTarget(u)
    /\ session' = [session EXCEPT ![u] = "on"]
    /\ UNCHANGED <<accounts, rows, old, records, nextID, ghosts, restarts>>

\* The handler of an ended session does the same; its Send channel is closed,
\* the push panics into the deferred recover.
OldHandlerTakes(u) ==
    /\ u \in old
    /\ old' = old \ {u}
    /\ offline' = WithoutTarget(u)
    /\ UNCHANGED <<session, taken, records, nextID, accounts, rows, ghosts, restarts>>

Got(S, m) ==
    /\ got' = [u \in Users |-> IF u \in S THEN got[u] \cup {m} ELSE got[u]]
    /\ again' = [u \in Users |->
                   IF u \in S /\ m \in got[u] THEN again[u] \cup {m} ELSE again[u]]

\* client.Send <- offlineMessage
PushOffline(u) ==
    /\ \E i \in DOMAIN taken[u] :
        /\ \A j \in DOMAIN taken[u] : i <= j
        /\ Got({u}, taken[u][i])
        /\ taken' = [taken EXCEPT ![u] = Delete(@, {i})]
    /\ UNCHANGED <<session, old, records, nextID, database, tried, restarts>>

-----------------------------------------------------------------------------
(* Messages.                                                               *)

\* deliver() to the users in S, those in slow being removed.
Deliver(S, slow, m) ==
    /\ Got(S \ slow, m)
    /\ session' = [u \in Users |-> IF u \in S \cap slow THEN "off" ELSE session[u]]
    /\ old' = Ended(S \cap slow)
    /\ taken' = [u \in Users |-> IF u \in S \cap slow THEN Empty ELSE taken[u]]

RecordMessage(m, offlineID) ==
    records' = [records EXCEPT ![m.id] =
                  [author |-> m.from, offlineID |-> offlineID, recalled |-> FALSE]]

\* A duplicate: nothing but, for a supplied ID, the stored receipt.
Duplicate(m) ==
    /\ ~IsNew(m)
    /\ UNCHANGED <<session, old, taken, records, database, got, again>>

Optimistic(m, reached) == "delivered"                     \* variant
\* deliveredToPeer.  The state of a chat message without ID stays "sent".
StateOf(m, reached) ==
    IF reached \ {m.from} # {} /\ (m.to = Room => m.id \in Supplied)
    THEN "delivered" ELSE "sent"

BroadcastMessage(m, slow) ==
    /\ m.to = Room
    /\ \/ Duplicate(m)
       \/ /\ IsNew(m)
          /\ Deliver(Online, slow, m)
          /\ SaveChatMessage(m, StateOf(m, Online \ slow))
          /\ RecordMessage(m, None)
          /\ UNCHANGED <<accounts, offline>>

\* The target is online: the sender's echo, then the target.  When the echo
\* finds the sender's buffer full the handler returns before it delivers.
PrivateToOnline(m, slow) ==
    /\ m.to \in Online
    /\ LET reached == IF m.from \in slow THEN {} ELSE {m.to} \ slow
       IN  /\ SaveChatMessage(m, StateOf(m, reached))
           /\ IF m.from \in slow THEN Deliver({m.from}, slow, m)
              ELSE Deliver({m.to}, slow, m)
    /\ RecordMessage(m, None)
    /\ UNCHANGED <<accounts, offline>>

\* The message is queued unless another one with its ID is.
PrivateToOffline(m) ==
    /\ m.to \in accounts \ Online
    /\ SaveChatMessage(m, "sent")
    /\ RecordMessage(m, m.id)
    /\ IF InQueue(m.id) THEN UNCHANGED offline ELSE SaveOfflineMessage(m)
    /\ UNCHANGED <<accounts, session, old, taken, got, again>>

\* "Target user not found", after the message was saved.
PrivateToNobody(m) ==
    /\ m.to \notin accounts \cup Online
    /\ SaveChatMessage(m, "sent")
    /\ UNCHANGED <<accounts, offline, session, old, taken, records, got, again>>

HandlePrivateMessage(m, slow) ==
    /\ m.to # Room /\ m.to # m.from
    /\ \/ Duplicate(m)
       \/ IsNew(m) /\ (PrivateToOnline(m, slow) \/ PrivateToOffline(m)
                         \/ PrivateToNobody(m))

Handle(m, slow) == BroadcastMessage(m, slow) \/ HandlePrivateMessage(m, slow)

\* (A chat message that was read before its session ended is refused for want
\* of a channel; it uses up a number and nothing else, and is left out.)

\* A message with an ID of its own, for the first time or again.  A client has
\* given up by the time HistoryCap later messages have displaced the row.
SendSupplied(id, slow) ==
    LET m == [id |-> id, from |-> From[id], to |-> To[id]]
    IN  /\ m.from \in Online
        /\ id \in tried => Stored(m) # {}
        /\ Handle(m, slow)
        /\ tried' = tried \cup {id}
        /\ UNCHANGED <<nextID, restarts>>

SendGenerated(from, to, slow) ==
    /\ from \in Online
    /\ nextID < MaxGen
    /\ nextID' = nextID + 1
    /\ Handle([id |-> nextID + 1, from |-> from, to |-> to], slow)
    /\ UNCHANGED <<tried, restarts>>

\* The record in memory, or else one made of the latest row with the ID, if any.
RecordsOf(id) ==
    LET with == {i \in DOMAIN rows : rows[i].msg.id = id}
        latest == {i \in with : \A j \in with : j <= i}
    IN  IF records[id] # NoRecord THEN {records[id]}
        ELSE {[NoRecord EXCEPT !.author = rows[i].msg.from] : i \in latest}

QueueKept(record) == offline                              \* variant
QueueAfterRecall(record) ==
    IF record.offlineID = None THEN offline ELSE WithoutID(record.offlineID)

MayRecall(u, record) == u = Admin \/ u = record.author

Recall(u, id) ==
    /\ u \in Online
    /\ \E record \in RecordsOf(id) :
        /\ ~record.recalled
        /\ MayRecall(u, record)
        /\ offline' = QueueAfterRecall(record)
        /\ records' = [records EXCEPT ![id] = [record EXCEPT !.recalled = TRUE]]
    /\ rows' = [i \in DOMAIN rows |->
                  IF rows[i].msg.id = id THEN [rows[i] EXCEPT !.recalled = TRUE]
                  ELSE rows[i]]
    /\ UNCHANGED <<accounts, session, old, taken, nextID, ghosts, restarts>>

-----------------------------------------------------------------------------
ForgetMemory ==
    /\ session' = [u \in Users |-> "off"]
    /\ old' = {}
    /\ taken' = [u \in Users |-> Empty]
    /\ records' = [id \in IDs |-> NoRecord]
    /\ nextID' = 0
    /\ restarts < MaxRestarts /\ restarts' = restarts + 1

Restart == ForgetMemory /\ UNCHANGED <<database, ghosts>>

\* The server dies after SaveChatMessageIfNew and before anything else.
SaveThenRestart(id) ==
    LET m == [id |-> id, from |-> From[id], to |-> To[id]]
    IN  /\ m.from \in Online /\ id \notin tried
        /\ IsNew(m)
        /\ SaveChatMessage(m, "sent")
        /\ tried' = tried \cup {id}
        /\ ForgetMemory
        /\ UNCHANGED <<accounts, offline, got, again>>

Next ==
    \/ \E u \in Users :
        \/ Login(u) \/ TakeOfflineMessages(u) \/ OldHandlerTakes(u) \/ PushOffline(u)
        \/ \E sent \in BOOLEAN : Disconnect(u, sent)
        \/ \E id \in IDs : Recall(u, id)
    \/ \E slow \in SUBSET Online :
        \/ \E id \in Supplied : SendSupplied(id, slow)
        \/ \E from \in Console, to \in ConsoleTo : SendGenerated(from, to, slow)
    \/ \E id \in Supplied : SaveThenRestart(id)
    \/ Restart

Spec == Init /\ [][Next]_vars

-----------------------------------------------------------------------------
(* Properties.                                                             *)

\* Every variable has its type.
TypeOK ==
    /\ accounts \subseteq Users /\ old \subseteq Users /\ tried \subseteq Supplied
    /\ session \in [Users -> {"off", "new", "on"}]
    /\ IsTable(rows, Row) /\ IsTable(offline, Message)
    /\ DOMAIN taken = Users /\ \A u \in Users : IsTable(taken[u], Message)
    /\ records \in [IDs -> Record \cup {NoRecord}]
    /\ nextID \in 0..MaxGen /\ restarts \in 0..MaxRestarts
    /\ got \in [Users -> SUBSET Message] /\ again \in [Users -> SUBSET Message]

\* A message with an ID of its own reaches a user at most once, directly or
\* from the offline queue, however often it is sent again and wherever the
\* server was restarted (SaveChatMessageIfNew, TakeOfflineMessages).
AtMostOnce == \A u \in Users : \A m \in again[u] : m.id \notin Supplied

\* "delivered" in the history, and so in every receipt, is true: the message
\* was put into the buffer of its target, or of somebody else in the channel
\* (broadcastMessage, handlePrivateMessage).
ReceiptIsTrue ==
    \A i \in DOMAIN rows :
        LET m == rows[i].msg
        IN  rows[i].state = "delivered" =>
              \E u \in Users \ {m.from} : m \in got[u] /\ m.to \in {u, Room}

\* A message with an ID of its own that is in the offline queue is one that its
\* target has not had, and its row, if it is still kept, says "sent"
\* (handlePrivateMessage, TakeOfflineMessages).
WaitingIsUndelivered ==
    \A i \in DOMAIN offline :
        LET m == offline[i]
        IN  m.id \in Supplied =>
              /\ m \notin got[m.to]
              /\ \A j \in Stored(m) : rows[j].state = "sent"

\* A message recalled in the life of the server that queued it no longer waits
\* for its target (TestHubRecordsOfflinePrivateMessageOwnerForRecall).
RecallReachesQueue ==
    \A id \in IDs :
        records[id].recalled /\ records[id].offlineID # None => ~InQueue(id)

=============================================================================
