--------------------------- MODULE DeliveryProofs ---------------------------
(***************************************************************************)
(* Proofs about module Delivery, for any users, message IDs and limits.    *)
(*                                                                         *)
(* A message with an ID of its own is in one place at a time: in the       *)
(* offline queue, with a handler that pushes it, or with its target.  What *)
(* makes that inductive is where such messages come from: everything that  *)
(* carries a supplied ID is the message of that ID, and the ID was tried.  *)
(***************************************************************************)
EXTENDS Delivery, TLAPS

\* The message that a supplied ID is for.
Mine(id) == [id |-> id, from |-> From[id], to |-> To[id]]

\* A message with a supplied ID is the one of that ID, which is in T.
Genuine(m, T) == m.id \in Supplied => m = Mine(m.id) /\ m.id \in T

\* Table q holds no message with a supplied ID twice.
Once(q) == \A i, j \in DOMAIN q : q[i].id \in Supplied /\ q[i] = q[j] => i = j

Origins ==
    /\ \A i \in DOMAIN rows : Genuine(rows[i].msg, tried)
    /\ \A i \in DOMAIN offline : Genuine(offline[i], tried) /\ offline[i].to \in Users
    /\ \A u \in Users : \A i \in DOMAIN taken[u] :
          Genuine(taken[u][i], tried) /\ taken[u][i].to = u
    /\ \A u \in Users : \A m \in got[u] : Genuine(m, tried)

OnePlace ==
    /\ Once(offline)
    /\ \A u \in Users : Once(taken[u])
    /\ \A u \in Users : \A i \in DOMAIN taken[u] : taken[u][i].id \in Supplied =>
          /\ taken[u][i] \notin got[u]
          /\ \A j \in DOMAIN offline : offline[j] # taken[u][i]

\* The ID under which a record finds its message in the queue is its own.
OwnIDs == \A id \in IDs : records[id].offlineID \in {None, id}

IInv ==
    /\ TypeOK
    /\ Origins
    /\ OnePlace
    /\ OwnIDs
    /\ AtMostOnce
    /\ ReceiptIsTrue
    /\ WaitingIsUndelivered
    /\ RecallReachesQueue

-----------------------------------------------------------------------------
(* The tables.                                                             *)

\* What a save of message m leaves of a table and adds to it.
Adds(q, p, x) ==
    \E k \in Nat : \A i \in DOMAIN p :
        \/ i = k /\ p[i] = x
        \/ i \in DOMAIN q /\ p[i] = q[i]

\* Trimming after an insertion leaves old rows and perhaps the new one.
LEMMA AddsLemma ==
  ASSUME NEW q, NEW S, NEW x \in S, NEW k \in NextRow(q), NEW w, IsTable(q, S)
  PROVE  /\ IsTable(Delete(Insert(q, k, x), w), S)
         /\ Adds(q, Delete(Insert(q, k, x), w), x)
  <1> DEFINE p == Insert(q, k, x)
             d == Delete(p, w)
  <1>1. k \in Nat /\ DOMAIN q \subseteq Nat /\ q \in [DOMAIN q -> S]
    BY DEF NextRow, IsTable
  <1>2. /\ DOMAIN p = DOMAIN q \cup {k}
        /\ p[k] = x
        /\ \A i \in DOMAIN q : i # k => p[i] = q[i]
    BY DEF Insert
  <1> HIDE DEF p
  <1>3. /\ d = [i \in DOMAIN p \ w |-> p[i]]
        /\ DOMAIN d \subseteq DOMAIN p
        /\ \A i \in DOMAIN d : d[i] = p[i]
    BY DEF Delete, Restrict
  <1> HIDE DEF d
  <1>4. \A i \in DOMAIN d : (i = k /\ d[i] = x) \/ (i \in DOMAIN q /\ d[i] = q[i])
    <2> SUFFICES ASSUME NEW i \in DOMAIN d
                 PROVE  (i = k /\ d[i] = x) \/ (i \in DOMAIN q /\ d[i] = q[i])
      OBVIOUS
    <2>1. i \in DOMAIN q \cup {k} /\ d[i] = p[i]
      BY <1>2, <1>3, Zenon
    <2>2. CASE i = k
      BY <1>2, <2>1, <2>2
    <2>3. CASE i # k
      BY <1>2, <2>1, <2>3
    <2> QED  BY <2>2, <2>3
  <1>5. \A i \in DOMAIN d : d[i] \in S
    BY <1>1, <1>4
  <1>6. IsTable(d, S)
    BY <1>1, <1>2, <1>3, <1>5 DEF IsTable
  <1> QED  BY <1>1, <1>4, <1>6 DEF d, p, Adds

NewRow(m, state) == [msg |-> m, state |-> state, recalled |-> FALSE]

\* SaveChatMessage keeps the table a table and adds the row of the message.
LEMMA SavedLemma ==
  ASSUME NEW m \in Message, NEW state \in {"sent", "delivered"},
         IsTable(rows, Row), SaveChatMessage(m, state)
  PROVE  IsTable(rows', Row) /\ Adds(rows, rows', NewRow(m, state))
  <1> DEFINE row == NewRow(m, state)
  <1>1. row \in Row
    BY DEF NewRow, Row
  <1>2. PICK k \in NextRow(rows) : \E w : rows' = Delete(Insert(rows, k, row), w)
    BY DEF SaveChatMessage, NewRow
  <1>3. PICK w : rows' = Delete(Insert(rows, k, row), w)
    BY <1>2
  <1> HIDE DEF row
  <1>4. IsTable(rows', Row) /\ Adds(rows, rows', row)
    BY <1>1, <1>3, AddsLemma
  <1> QED  BY <1>4 DEF row

\* SaveOfflineMessage does the same to the queue.
LEMMA QueuedLemma ==
  ASSUME NEW m \in Message, IsTable(offline, Message), SaveOfflineMessage(m)
  PROVE  IsTable(offline', Message) /\ Adds(offline, offline', m)
  <1>2. PICK k \in NextRow(offline) : \E w : offline' = Delete(Insert(offline, k, m), w)
    BY DEF SaveOfflineMessage
  <1>3. PICK w : offline' = Delete(Insert(offline, k, m), w)
    BY <1>2
  <1> QED  BY <1>3, AddsLemma

\* The ID that the server gives next is one of its own.
LEMMA NextIDLemma ==
  ASSUME TypeOK, nextID < MaxGen
  PROVE  nextID + 1 \in 1..MaxGen
  BY DeliveryAssumption DEF TypeOK

\* Part of a table: rows that stay as they are.
Part(q, p) == \A i \in DOMAIN p : i \in DOMAIN q /\ p[i] = q[i]

\* Queue, WithoutTarget and WithoutID give parts of the queue; what goes into
\* taken[u] is what leaves the queue.
LEMMA PartsLemma ==
  ASSUME IsTable(offline, Message)
  PROVE  /\ \A u : /\ IsTable(Queue(u), Message) /\ Part(offline, Queue(u))
                   /\ \A i \in DOMAIN Queue(u) : Queue(u)[i].to = u
                   /\ IsTable(WithoutTarget(u), Message)
                   /\ Part(offline, WithoutTarget(u))
                   /\ \A i \in DOMAIN WithoutTarget(u) : WithoutTarget(u)[i].to # u
         /\ \A id : /\ IsTable(WithoutID(id), Message) /\ Part(offline, WithoutID(id))
                    /\ \A i \in DOMAIN WithoutID(id) : WithoutID(id)[i].id # id
  <1>1. ASSUME NEW u
        PROVE  /\ IsTable(Queue(u), Message) /\ Part(offline, Queue(u))
               /\ \A i \in DOMAIN Queue(u) : Queue(u)[i].to = u
    BY DEF Queue, For, Restrict, IsTable, Part
  <1>2. ASSUME NEW u
        PROVE  /\ IsTable(WithoutTarget(u), Message) /\ Part(offline, WithoutTarget(u))
               /\ \A i \in DOMAIN WithoutTarget(u) : WithoutTarget(u)[i].to # u
    BY DEF WithoutTarget, Delete, For, Restrict, IsTable, Part
  <1>3. ASSUME NEW id
        PROVE  /\ IsTable(WithoutID(id), Message) /\ Part(offline, WithoutID(id))
               /\ \A i \in DOMAIN WithoutID(id) : WithoutID(id)[i].id # id
    BY DEF WithoutID, Delete, Restrict, IsTable, Part
  <1> QED  BY <1>1, <1>2, <1>3

\* The empty table.
LEMMA EmptyLemma ==
  /\ DOMAIN Empty = {}
  /\ \A S : IsTable(Empty, S)
  BY DEF Empty, IsTable

-----------------------------------------------------------------------------
(* Types.                                                                  *)

\* The types of what the handling of a message changes.
CoreType ==
    /\ accounts \subseteq Users /\ old \subseteq Users
    /\ session \in [Users -> {"off", "new", "on"}]
    /\ IsTable(rows, Row) /\ IsTable(offline, Message)
    /\ DOMAIN taken = Users /\ \A u \in Users : IsTable(taken[u], Message)
    /\ records \in [IDs -> Record \cup {NoRecord}]
    /\ got \in [Users -> SUBSET Message] /\ again \in [Users -> SUBSET Message]

\* deliver() keeps the types of the sessions and of the buffers.
LEMMA DeliverType ==
  ASSUME CoreType, NEW m \in Message, NEW S \in SUBSET Users, NEW slow, Deliver(S, slow, m)
  PROVE  /\ old' \subseteq Users
         /\ session' \in [Users -> {"off", "new", "on"}]
         /\ DOMAIN taken' = Users /\ \A u \in Users : IsTable(taken'[u], Message)
         /\ got' \in [Users -> SUBSET Message] /\ again' \in [Users -> SUBSET Message]
  <1>1. old' \subseteq Users
    BY DEF CoreType, Deliver, Ended
  <1>2. session' \in [Users -> {"off", "new", "on"}]
    BY DEF CoreType, Deliver
  <1>3. DOMAIN taken' = Users /\ \A u \in Users : IsTable(taken'[u], Message)
    BY EmptyLemma DEF CoreType, Deliver
  <1>4. got' \in [Users -> SUBSET Message] /\ again' \in [Users -> SUBSET Message]
    BY DEF CoreType, Deliver, Got
  <1> QED  BY <1>1, <1>2, <1>3, <1>4

\* RecordMessage keeps the type of the records.
LEMMA RecordType ==
  ASSUME CoreType, NEW m \in Message, NEW o \in {None, m.id}, RecordMessage(m, o)
  PROVE  /\ records' \in [IDs -> Record \cup {NoRecord}]
         /\ records'[m.id] = [author |-> m.from, offlineID |-> o, recalled |-> FALSE]
         /\ \A id \in IDs : id # m.id => records'[id] = records[id]
  BY DEF CoreType, RecordMessage, Message, Record

\* StateOf gives one of the two states.
LEMMA StateLemma ==
  ASSUME NEW m, NEW reached
  PROVE  StateOf(m, reached) \in {"sent", "delivered"}
  BY DEF StateOf

\* Handling a message keeps the types.
LEMMA HandleType ==
  ASSUME CoreType, NEW m \in Message, NEW slow, Handle(m, slow)
  PROVE  CoreType'
  <1>1. CASE Duplicate(m)
    BY <1>1 DEF Duplicate, CoreType, database, IsTable
  <1>2. CASE BroadcastMessage(m, slow) /\ ~Duplicate(m)
    <2>1. /\ Deliver(Online, slow, m)
          /\ SaveChatMessage(m, StateOf(m, Online \ slow))
          /\ RecordMessage(m, None)
          /\ UNCHANGED <<accounts, offline>>
      BY <1>2 DEF BroadcastMessage
    <2>2. IsTable(rows', Row)
      BY <2>1, SavedLemma, StateLemma DEF CoreType
    <2>3. Online \in SUBSET Users
      BY DEF Online
    <2> QED  BY <2>1, <2>2, <2>3, DeliverType, RecordType DEF CoreType, IsTable
  <1>3. CASE PrivateToOnline(m, slow)
    <2>1. PICK reached : SaveChatMessage(m, StateOf(m, reached))
      BY <1>3 DEF PrivateToOnline
    <2>2. IsTable(rows', Row)
      BY <2>1, SavedLemma, StateLemma DEF CoreType
    <2>3. PICK S \in SUBSET Users : Deliver(S, slow, m)
      BY <1>3 DEF PrivateToOnline, Online, Message
    <2>4. RecordMessage(m, None) /\ UNCHANGED <<accounts, offline>>
      BY <1>3 DEF PrivateToOnline
    <2> QED  BY <2>2, <2>3, <2>4, DeliverType, RecordType DEF CoreType, IsTable
  <1>4. CASE PrivateToOffline(m)
    <2>1. /\ SaveChatMessage(m, "sent")
          /\ RecordMessage(m, m.id)
          /\ UNCHANGED <<accounts, session, old, taken, got, again>>
          /\ UNCHANGED offline \/ SaveOfflineMessage(m)
      BY <1>4 DEF PrivateToOffline
    <2>2. IsTable(rows', Row)
      BY <2>1, SavedLemma DEF CoreType
    <2>3. IsTable(offline', Message)
      BY <2>1, QueuedLemma DEF CoreType, IsTable
    <2> QED  BY <2>1, <2>2, <2>3, RecordType DEF CoreType
  <1>5. CASE PrivateToNobody(m)
    <2>1. /\ SaveChatMessage(m, "sent")
          /\ UNCHANGED <<accounts, offline, session, old, taken, records, got, again>>
      BY <1>5 DEF PrivateToNobody
    <2>2. IsTable(rows', Row)
      BY <2>1, SavedLemma DEF CoreType
    <2> QED  BY <2>1, <2>2 DEF CoreType, IsTable
  <1> QED
    BY <1>1, <1>2, <1>3, <1>4, <1>5 DEF Handle, HandlePrivateMessage

\* A message that a client supplies, or that the Hub numbers, is a message.
LEMMA MessageLemma ==
  /\ \A id \in Supplied : Mine(id) \in Message /\ id \in IDs
  /\ \A n \in 1..MaxGen, from \in Console, to \in ConsoleTo :
        /\ [id |-> n, from |-> from, to |-> to] \in Message
        /\ n \notin Supplied
  BY DeliveryAssumption DEF Mine, Message, IDs

\* The state after a restart has the types.
LEMMA ForgetType ==
  ASSUME CoreType, ForgetMemory, UNCHANGED <<accounts, offline, got, again>>,
         IsTable(rows', Row)
  PROVE  CoreType'
  <1>1. DOMAIN taken' = Users /\ \A u \in Users : IsTable(taken'[u], Message)
    BY EmptyLemma DEF ForgetMemory
  <1>2. records' \in [IDs -> Record \cup {NoRecord}]
    BY DEF ForgetMemory
  <1>3. session' \in [Users -> {"off", "new", "on"}] /\ old' \subseteq Users
    BY DEF ForgetMemory
  <1> QED  BY <1>1, <1>2, <1>3 DEF CoreType, IsTable

\* The record that Recall works on is a record.
LEMMA RecordsOfLemma ==
  ASSUME CoreType, NEW id \in IDs, NEW r \in RecordsOf(id)
  PROVE  /\ r \in Record
         /\ r = records[id] \/ r.offlineID = None
  <1>1. CASE records[id] # NoRecord
    <2>1. r = records[id]
      BY <1>1 DEF RecordsOf
    <2> QED  BY <1>1, <2>1 DEF CoreType
  <1>2. CASE records[id] = NoRecord
    <2>1. PICK i \in DOMAIN rows : r = [NoRecord EXCEPT !.author = rows[i].msg.from]
      BY <1>2 DEF RecordsOf
    <2>2. rows[i].msg.from \in Users
      BY DEF CoreType, IsTable, Row, Message
    <2> QED  BY <2>1, <2>2 DEF NoRecord, Record
  <1> QED  BY <1>1, <1>2

\* What Recall does to the tables and the records.
LEMMA RecallLemma ==
  ASSUME CoreType, NEW u \in Users, NEW id \in IDs, Recall(u, id)
  PROVE  /\ IsTable(rows', Row) /\ DOMAIN rows' = DOMAIN rows
         /\ \A i \in DOMAIN rows : rows'[i].msg = rows[i].msg /\ rows'[i].state = rows[i].state
         /\ records' \in [IDs -> Record \cup {NoRecord}]
         /\ \A x \in IDs : x # id => records'[x] = records[x]
         /\ \E r \in RecordsOf(id) :
              /\ records'[id].offlineID = r.offlineID
              /\ offline' = QueueAfterRecall(r)
         /\ IsTable(offline', Message) /\ Part(offline, offline')
  <1>1. PICK r \in RecordsOf(id) :
            /\ offline' = QueueAfterRecall(r)
            /\ records' = [records EXCEPT ![id] = [r EXCEPT !.recalled = TRUE]]
    BY DEF Recall
  <1>2. r \in Record
    BY RecordsOfLemma
  <1>3. /\ records' \in [IDs -> Record \cup {NoRecord}]
        /\ \A x \in IDs : x # id => records'[x] = records[x]
        /\ records'[id].offlineID = r.offlineID
    BY <1>1, <1>2 DEF CoreType, Record
  <1>4. IsTable(offline', Message) /\ Part(offline, offline')
    BY <1>1, PartsLemma DEF QueueAfterRecall, CoreType, Part
  <1>5. \A i \in DOMAIN rows : rows[i] \in Row
    BY DEF CoreType, IsTable
  <1>6. /\ DOMAIN rows' = DOMAIN rows
        /\ \A i \in DOMAIN rows : /\ rows'[i] \in Row
                                  /\ rows'[i].msg = rows[i].msg
                                  /\ rows'[i].state = rows[i].state
    BY <1>5 DEF Recall, Row
  <1>7. IsTable(rows', Row)
    <2>1. rows' = [i \in DOMAIN rows |-> rows'[i]]
      BY DEF Recall
    <2> QED  BY <1>6, <2>1 DEF CoreType, IsTable
  <1> QED  BY <1>1, <1>3, <1>4, <1>6, <1>7

\* What PushOffline does.
LEMMA PushLemma ==
  ASSUME CoreType, NEW u \in Users, PushOffline(u)
  PROVE  \E i \in DOMAIN taken[u] :
            /\ taken[u][i] \in Message
            /\ Got({u}, taken[u][i])
            /\ DOMAIN taken' = Users
            /\ \A v \in Users \ {u} : taken'[v] = taken[v]
            /\ IsTable(taken'[u], Message)
            /\ Part(taken[u], taken'[u]) /\ i \notin DOMAIN taken'[u]
  <1>1. PICK i \in DOMAIN taken[u] :
            /\ Got({u}, taken[u][i])
            /\ taken' = [taken EXCEPT ![u] = Delete(taken[u], {i})]
    BY DEF PushOffline
  <1> DEFINE d == Delete(taken[u], {i})
  <1>2. taken[u] \in [DOMAIN taken[u] -> Message] /\ DOMAIN taken[u] \subseteq Nat
    BY DEF CoreType, IsTable
  <1>3. IsTable(d, Message) /\ Part(taken[u], d) /\ i \notin DOMAIN d
    BY <1>2 DEF Delete, Restrict, IsTable, Part
  <1> HIDE DEF d
  <1>4. /\ DOMAIN taken' = Users /\ taken'[u] = d
        /\ \A v \in Users \ {u} : taken'[v] = taken[v]
    BY <1>1 DEF CoreType, d
  <1> QED  BY <1>1, <1>2, <1>3, <1>4

\* Every step keeps the types.
LEMMA TypeLemma ==
  ASSUME TypeOK, [Next]_vars
  PROVE  TypeOK'
  <1>0. CoreType
    BY DEF TypeOK, CoreType
  <1> DEFINE Rest == /\ tried' \subseteq Supplied
                     /\ nextID' \in 0..MaxGen /\ restarts' \in 0..MaxRestarts
  <1> SUFFICES CoreType' /\ Rest
    BY DEF TypeOK, CoreType
  <1>1. ASSUME NEW u \in Users, Login(u)
        PROVE  CoreType' /\ Rest
    <2>1. old' \subseteq Users /\ accounts' \subseteq Users
      BY <1>0, <1>1 DEF Login, Ended, CoreType
    <2>2. DOMAIN taken' = Users /\ \A v \in Users : IsTable(taken'[v], Message)
      BY <1>0, <1>1, EmptyLemma DEF Login, CoreType
    <2>3. session' \in [Users -> {"off", "new", "on"}]
      BY <1>0, <1>1 DEF Login, CoreType
    <2> QED  BY <1>0, <1>1, <2>1, <2>2, <2>3 DEF Login, CoreType, TypeOK, ghosts, IsTable
  <1>2. ASSUME NEW u \in Users, NEW sent \in BOOLEAN, Disconnect(u, sent)
        PROVE  CoreType' /\ Rest
    <2>1. old' \subseteq Users
      BY <1>0, <1>2 DEF Disconnect, Ended, CoreType
    <2>2. DOMAIN taken' = Users /\ \A v \in Users : IsTable(taken'[v], Message)
      BY <1>0, <1>2, EmptyLemma DEF Disconnect, CoreType
    <2>3. session' \in [Users -> {"off", "new", "on"}]
      BY <1>0, <1>2 DEF Disconnect, CoreType
    <2> QED
      BY <1>0, <1>2, <2>1, <2>2, <2>3 DEF Disconnect, CoreType, TypeOK, ghosts, database, IsTable
  <1>3. ASSUME NEW u \in Users, TakeOfflineMessages(u)
        PROVE  CoreType' /\ Rest
    <2>1. IsTable(offline', Message) /\ IsTable(Queue(u), Message)
      BY <1>0, <1>3, PartsLemma DEF TakeOfflineMessages, CoreType
    <2>2. DOMAIN taken' = Users /\ \A v \in Users : IsTable(taken'[v], Message)
      BY <1>0, <1>3, <2>1 DEF TakeOfflineMessages, CoreType
    <2>3. session' \in [Users -> {"off", "new", "on"}]
      BY <1>0, <1>3 DEF TakeOfflineMessages, CoreType
    <2> QED
      BY <1>0, <1>3, <2>1, <2>2, <2>3 DEF TakeOfflineMessages, CoreType, TypeOK, ghosts, IsTable
  <1>4. ASSUME NEW u \in Users, OldHandlerTakes(u)
        PROVE  CoreType' /\ Rest
    <2>1. IsTable(offline', Message)
      BY <1>0, <1>4, PartsLemma DEF OldHandlerTakes, CoreType
    <2> QED  BY <1>0, <1>4, <2>1 DEF OldHandlerTakes, CoreType, TypeOK, ghosts, IsTable
  <1>5. ASSUME NEW u \in Users, PushOffline(u)
        PROVE  CoreType' /\ Rest
    <2>1. PICK i \in DOMAIN taken[u] :
            /\ taken[u][i] \in Message
            /\ Got({u}, taken[u][i])
            /\ DOMAIN taken' = Users
            /\ \A v \in Users \ {u} : taken'[v] = taken[v]
            /\ IsTable(taken'[u], Message)
      BY <1>0, <1>5, PushLemma
    <2>2. got' \in [Users -> SUBSET Message] /\ again' \in [Users -> SUBSET Message]
      BY <1>0, <2>1 DEF Got, CoreType
    <2>3. \A v \in Users : IsTable(taken'[v], Message)
      BY <1>0, <2>1 DEF CoreType
    <2> QED
      BY <1>0, <1>5, <2>1, <2>2, <2>3 DEF PushOffline, CoreType, TypeOK, database, IsTable
  <1>6. ASSUME NEW u \in Users, NEW id \in IDs, Recall(u, id)
        PROVE  CoreType' /\ Rest
    <2>1. UNCHANGED <<accounts, session, old, taken, nextID, ghosts, restarts>>
      BY <1>6 DEF Recall
    <2>2. /\ IsTable(rows', Row) /\ IsTable(offline', Message)
          /\ records' \in [IDs -> Record \cup {NoRecord}]
      BY <1>0, <1>6, RecallLemma
    <2> QED  BY <1>0, <2>1, <2>2 DEF CoreType, TypeOK, ghosts, IsTable
  <1>7. ASSUME NEW slow \in SUBSET Online, NEW id \in Supplied, SendSupplied(id, slow)
        PROVE  CoreType' /\ Rest
    <2>1. Handle(Mine(id), slow) /\ tried' = tried \cup {id} /\ UNCHANGED <<nextID, restarts>>
      BY <1>7 DEF SendSupplied, Mine
    <2> QED  BY <1>0, <2>1, HandleType, MessageLemma DEF TypeOK
  <1>8. ASSUME NEW slow \in SUBSET Online, NEW from \in Console, NEW to \in ConsoleTo,
               SendGenerated(from, to, slow)
        PROVE  CoreType' /\ Rest
    <2>1. /\ Handle([id |-> nextID + 1, from |-> from, to |-> to], slow)
          /\ nextID < MaxGen /\ nextID' = nextID + 1 /\ UNCHANGED <<tried, restarts>>
      BY <1>8 DEF SendGenerated
    <2>2. nextID + 1 \in 1..MaxGen /\ nextID' \in 0..MaxGen
      BY <2>1, DeliveryAssumption DEF TypeOK
    <2>3. [id |-> nextID + 1, from |-> from, to |-> to] \in Message
      BY <2>2, MessageLemma
    <2> QED  BY <1>0, <2>1, <2>2, <2>3, HandleType DEF TypeOK
  <1>9. ASSUME NEW id \in Supplied, SaveThenRestart(id)
        PROVE  CoreType' /\ Rest
    <2>1. /\ SaveChatMessage(Mine(id), "sent") /\ ForgetMemory
          /\ tried' = tried \cup {id} /\ UNCHANGED <<accounts, offline, got, again>>
      BY <1>9 DEF SaveThenRestart, Mine
    <2>2. IsTable(rows', Row)
      BY <1>0, <2>1, SavedLemma, MessageLemma DEF CoreType
    <2>3. Rest
      BY <2>1, DeliveryAssumption DEF ForgetMemory, TypeOK
    <2> QED  BY <1>0, <2>1, <2>2, <2>3, ForgetType
  <1>10. CASE Restart
    <2>1. ForgetMemory /\ UNCHANGED <<accounts, rows, offline, got, again, tried>>
      BY <1>10 DEF Restart, database, ghosts
    <2>2. IsTable(rows', Row)
      BY <1>0, <2>1 DEF CoreType, IsTable
    <2>3. Rest
      BY <2>1, DeliveryAssumption DEF ForgetMemory, TypeOK
    <2> QED  BY <1>0, <2>1, <2>2, <2>3, ForgetType
  <1>11. CASE UNCHANGED vars
    BY <1>0, <1>11 DEF vars, memory, database, ghosts, CoreType, TypeOK, IsTable
  <1> HIDE DEF Rest
  <1> QED
    BY <1>1, <1>2, <1>3, <1>4, <1>5, <1>6, <1>7, <1>8, <1>9, <1>10, <1>11 DEF Next

-----------------------------------------------------------------------------
(* Messages: three kinds of step.                                          *)

\* What the invariant says of messages, without the records.
Sound ==
    /\ Origins
    /\ OnePlace
    /\ AtMostOnce
    /\ ReceiptIsTrue
    /\ WaitingIsUndelivered

\* No message arrives: rows keep what they say, messages leave the queue, and
\* those that a handler has are some of those it had, or all that were queued
\* for its user.
Quiet ==
    /\ DOMAIN rows' = DOMAIN rows
    /\ \A i \in DOMAIN rows : rows'[i].msg = rows[i].msg /\ rows'[i].state = rows[i].state
    /\ tried \subseteq tried' /\ got' = got /\ again' = again
    /\ Part(offline, offline')
    /\ \A u \in Users :
        \/ Part(taken[u], taken'[u])
        \/ /\ Part(offline, taken'[u])
           /\ \A i \in DOMAIN taken'[u] : taken'[u][i].to = u
           /\ \A i \in DOMAIN offline' : offline'[i].to # u

\* Such a step keeps messages sound.
LEMMA QuietLemma ==
  ASSUME TypeOK, Sound, Quiet
  PROVE  Sound'
  <1>1. Origins'
    <2>1. \A m : Genuine(m, tried) => Genuine(m, tried')
      BY DEF Quiet, Genuine
    <2>2. \A i \in DOMAIN rows' : Genuine(rows'[i].msg, tried')
      BY <2>1 DEF Quiet, Sound, Origins
    <2>3. \A i \in DOMAIN offline' : Genuine(offline'[i], tried') /\ offline'[i].to \in Users
      <3>1. Part(offline, offline')
        BY Zenon DEF Quiet
      <3>2. \A i \in DOMAIN offline : Genuine(offline[i], tried) /\ offline[i].to \in Users
        BY Zenon DEF Sound, Origins
      <3> QED  BY <2>1, <3>1, <3>2, Zenon DEF Part
    <2>4. \A u \in Users : \A i \in DOMAIN taken'[u] :
             Genuine(taken'[u][i], tried') /\ taken'[u][i].to = u
      BY <2>1 DEF Quiet, Sound, Origins, Part
    <2>5. \A u \in Users : \A m \in got'[u] : Genuine(m, tried')
      BY <2>1 DEF Quiet, Sound, Origins
    <2> QED  BY <2>2, <2>3, <2>4, <2>5 DEF Origins
  <1>2. OnePlace'
    <2>1. \A q, p : Once(q) /\ Part(q, p) => Once(p)
      BY DEF Once, Part
    <2>2. Once(offline)' /\ \A u \in Users : Once(taken'[u])
      BY <2>1 DEF Quiet, Sound, OnePlace, Once
    <2>3. ASSUME NEW u \in Users, NEW i \in DOMAIN taken'[u], taken'[u][i].id \in Supplied
          PROVE  /\ taken'[u][i] \notin got'[u]
                 /\ \A j \in DOMAIN offline' : offline'[j] # taken'[u][i]
      <3>1. CASE Part(taken[u], taken'[u])
        BY <2>3, <3>1 DEF Quiet, Sound, OnePlace, Part
      <3>2. CASE /\ Part(offline, taken'[u])
                 /\ \A k \in DOMAIN taken'[u] : taken'[u][k].to = u
                 /\ \A k \in DOMAIN offline' : offline'[k].to # u
        BY <2>3, <3>2 DEF Quiet, Sound, WaitingIsUndelivered, Part
      <3> QED  BY <3>1, <3>2 DEF Quiet
    <2> QED  BY <2>2, <2>3 DEF OnePlace, Once
  <1>3. AtMostOnce'
    BY DEF Quiet, Sound, AtMostOnce
  <1>4. ReceiptIsTrue'
    BY DEF Quiet, Sound, ReceiptIsTrue
  <1>5. WaitingIsUndelivered'
    BY DEF Quiet, Sound, WaitingIsUndelivered, Stored, Part
  <1> QED  BY <1>1, <1>2, <1>3, <1>4, <1>5 DEF Sound

\* The push of a message that a handler has keeps messages sound.
LEMMA PushSound ==
  ASSUME TypeOK, Sound, NEW u \in Users, PushOffline(u)
  PROVE  Sound'
  <1>0. CoreType /\ UNCHANGED <<rows, offline, tried>>
    BY DEF TypeOK, CoreType, PushOffline, database
  <1>1. PICK i \in DOMAIN taken[u] :
            /\ taken[u][i] \in Message
            /\ Got({u}, taken[u][i])
            /\ DOMAIN taken' = Users
            /\ \A v \in Users \ {u} : taken'[v] = taken[v]
            /\ Part(taken[u], taken'[u]) /\ i \notin DOMAIN taken'[u]
    BY <1>0, PushLemma
  <1> DEFINE m == taken[u][i]
  <1>2. /\ got'[u] = got[u] \cup {m}
        /\ \A v \in Users \ {u} : got'[v] = got[v] /\ again'[v] = again[v]
        /\ again'[u] = IF m \in got[u] THEN again[u] \cup {m} ELSE again[u]
    BY <1>1 DEF Got
  <1>3. Genuine(m, tried) /\ m.to = u
    BY DEF Sound, Origins
  <1>4. m.id \in Supplied => /\ m \notin got[u]
                             /\ \A j \in DOMAIN offline : offline[j] # m
                             /\ \A j \in DOMAIN taken'[u] : taken'[u][j] # m
    BY <1>1 DEF Sound, OnePlace, Once, Part
  <1> HIDE DEF m
  <1>5. Origins'
    <2>1. \A v \in Users : Part(taken[v], taken'[v])
      BY <1>1, Zenon DEF Part
    <2>2. /\ \A j \in DOMAIN rows' : Genuine(rows'[j].msg, tried')
          /\ \A j \in DOMAIN offline' : Genuine(offline'[j], tried') /\ offline'[j].to \in Users
      BY <1>0, Zenon DEF Sound, Origins
    <2>3. \A v \in Users : \A j \in DOMAIN taken[v] :
             Genuine(taken[v][j], tried) /\ taken[v][j].to = v
      BY Zenon DEF Sound, Origins
    <2>4. \A v \in Users : \A j \in DOMAIN taken'[v] :
             Genuine(taken'[v][j], tried') /\ taken'[v][j].to = v
      <3> SUFFICES ASSUME NEW v \in Users, NEW j \in DOMAIN taken'[v]
                   PROVE  Genuine(taken'[v][j], tried') /\ taken'[v][j].to = v
        OBVIOUS
      <3>1. j \in DOMAIN taken[v] /\ taken'[v][j] = taken[v][j]
        BY <2>1, Zenon DEF Part
      <3>2. Genuine(taken[v][j], tried) /\ taken[v][j].to = v
        BY <2>3, <3>1, Zenon
      <3>3. tried' = tried
        BY <1>0
      <3> QED  BY <3>1, <3>2, <3>3, Zenon
    <2>5. \A v \in Users : \A x \in got[v] : Genuine(x, tried)
      BY Zenon DEF Sound, Origins
    <2>6. \A v \in Users : \A x \in got'[v] : Genuine(x, tried')
      BY <1>0, <1>2, <1>3, <2>5, Zenon
    <2> QED  BY <2>2, <2>4, <2>6, Zenon DEF Origins
  <1>6. OnePlace'
    <2>1. \A v \in Users : Once(taken'[v])
      <3>1. \A v \in Users : Once(taken[v]) /\ Part(taken[v], taken'[v])
        BY <1>1, Zenon DEF Sound, OnePlace, Part
      <3> QED  BY <3>1, Zenon DEF Once, Part
    <2>2. ASSUME NEW v \in Users, NEW j \in DOMAIN taken'[v], taken'[v][j].id \in Supplied
          PROVE  /\ taken'[v][j] \notin got'[v]
                 /\ \A k \in DOMAIN offline' : offline'[k] # taken'[v][j]
      <3>1. j \in DOMAIN taken[v] /\ taken'[v][j] = taken[v][j]
        BY <1>1 DEF Part
      <3>2. /\ taken[v][j] \notin got[v]
            /\ \A k \in DOMAIN offline : offline[k] # taken[v][j]
        BY <2>2, <3>1 DEF Sound, OnePlace
      <3>3. CASE v = u
        <4>1. taken'[u][j] # m
          BY <1>4, <2>2, <3>3
        <4> QED
          BY <1>0, <1>2, <3>1, <3>2, <3>3, <4>1
      <3>4. CASE v # u
        BY <1>0, <1>2, <3>1, <3>2, <3>4
      <3> QED
        BY <3>3, <3>4
    <2> QED  BY <1>0, <2>1, <2>2 DEF Sound, OnePlace, Once
  <1>7. AtMostOnce'
    BY <1>2, <1>4 DEF Sound, AtMostOnce
  <1>8. ReceiptIsTrue'
    <2>1. \A v \in Users : got[v] \subseteq got'[v]
      BY <1>2, Zenon
    <2>2. ReceiptIsTrue
      BY Zenon DEF Sound
    <2> QED  BY <1>0, <2>1, <2>2, Zenon DEF ReceiptIsTrue
  <1>9. WaitingIsUndelivered'
    <2> SUFFICES ASSUME NEW j \in DOMAIN offline, offline[j].id \in Supplied
                 PROVE  /\ offline[j] \notin got'[offline[j].to]
                        /\ \A k \in Stored(offline[j]) : rows[k].state = "sent"
      BY <1>0, Zenon DEF WaitingIsUndelivered, Stored
    <2>1. /\ offline[j].to \in Users
          /\ offline[j] \notin got[offline[j].to]
          /\ \A k \in Stored(offline[j]) : rows[k].state = "sent"
      BY Zenon DEF Sound, Origins, WaitingIsUndelivered
    <2>2. offline[j] # m
      BY <1>4, Zenon
    <2> QED  BY <1>2, <2>1, <2>2, Zenon
  <1> QED  BY <1>5, <1>6, <1>7, <1>8, <1>9 DEF Sound

\* Message m, which is new, is saved in the given state and put into the
\* buffers of S, or else perhaps into the queue.
Arrives(m, state, S) ==
    /\ Adds(rows, rows', NewRow(m, state))
    /\ Got(S, m)
    /\ \A u \in Users : Part(taken[u], taken'[u])
    /\ state = "delivered" => \E u \in S \ {m.from} : m.to \in {u, Room}
    /\ \/ offline' = offline
       \/ Adds(offline, offline', m) /\ S = {} /\ state = "sent" /\ m.to \in Users
    /\ tried \subseteq tried'
    /\ m.id \in Supplied => m = Mine(m.id) /\ m.id \in tried' /\ m.id \notin tried

\* Such a step keeps messages sound.
LEMMA ArrivesLemma ==
  ASSUME TypeOK, Sound, NEW m \in Message, NEW state, NEW S \in SUBSET Users,
         Arrives(m, state, S)
  PROVE  Sound'
  <1>1. PICK k \in Nat : \A i \in DOMAIN rows' :
            \/ i = k /\ rows'[i] = NewRow(m, state)
            \/ i \in DOMAIN rows /\ rows'[i] = rows[i]
    BY DEF Arrives, Adds
  <1>2. NewRow(m, state).msg = m /\ NewRow(m, state).state = state
    BY DEF NewRow
  <1>3. \A u \in Users :
          /\ got'[u] = IF u \in S THEN got[u] \cup {m} ELSE got[u]
          /\ again'[u] = IF u \in S /\ m \in got[u] THEN again[u] \cup {m} ELSE again[u]
    BY DEF Arrives, Got
  <1>4. m.id \in Supplied =>
          /\ \A i \in DOMAIN rows : rows[i].msg.id # m.id
          /\ \A i \in DOMAIN offline : offline[i].id # m.id
          /\ \A u \in Users : \A i \in DOMAIN taken[u] : taken[u][i].id # m.id
          /\ \A u \in Users : m \notin got[u]
    BY DEF Arrives, Sound, Origins, Genuine
  <1>5. Genuine(m, tried') /\ \A x : Genuine(x, tried) => Genuine(x, tried')
    BY DEF Arrives, Genuine
  <1>6. PICK n \in Nat : \A i \in DOMAIN offline' :
            \/ i = n /\ offline'[i] = m /\ S = {} /\ state = "sent" /\ m.to \in Users
            \/ i \in DOMAIN offline /\ offline'[i] = offline[i]
    <2>1. CASE offline' = offline
      BY <2>1
    <2>2. CASE Adds(offline, offline', m) /\ S = {} /\ state = "sent" /\ m.to \in Users
      BY <2>2 DEF Adds
    <2> QED  BY <2>1, <2>2 DEF Arrives
  <1>7. \A u \in Users : Part(taken[u], taken'[u])
    BY DEF Arrives
  <1>8. Origins'
    <2>1. \A i \in DOMAIN rows' : Genuine(rows'[i].msg, tried')
      BY <1>1, <1>2, <1>5 DEF Sound, Origins
    <2>2. \A i \in DOMAIN offline' : Genuine(offline'[i], tried') /\ offline'[i].to \in Users
      BY <1>5, <1>6 DEF Sound, Origins
    <2>3. \A u \in Users : \A i \in DOMAIN taken'[u] :
             Genuine(taken'[u][i], tried') /\ taken'[u][i].to = u
      BY <1>5, <1>7 DEF Sound, Origins, Part
    <2>4. \A u \in Users : \A x \in got'[u] : Genuine(x, tried')
      BY <1>3, <1>5, SMTT(10), ZenonT(40) DEF Sound, Origins
    <2> QED  BY <2>1, <2>2, <2>3, <2>4 DEF Origins
  <1>9. OnePlace'
    <2>1. Once(offline)'
      BY <1>4, <1>6 DEF Sound, OnePlace, Once
    <2>2. \A u \in Users : Once(taken'[u])
      BY <1>7 DEF Sound, OnePlace, Once, Part
    <2>3. ASSUME NEW u \in Users, NEW i \in DOMAIN taken'[u], taken'[u][i].id \in Supplied
          PROVE  /\ taken'[u][i] \notin got'[u]
                 /\ \A j \in DOMAIN offline' : offline'[j] # taken'[u][i]
      <3>1. i \in DOMAIN taken[u] /\ taken'[u][i] = taken[u][i] /\ taken[u][i] # m
        BY <1>4, <1>7, <2>3 DEF Part
      <3>2. /\ taken[u][i] \notin got[u]
            /\ \A j \in DOMAIN offline : offline[j] # taken[u][i]
        BY <2>3, <3>1 DEF Sound, OnePlace
      <3>3. taken[u][i] \notin got'[u]
        BY <1>3, <3>1, <3>2
      <3>4. \A j \in DOMAIN offline' : offline'[j] # taken[u][i]
        BY <1>6, <3>1, <3>2
      <3> QED  BY <3>1, <3>3, <3>4
    <2> QED  BY <2>1, <2>2, <2>3 DEF OnePlace, Once
  <1>10. AtMostOnce'
    BY <1>3, <1>4 DEF Sound, AtMostOnce
  <1>11. ReceiptIsTrue'
    <2> SUFFICES ASSUME NEW i \in DOMAIN rows', rows'[i].state = "delivered"
                 PROVE  \E u \in Users \ {rows'[i].msg.from} :
                          rows'[i].msg \in got'[u] /\ rows'[i].msg.to \in {u, Room}
      BY DEF ReceiptIsTrue
    <2>1. CASE rows'[i] = NewRow(m, state)
      BY <1>2, <1>3, <2>1 DEF Arrives
    <2>2. CASE i \in DOMAIN rows /\ rows'[i] = rows[i]
      BY <1>3, <2>2 DEF Sound, ReceiptIsTrue
    <2> QED  BY <1>1, <2>1, <2>2
  <1>12. WaitingIsUndelivered'
    <2> SUFFICES ASSUME NEW i \in DOMAIN offline', offline'[i].id \in Supplied
                 PROVE  /\ offline'[i] \notin got'[offline'[i].to]
                        /\ \A j \in DOMAIN rows' :
                              rows'[j].msg = offline'[i] => rows'[j].state = "sent"
      BY DEF WaitingIsUndelivered, Stored
    <2>1. CASE offline'[i] = m /\ S = {} /\ state = "sent" /\ m.to \in Users
      BY <1>1, <1>2, <1>3, <1>4, <2>1
    <2>2. CASE i \in DOMAIN offline /\ offline'[i] = offline[i]
      <3>1. offline[i].to \in Users /\ offline[i] # m
        BY <1>4, <2>2 DEF Sound, Origins
      <3>2. /\ offline[i] \notin got[offline[i].to]
            /\ \A j \in DOMAIN rows : rows[j].msg = offline[i] => rows[j].state = "sent"
        BY <2>2 DEF Sound, WaitingIsUndelivered, Stored
      <3>3. offline[i] \notin got'[offline[i].to]
        BY <1>3, <3>1, <3>2
      <3>4. \A j \in DOMAIN rows' : rows'[j].msg = offline[i] => rows'[j].state = "sent"
        BY <1>1, <1>2, <3>1, <3>2
      <3> QED  BY <2>2, <3>3, <3>4
    <2> QED  BY <1>6, <2>1, <2>2
  <1> QED  BY <1>8, <1>9, <1>10, <1>11, <1>12 DEF Sound

\* deliver() takes from a handler at most all it has.
LEMMA DeliverParts ==
  ASSUME TypeOK, NEW m, NEW S, NEW slow, Deliver(S, slow, m)
  PROVE  Got(S \ slow, m) /\ \A u \in Users : Part(taken[u], taken'[u])
  BY EmptyLemma DEF Deliver, Part

\* Nobody gets a message when the buffers stay as they are.
LEMMA NobodyGets ==
  ASSUME TypeOK, NEW m, UNCHANGED <<got, again>>
  PROVE  Got({}, m)
  BY DEF TypeOK, Got

\* The handling of a message, new or a duplicate, keeps messages sound.
LEMMA HandleSound ==
  ASSUME TypeOK, Sound, NEW m \in Message, NEW slow, Handle(m, slow),
         tried \subseteq tried',
         m.id \in Supplied => /\ m = Mine(m.id) /\ m.id \in tried'
                              /\ IsNew(m) => m.id \notin tried
  PROVE  Sound'
  <1>0. IsTable(rows, Row) /\ IsTable(offline, Message)
    BY DEF TypeOK
  <1>1. CASE Duplicate(m)
    <2>1. UNCHANGED <<rows, offline, taken, got, again>>
      BY <1>1 DEF Duplicate, database
    <2>2. Quiet
      BY <2>1 DEF Quiet, Part
    <2> QED  BY <2>2, QuietLemma
  <1>2. CASE IsNew(m) /\ BroadcastMessage(m, slow)
    <2>1. /\ Deliver(Online, slow, m)
          /\ SaveChatMessage(m, StateOf(m, Online \ slow))
          /\ offline' = offline /\ m.to = Room
      BY <1>2 DEF BroadcastMessage, Duplicate
    <2> DEFINE state == StateOf(m, Online \ slow)
               S == Online \ slow
    <2>2. Adds(rows, rows', NewRow(m, state))
      BY <1>0, <2>1, SavedLemma, StateLemma
    <2>3. state = "delivered" => \E u \in S \ {m.from} : m.to \in {u, Room}
      BY <2>1 DEF StateOf
    <2>4. S \in SUBSET Users
      BY DEF Online
    <2>5. Got(S, m) /\ \A u \in Users : Part(taken[u], taken'[u])
      BY <2>1, DeliverParts
    <2> HIDE DEF state, S
    <2>6. Arrives(m, state, S)
      BY <1>2, <2>1, <2>2, <2>3, <2>5 DEF Arrives
    <2> QED  BY <2>4, <2>6, ArrivesLemma
  <1>3. CASE IsNew(m) /\ m.to # Room /\ PrivateToOnline(m, slow)
    <2> DEFINE reached == IF m.from \in slow THEN {} ELSE {m.to} \ slow
               state == StateOf(m, reached)
               target == IF m.from \in slow THEN m.from ELSE m.to
               S == {target} \ slow
    <2>1. /\ SaveChatMessage(m, state)
          /\ Deliver({target}, slow, m)
          /\ offline' = offline
      BY <1>3 DEF PrivateToOnline
    <2>2. Adds(rows, rows', NewRow(m, state))
      BY <1>0, <2>1, SavedLemma, StateLemma
    <2>3. state = "delivered" => \E u \in S \ {m.from} : m.to \in {u, Room}
      BY DEF StateOf
    <2>4. S \in SUBSET Users
      BY <1>3 DEF Message
    <2>5. Got(S, m) /\ \A u \in Users : Part(taken[u], taken'[u])
      BY <2>1, DeliverParts
    <2> HIDE DEF state, S
    <2>6. Arrives(m, state, S)
      BY <1>3, <2>1, <2>2, <2>3, <2>5 DEF Arrives
    <2> QED  BY <2>4, <2>6, ArrivesLemma
  <1>4. CASE IsNew(m) /\ m.to # Room /\ PrivateToOffline(m)
    <2>1. /\ SaveChatMessage(m, "sent")
          /\ UNCHANGED <<taken, got, again>>
          /\ offline' = offline \/ SaveOfflineMessage(m)
      BY <1>4 DEF PrivateToOffline
    <2>2. Adds(rows, rows', NewRow(m, "sent"))
      BY <1>0, <2>1, SavedLemma
    <2>3. offline' = offline \/ Adds(offline, offline', m)
      BY <1>0, <2>1, QueuedLemma
    <2>4. m.to \in Users
      BY <1>4 DEF Message
    <2>5. Got({}, m) /\ \A u \in Users : Part(taken[u], taken'[u])
      BY <2>1, NobodyGets DEF Part
    <2>6. Arrives(m, "sent", {})
      BY <1>4, <2>2, <2>3, <2>4, <2>5 DEF Arrives
    <2> QED  BY <2>6, ArrivesLemma
  <1>5. CASE IsNew(m) /\ PrivateToNobody(m)
    <2>1. SaveChatMessage(m, "sent") /\ UNCHANGED <<offline, taken, got, again>>
      BY <1>5 DEF PrivateToNobody
    <2>2. Adds(rows, rows', NewRow(m, "sent"))
      BY <1>0, <2>1, SavedLemma
    <2>3. Got({}, m) /\ \A u \in Users : Part(taken[u], taken'[u])
      BY <2>1, NobodyGets DEF Part
    <2>4. Arrives(m, "sent", {})
      BY <1>5, <2>1, <2>2, <2>3 DEF Arrives
    <2> QED  BY <2>4, ArrivesLemma
  <1> QED
    BY <1>1, <1>2, <1>3, <1>4, <1>5 DEF Handle, BroadcastMessage, HandlePrivateMessage

\* Every step keeps messages sound.
LEMMA SoundLemma ==
  ASSUME TypeOK, Sound, [Next]_vars
  PROVE  Sound'
  <1>0. CoreType /\ IsTable(rows, Row) /\ IsTable(offline, Message) /\ DOMAIN taken = Users
    BY DEF TypeOK, CoreType
  <1>1. ASSUME NEW u \in Users, Login(u)
        PROVE  Sound'
    <2>1. Quiet
      BY <1>0, <1>1, EmptyLemma DEF Login, ghosts, Quiet, Part
    <2> QED  BY <2>1, QuietLemma
  <1>2. ASSUME NEW u \in Users, NEW sent \in BOOLEAN, Disconnect(u, sent)
        PROVE  Sound'
    <2>1. Quiet
      BY <1>0, <1>2, EmptyLemma DEF Disconnect, ghosts, database, Quiet, Part
    <2> QED  BY <2>1, QuietLemma
  <1>3. ASSUME NEW u \in Users, TakeOfflineMessages(u)
        PROVE  Sound'
    <2>1. /\ UNCHANGED <<rows, got, again, tried>>
          /\ taken'[u] = Queue(u) /\ offline' = WithoutTarget(u)
          /\ \A v \in Users \ {u} : taken'[v] = taken[v]
      BY <1>0, <1>3 DEF TakeOfflineMessages, ghosts
    <2>2. /\ Part(offline, offline') /\ Part(offline, taken'[u])
          /\ \A i \in DOMAIN taken'[u] : taken'[u][i].to = u
          /\ \A i \in DOMAIN offline' : offline'[i].to # u
      BY <1>0, <2>1, PartsLemma, SMTT(10), ZenonT(40)
    <2>3. \A v \in Users \ {u} : Part(taken[v], taken'[v])
      BY <2>1 DEF Part
    <2>4. Quiet
      BY <2>1, <2>2, <2>3 DEF Quiet
    <2> QED  BY <2>4, QuietLemma
  <1>4. ASSUME NEW u \in Users, OldHandlerTakes(u)
        PROVE  Sound'
    <2>1. UNCHANGED <<rows, taken, got, again, tried>> /\ offline' = WithoutTarget(u)
      BY <1>4 DEF OldHandlerTakes, ghosts
    <2>2. Part(offline, offline')
      BY <1>0, <2>1, PartsLemma
    <2>3. Quiet
      BY <2>1, <2>2 DEF Quiet, Part
    <2> QED  BY <2>3, QuietLemma
  <1>5. ASSUME NEW u \in Users, PushOffline(u)
        PROVE  Sound'
    BY <1>5, PushSound
  <1>6. ASSUME NEW u \in Users, NEW id \in IDs, Recall(u, id)
        PROVE  Sound'
    <2>1. UNCHANGED <<taken, got, again, tried>>
      BY <1>6 DEF Recall, ghosts
    <2>2. /\ DOMAIN rows' = DOMAIN rows
          /\ \A i \in DOMAIN rows :
                rows'[i].msg = rows[i].msg /\ rows'[i].state = rows[i].state
          /\ Part(offline, offline')
      BY <1>0, <1>6, RecallLemma
    <2>3. Quiet
      BY <2>1, <2>2 DEF Quiet, Part
    <2> QED  BY <2>3, QuietLemma
  <1>7. ASSUME NEW slow \in SUBSET Online, NEW id \in Supplied, SendSupplied(id, slow)
        PROVE  Sound'
    <2> DEFINE m == Mine(id)
    <2>1. /\ Handle(m, slow) /\ tried' = tried \cup {id}
          /\ id \in tried => ~IsNew(m)
      BY <1>7 DEF SendSupplied, Mine, IsNew
    <2>2. m \in Message /\ m.id = id
      BY MessageLemma DEF Mine
    <2> HIDE DEF m
    <2>3. m.id \in Supplied => /\ m = Mine(m.id) /\ m.id \in tried'
                               /\ IsNew(m) => m.id \notin tried
      BY <2>1, <2>2 DEF m
    <2> QED  BY <2>1, <2>2, <2>3, HandleSound
  <1>8. ASSUME NEW slow \in SUBSET Online, NEW from \in Console, NEW to \in ConsoleTo,
               SendGenerated(from, to, slow)
        PROVE  Sound'
    <2> DEFINE m == [id |-> nextID + 1, from |-> from, to |-> to]
    <2>1. Handle(m, slow) /\ nextID < MaxGen /\ UNCHANGED tried
      BY <1>8 DEF SendGenerated
    <2>2. nextID + 1 \in 1..MaxGen
      BY <2>1, NextIDLemma, Zenon
    <2>3. m \in Message /\ m.id \notin Supplied
      BY <2>2, MessageLemma
    <2> HIDE DEF m
    <2> QED  BY <2>1, <2>3, HandleSound
  <1>9. ASSUME NEW id \in Supplied, SaveThenRestart(id)
        PROVE  Sound'
    <2> DEFINE m == Mine(id)
    <2>1. /\ SaveChatMessage(m, "sent") /\ ForgetMemory
          /\ id \notin tried /\ tried' = tried \cup {id}
          /\ UNCHANGED <<accounts, offline, got, again>>
      BY <1>9 DEF SaveThenRestart, Mine
    <2>2. m \in Message /\ m.id = id
      BY MessageLemma DEF Mine
    <2>3. m = Mine(m.id)
      BY <2>2
    <2> HIDE DEF m
    <2>4. Adds(rows, rows', NewRow(m, "sent"))
      BY <1>0, <2>1, <2>2, SavedLemma
    <2>5. Got({}, m) /\ \A u \in Users : Part(taken[u], taken'[u])
      BY <2>1, NobodyGets, EmptyLemma DEF ForgetMemory, Part
    <2>6. Arrives(m, "sent", {})
      BY <2>1, <2>2, <2>3, <2>4, <2>5 DEF Arrives
    <2> QED  BY <2>2, <2>6, ArrivesLemma
  <1>10. CASE Restart
    <2>1. ForgetMemory /\ UNCHANGED <<rows, offline, got, again, tried>>
      BY <1>10 DEF Restart, database, ghosts
    <2>2. \A u \in Users : Part(taken[u], taken'[u])
      BY <2>1, EmptyLemma DEF ForgetMemory, Part
    <2>3. Quiet
      BY <2>1, <2>2 DEF Quiet, Part
    <2> QED  BY <2>3, QuietLemma
  <1>11. CASE UNCHANGED vars
    <2>1. Quiet
      BY <1>11 DEF vars, memory, database, ghosts, Quiet, Part
    <2> QED  BY <2>1, QuietLemma
  <1> QED
    BY <1>1, <1>2, <1>3, <1>4, <1>5, <1>6, <1>7, <1>8, <1>9, <1>10, <1>11 DEF Next

-----------------------------------------------------------------------------
(* Records and recalls.                                                    *)

Recorded == OwnIDs /\ RecallReachesQueue

\* Nothing enters the queue with an ID whose record was recalled.
Queues(id) == InQueue(id)' => InQueue(id) \/ ~records'[id].recalled

\* The record of id stays, is forgotten or is written anew.
Renews(id) ==
    \/ records'[id] = records[id]
    \/ ~records'[id].recalled /\ records'[id].offlineID \in {None, id}

\* Steps that do that to every record keep them right.
LEMMA RecordsLemma ==
  ASSUME Recorded, \A id \in IDs : Queues(id) /\ Renews(id)
  PROVE  Recorded'
  <1>1. OwnIDs'
    BY DEF Recorded, OwnIDs, Renews
  <1>2. RecallReachesQueue'
    <2> SUFFICES ASSUME NEW id \in IDs, records'[id].recalled, records'[id].offlineID # None
                 PROVE  ~InQueue(id)'
      BY DEF RecallReachesQueue
    <2> QED  BY DEF Recorded, RecallReachesQueue, Queues, Renews
  <1> QED  BY <1>1, <1>2 DEF Recorded

\* A queue that shrinks gets no IDs.
LEMMA ShrinkLemma ==
  ASSUME Part(offline, offline'), NEW id
  PROVE  Queues(id)
  BY DEF Part, Queues, InQueue

\* A record that is written anew, and no other, keeps every record or renews it.
LEMMA RenewLemma ==
  ASSUME NEW id \in IDs, NEW author, NEW off \in {None, id},
         records'[id] = [author |-> author, offlineID |-> off, recalled |-> FALSE],
         \A x \in IDs : x # id => records'[x] = records[x]
  PROVE  \A x \in IDs : Renews(x)
  <1>1. ~records'[id].recalled /\ records'[id].offlineID = off
    OBVIOUS
  <1> QED  BY <1>1, Zenon DEF Renews

\* The handling of a message keeps the records right.
LEMMA HandleRecords ==
  ASSUME TypeOK, Recorded, NEW m \in Message, NEW slow, Handle(m, slow)
  PROVE  Recorded'
  <1>0. CoreType /\ m.id \in IDs
    BY DEF TypeOK, CoreType, Message
  <1>1. CASE UNCHANGED <<records, offline>>
    <2>1. \A id \in IDs : Queues(id) /\ Renews(id)
      BY <1>1, ShrinkLemma DEF Part, Renews
    <2> QED  BY <2>1, RecordsLemma
  <1>2. CASE RecordMessage(m, None) /\ UNCHANGED offline
    <2>1. /\ records'[m.id] = [author |-> m.from, offlineID |-> None, recalled |-> FALSE]
          /\ \A id \in IDs : id # m.id => records'[id] = records[id]
      BY <1>0, <1>2, RecordType
    <2>2. Part(offline, offline')
      BY <1>2, Zenon DEF Part
    <2>3. \A id \in IDs : Renews(id)
      BY <1>0, <2>1, RenewLemma, Zenon
    <2> QED  BY <2>2, <2>3, ShrinkLemma, RecordsLemma, Zenon
  <1>3. CASE RecordMessage(m, m.id) /\ (UNCHANGED offline \/ SaveOfflineMessage(m))
    <2>1. /\ records'[m.id] = [author |-> m.from, offlineID |-> m.id, recalled |-> FALSE]
          /\ \A id \in IDs : id # m.id => records'[id] = records[id]
      BY <1>0, <1>3, RecordType
    <2>2. UNCHANGED offline \/ Adds(offline, offline', m)
      BY <1>0, <1>3, QueuedLemma DEF CoreType
    <2>3. \A id \in IDs : id # m.id => Queues(id)
      BY <2>2 DEF Queues, InQueue, Adds
    <2>4. Queues(m.id)
      BY <2>1 DEF Queues
    <2>5. \A id \in IDs : Renews(id)
      BY <1>0, <2>1, RenewLemma, Zenon
    <2> QED  BY <2>3, <2>4, <2>5, RecordsLemma
  <1> QED
    BY <1>1, <1>2, <1>3 DEF Handle, BroadcastMessage, HandlePrivateMessage, Duplicate,
         PrivateToOnline, PrivateToOffline, PrivateToNobody, database

\* Recall takes the message out of the queue that its record names.
LEMMA RecallRecords ==
  ASSUME TypeOK, Recorded, NEW u \in Users, NEW id \in IDs, Recall(u, id)
  PROVE  Recorded'
  <1>0. CoreType /\ IsTable(offline, Message)
    BY DEF TypeOK, CoreType
  <1>1. /\ \A x \in IDs : x # id => records'[x] = records[x]
        /\ Part(offline, offline')
        /\ \E r \in RecordsOf(id) :
              /\ records'[id].offlineID = r.offlineID
              /\ offline' = QueueAfterRecall(r)
    BY <1>0, RecallLemma
  <1>2. PICK r \in RecordsOf(id) :
            records'[id].offlineID = r.offlineID /\ offline' = QueueAfterRecall(r)
    BY <1>1
  <1>3. r.offlineID \in {None, id}
    BY <1>0, RecordsOfLemma DEF Recorded, OwnIDs
  <1>4. r.offlineID # None => ~InQueue(id)'
    <2> HAVE r.offlineID # None
    <2>1. offline' = WithoutID(id)
      BY <1>2, <1>3, Zenon DEF QueueAfterRecall
    <2>2. \A i \in DOMAIN WithoutID(id) : WithoutID(id)[i].id # id
      BY <1>0, PartsLemma, Zenon
    <2> QED  BY <2>1, <2>2, Zenon DEF InQueue
  <1>5. OwnIDs'
    BY <1>1, <1>2, <1>3 DEF Recorded, OwnIDs
  <1>6. RecallReachesQueue'
    <2> SUFFICES ASSUME NEW x \in IDs, records'[x].recalled, records'[x].offlineID # None
                 PROVE  ~InQueue(x)'
      BY DEF RecallReachesQueue
    <2>1. CASE x = id
      BY <1>2, <1>4, <2>1
    <2>2. CASE x # id
      <3>1. ~InQueue(x)
        BY <1>1, <2>2, Zenon DEF Recorded, RecallReachesQueue
      <3> QED  BY <1>1, <3>1, Zenon DEF InQueue, Part
    <2> QED  BY <2>1, <2>2
  <1> QED  BY <1>5, <1>6 DEF Recorded

\* Every step keeps the records right.
LEMMA RecordedLemma ==
  ASSUME TypeOK, Recorded, [Next]_vars
  PROVE  Recorded'
  <1>0. IsTable(offline, Message)
    BY DEF TypeOK
  <1>1. ASSUME Part(offline, offline'), records' = records
        PROVE  Recorded'
    <2>1. \A id \in IDs : Queues(id) /\ Renews(id)
      BY <1>1, ShrinkLemma DEF Renews
    <2> QED  BY <2>1, RecordsLemma
  <1>2. CASE ForgetMemory /\ UNCHANGED offline
    <2>1. \A id \in IDs : records'[id] = NoRecord
      BY <1>2 DEF ForgetMemory
    <2>2. \A id \in IDs : Queues(id) /\ Renews(id)
      BY <1>2, <2>1, ShrinkLemma DEF Part, Renews, NoRecord
    <2> QED  BY <2>2, RecordsLemma
  <1>3. CASE UNCHANGED <<offline, records>>
    BY <1>1, <1>3 DEF Part
  <1>4. ASSUME NEW u \in Users, TakeOfflineMessages(u) \/ OldHandlerTakes(u)
        PROVE  Recorded'
    BY <1>0, <1>1, <1>4, PartsLemma DEF TakeOfflineMessages, OldHandlerTakes
  <1>5. ASSUME NEW u \in Users, NEW id \in IDs, Recall(u, id)
        PROVE  Recorded'
    BY <1>5, RecallRecords
  <1>6. ASSUME NEW slow \in SUBSET Online, NEW id \in Supplied, SendSupplied(id, slow)
        PROVE  Recorded'
    <2>1. Handle(Mine(id), slow) /\ Mine(id) \in Message
      BY <1>6, MessageLemma DEF SendSupplied, Mine
    <2> QED  BY <2>1, HandleRecords
  <1>7. ASSUME NEW slow \in SUBSET Online, NEW from \in Console, NEW to \in ConsoleTo,
               SendGenerated(from, to, slow)
        PROVE  Recorded'
    <2>1. /\ Handle([id |-> nextID + 1, from |-> from, to |-> to], slow)
          /\ nextID + 1 \in 1..MaxGen
      BY <1>7, NextIDLemma, Zenon DEF SendGenerated
    <2>2. [id |-> nextID + 1, from |-> from, to |-> to] \in Message
      BY <2>1, MessageLemma
    <2> QED  BY <2>1, <2>2, HandleRecords
  <1>8. ASSUME NEW u \in Users, Login(u) \/ PushOffline(u)
        PROVE  Recorded'
    BY <1>3, <1>8 DEF Login, PushOffline, database
  <1>9. ASSUME NEW u \in Users, NEW sent \in BOOLEAN, Disconnect(u, sent)
        PROVE  Recorded'
    BY <1>3, <1>9 DEF Disconnect, database
  <1>10. ASSUME NEW id \in Supplied, SaveThenRestart(id)
         PROVE  Recorded'
    BY <1>2, <1>10 DEF SaveThenRestart
  <1>11. CASE Restart
    BY <1>2, <1>11 DEF Restart, database
  <1>12. CASE UNCHANGED vars
    BY <1>3, <1>12 DEF vars, memory, database
  <1> QED
    BY <1>4, <1>5, <1>6, <1>7, <1>8, <1>9, <1>10, <1>11, <1>12 DEF Next

-----------------------------------------------------------------------------
(* Theorems.                                                               *)

\* The initial states satisfy the inductive invariant.
LEMMA InitLemma == Init => IInv
  <1> SUFFICES ASSUME Init PROVE IInv
    OBVIOUS
  <1>1. TypeOK
    <2>1. records \in [IDs -> Record \cup {NoRecord}]
      BY DEF Init
    <2>2. /\ IsTable(rows, Row) /\ IsTable(offline, Message)
          /\ DOMAIN taken = Users /\ \A u \in Users : IsTable(taken[u], Message)
      BY EmptyLemma DEF Init
    <2> QED  BY <2>1, <2>2, DeliveryAssumption DEF Init, TypeOK
  <1>2. Origins /\ OnePlace
    BY EmptyLemma DEF Init, Origins, OnePlace, Once
  <1>3. OwnIDs /\ RecallReachesQueue
    BY EmptyLemma DEF Init, OwnIDs, RecallReachesQueue, NoRecord
  <1>4. AtMostOnce /\ ReceiptIsTrue /\ WaitingIsUndelivered
    BY EmptyLemma DEF Init, AtMostOnce, ReceiptIsTrue, WaitingIsUndelivered
  <1> QED  BY <1>1, <1>2, <1>3, <1>4 DEF IInv

\* The inductive invariant holds of every reachable state of Delivery.
THEOREM Invariance == Spec => []IInv
  <1>1. IInv /\ [Next]_vars => IInv'
    <2> SUFFICES ASSUME IInv, [Next]_vars PROVE IInv'
      OBVIOUS
    <2>1. TypeOK /\ Sound /\ Recorded
      BY DEF IInv, Sound, Recorded
    <2>2. TypeOK' /\ Sound' /\ Recorded'
      BY <2>1, TypeLemma, SoundLemma, RecordedLemma
    <2> QED  BY <2>2 DEF IInv, Sound, Recorded
  <1> QED  BY <1>1, InitLemma, PTL DEF Spec

\* Every variable of Delivery keeps its type: what the handlers put into the
\* tables, the records and the buffers are messages, rows and records.
THEOREM TypeCorrect == Spec => []TypeOK
  <1>1. IInv => TypeOK
    BY DEF IInv
  <1> QED  BY <1>1, Invariance, PTL

\* However often a client sends a message with an ID of its own again, and
\* wherever the server is restarted, no user gets it twice
\* (SaveChatMessageIfNew, TakeOfflineMessages).
THEOREM DeliveredAtMostOnce == Spec => []AtMostOnce
  <1>1. IInv => AtMostOnce
    BY DEF IInv
  <1> QED  BY <1>1, Invariance, PTL

\* A row, and so a receipt, that says "delivered" is of a message that was put
\* into the buffer of somebody it was for (broadcastMessage,
\* handlePrivateMessage).
THEOREM ReceiptsAreTrue == Spec => []ReceiptIsTrue
  <1>1. IInv => ReceiptIsTrue
    BY DEF IInv
  <1> QED  BY <1>1, Invariance, PTL

\* What waits in the offline queue with an ID of its own has not reached its
\* target and is nowhere called delivered (handlePrivateMessage,
\* TakeOfflineMessages).
THEOREM QueuedIsUndelivered == Spec => []WaitingIsUndelivered
  <1>1. IInv => WaitingIsUndelivered
    BY DEF IInv
  <1> QED  BY <1>1, Invariance, PTL

\* A message that was recalled in the life of the server that queued it is not
\* in the queue, and does not come back to it (the recall branch of
\* handleAdminAction).
THEOREM RecallsReachTheQueue == Spec => []RecallReachesQueue
  <1>1. IInv => RecallReachesQueue
    BY DEF IInv
  <1> QED  BY <1>1, Invariance, PTL

=============================================================================
