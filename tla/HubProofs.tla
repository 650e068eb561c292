----------------------------- MODULE HubProofs -----------------------------
(***************************************************************************)
(* Theorems about module Hub, for any connections, user codes, channels    *)
(* and buffer size.                                                        *)
(*                                                                         *)
(* Good(s) is what every operator on the Hub's state preserves; Keeps(s,   *)
(* t) is what a handler that leaves the Hub in state t owes to the         *)
(* goroutines of the connections.  There is a lemma per operator, in the   *)
(* order of their definitions, and a case per action in Step.              *)
(***************************************************************************)
EXTENDS Hub, TLAPS

\* The invariants of Hub, of a state within a handler.
Typed(s) == s \in HubState /\ \A c \in Conns : Len(s.send[c]) <= SendCap

SessionsAgree(s) ==
    /\ \A c \in s.clients : s.activeCodes[CodeOf[c]] = c
    /\ \A k \in Codes : s.activeCodes[k] # None =>
          s.activeCodes[k] \in s.clients /\ CodeOf[s.activeCodes[k]] = k

Open(s) == s.clients \cap (s.sendClosed \cup s.connClosed \cup s.flush) = {}

Freed(s) == ~Store => s.usedCodes = {CodeOf[c] : c \in s.clients}

Placed(s) ==
    /\ Lobby \in s.roomDefinitions
    /\ \A c \in s.clients :
        /\ \A r \in RoomNames : c \in s.rooms[r] <=> r = s.room[c]
        /\ s.room[c] \in s.roomDefinitions

Invited(s) ==
    /\ s.private \subseteq s.roomDefinitions \ {Lobby}
    /\ \A c \in s.clients :
        s.room[c] \in s.private =>
            IsAdmin(c) \/ CodeOf[c] \in s.allowed[s.room[c]]

Good(s) ==
    Typed(s) /\ SessionsAgree(s) /\ Open(s) /\ Freed(s) /\ Placed(s) /\ Invited(s)

\* The Hub has never seen c.
Fresh(s, c) ==
    /\ c \notin s.clients \cup s.sendClosed \cup s.connClosed \cup s.flush
    /\ s.room[c] = Lobby
    /\ \A r \in RoomNames : c \notin s.rooms[r]

\* From s to t nobody is dropped without the Send channel being closed, nobody
\* is added, and connections that the Hub has not seen stay so.
Keeps(s, t) ==
    /\ t.clients \subseteq s.clients
    /\ s.clients \cup s.sendClosed \subseteq t.clients \cup t.sendClosed
    /\ \A c \in Conns : Fresh(s, c) => Fresh(t, c)

\* The parts of the state that only the handlers of channels change.
SameRooms(s, t) ==
    /\ t.roomDefinitions = s.roomDefinitions /\ t.private = s.private
    /\ t.ownerCode = s.ownerCode /\ t.allowed = s.allowed /\ t.room = s.room
    /\ \A r \in RoomNames : t.rooms[r] \subseteq s.rooms[r]

-----------------------------------------------------------------------------
(* removeClient, closeSend and closeConnection.                            *)

\* The fields of t when the clients in S were removed from s.
Removed(s, t, S) ==
    /\ t \in HubState
    /\ t.clients = s.clients \ S
    /\ t.rooms = [r \in RoomNames |-> s.rooms[r] \ {c \in S : s.room[c] = r}]
    /\ t.activeCodes = [k \in Codes |->
          IF \E c \in S : CodeOf[c] = k /\ s.activeCodes[k] = c
          THEN None ELSE s.activeCodes[k]]
    /\ t.usedCodes = UsedCodesWithout(s, S)
    /\ t.roomDefinitions = s.roomDefinitions /\ t.private = s.private
    /\ t.ownerCode = s.ownerCode /\ t.allowed = s.allowed
    /\ t.room = s.room /\ t.send = s.send
    /\ t.sendClosed = s.sendClosed /\ t.connClosed = s.connClosed
    /\ t.flush = s.flush

\* RemoveClients sets the fields so.
LEMMA RemoveClientsFields ==
    ASSUME NEW s \in HubState, NEW S \in SUBSET Conns,
           NEW t, t = RemoveClients(s, S)
    PROVE  Removed(s, t, S)
  <1> DEFINE gone == [k \in Codes |->
                 IF \E c \in S : CodeOf[c] = k /\ s.activeCodes[k] = c
                 THEN None ELSE s.activeCodes[k]]
             left == [r \in RoomNames |-> s.rooms[r] \ {c \in S : s.room[c] = r}]
             used == UsedCodesWithout(s, S)
  <1>1. gone \in [Codes -> Conns \cup {None}]
    BY DEF HubState
  <1>2. left \in [RoomNames -> SUBSET Conns]
    BY DEF HubState
  <1>3. used \in SUBSET Codes /\ s.clients \ S \in SUBSET Conns
    BY DEF HubState, UsedCodesWithout
  <1>4. t = [s EXCEPT !.clients = s.clients \ S, !.rooms = left,
                      !.activeCodes = gone, !.usedCodes = used]
    BY DEF RemoveClients, HubState
  <1> HIDE DEF gone, left, used
  <1>5. /\ t \in HubState
        /\ t.clients = s.clients \ S /\ t.rooms = left
        /\ t.activeCodes = gone /\ t.usedCodes = used
        /\ t.roomDefinitions = s.roomDefinitions /\ t.private = s.private
        /\ t.ownerCode = s.ownerCode /\ t.allowed = s.allowed
        /\ t.room = s.room /\ t.send = s.send
        /\ t.sendClosed = s.sendClosed /\ t.connClosed = s.connClosed
        /\ t.flush = s.flush
    <2>1. t \in HubState
      BY <1>1, <1>2, <1>3, <1>4 DEF HubState
    <2> QED
      BY <1>4, <2>1 DEF HubState
  <1> QED
    BY <1>5 DEF Removed, gone, left, used

\* Clients that are removed leave their channel, their code and, without
\* accounts, their name; nobody else notices.
LEMMA RemoveClientsGood ==
    ASSUME NEW s, Good(s), NEW S \in SUBSET s.clients,
           NEW t, t = RemoveClients(s, S)
    PROVE  /\ Good(t) /\ SameRooms(s, t)
           /\ t.clients = s.clients \ S
           /\ t.send = s.send /\ t.sendClosed = s.sendClosed
           /\ t.connClosed = s.connClosed /\ t.flush = s.flush
           /\ \A c \in Conns : Fresh(s, c) => Fresh(t, c)
  <1>1. s \in HubState /\ S \in SUBSET Conns
    BY DEF Good, Typed, HubState
  <1>2. Removed(s, t, S)
    BY <1>1, RemoveClientsFields
  <1>3. \A c \in Conns : CodeOf[c] \in Codes /\ c # None
    BY HubAssumption
  <1>4. Typed(t)
    BY <1>2 DEF Removed, Good, Typed
  <1>5. SessionsAgree(t)
    BY <1>1, <1>2, <1>3 DEF Removed, Good, SessionsAgree, HubState
  <1>6. Open(t)
    BY <1>2 DEF Removed, Good, Open
  <1>7. Freed(t)
    <2> SUFFICES ASSUME ~Store PROVE t.usedCodes = {CodeOf[c] : c \in t.clients}
      BY DEF Freed
    <2>1. t.usedCodes = {CodeOf[c] : c \in s.clients} \ {CodeOf[c] : c \in S}
      BY <1>2 DEF Removed, UsedCodesWithout, Good, Freed
    <2>2. \A c, d \in s.clients : CodeOf[c] = CodeOf[d] => c = d
      BY DEF Good, SessionsAgree
    <2> QED
      BY <1>2, <2>1, <2>2 DEF Removed
  <1>8. Placed(t)
    BY <1>1, <1>2 DEF Removed, Good, Placed, HubState
  <1>9. Invited(t)
    BY <1>2 DEF Removed, Good, Invited
  <1>10. SameRooms(s, t)
    BY <1>2 DEF Removed, SameRooms
  <1>11. ASSUME NEW c \in Conns, Fresh(s, c) PROVE Fresh(t, c)
    BY <1>2, <1>11 DEF Removed, Fresh
  <1> QED
    BY <1>2, <1>4, <1>5, <1>6, <1>7, <1>8, <1>9, <1>10, <1>11 DEF Removed, Good

\* Closing sessions that are no longer clients.
LEMMA CloseSessionsGood ==
    ASSUME NEW s, Good(s), NEW S \in SUBSET Conns, S \cap s.clients = {},
           NEW t, t = CloseSessions(s, S)
    PROVE  /\ Good(t) /\ SameRooms(s, t)
           /\ t.clients = s.clients /\ t.send = s.send /\ t.flush = s.flush
           /\ t.sendClosed = s.sendClosed \cup S
           /\ t.connClosed = s.connClosed \cup S
           /\ \A c \in Conns \ S : Fresh(s, c) => Fresh(t, c)
  <1>1. s \in HubState
    BY DEF Good, Typed
  <1>2. /\ t.sendClosed = s.sendClosed \cup S /\ t.connClosed = s.connClosed \cup S
        /\ t.clients = s.clients /\ t.rooms = s.rooms
        /\ t.activeCodes = s.activeCodes /\ t.usedCodes = s.usedCodes
        /\ t.roomDefinitions = s.roomDefinitions /\ t.private = s.private
        /\ t.ownerCode = s.ownerCode /\ t.allowed = s.allowed
        /\ t.room = s.room /\ t.send = s.send /\ t.flush = s.flush
    BY <1>1 DEF CloseSessions, HubState
  <1>3. t \in HubState
    BY <1>1 DEF CloseSessions, HubState
  <1>4. Typed(t) /\ SessionsAgree(t) /\ Open(t)
    BY <1>2, <1>3 DEF Good, Typed, SessionsAgree, Open
  <1>5. Freed(t) /\ Placed(t) /\ Invited(t)
    BY <1>2 DEF Good, Freed, Placed, Invited
  <1>6. \A c \in Conns \ S : Fresh(s, c) => Fresh(t, c)
    BY <1>2 DEF Fresh
  <1> QED
    BY <1>2, <1>4, <1>5, <1>6 DEF Good, SameRooms

\* Nothing in Good but its type depends on what a buffer holds.
LEMMA SendGood ==
    ASSUME NEW s, Good(s), NEW q \in [Conns -> Seq(Msg)],
           \A c \in Conns : Len(q[c]) <= SendCap,
           NEW t, t = [s EXCEPT !.send = q]
    PROVE  /\ Good(t) /\ Keeps(s, t) /\ SameRooms(s, t)
           /\ t.clients = s.clients /\ t.send = q
           /\ t.sendClosed = s.sendClosed /\ t.connClosed = s.connClosed
           /\ t.flush = s.flush
  <1>1. s \in HubState
    BY DEF Good, Typed
  <1>2. /\ t.sendClosed = s.sendClosed /\ t.connClosed = s.connClosed
        /\ t.clients = s.clients /\ t.rooms = s.rooms
        /\ t.activeCodes = s.activeCodes /\ t.usedCodes = s.usedCodes
        /\ t.roomDefinitions = s.roomDefinitions /\ t.private = s.private
        /\ t.ownerCode = s.ownerCode /\ t.allowed = s.allowed
        /\ t.room = s.room /\ t.flush = s.flush
    BY <1>1 DEF HubState
  <1>3. t.send = q /\ t \in HubState
    BY <1>1 DEF HubState
  <1>4. Typed(t) /\ SessionsAgree(t) /\ Open(t)
    BY <1>2, <1>3 DEF Good, Typed, SessionsAgree, Open
  <1>5. Freed(t) /\ Placed(t) /\ Invited(t)
    BY <1>2 DEF Good, Freed, Placed, Invited
  <1>6. Keeps(s, t)
    BY <1>2 DEF Keeps, Fresh
  <1> QED
    BY <1>2, <1>3, <1>4, <1>5, <1>6 DEF Good, SameRooms

\* The state in which the buffer of c holds b.
WithSend(s, c, b) == [s EXCEPT !.send[c] = b]

\* The same for one buffer.
LEMMA SendOneGood ==
    ASSUME NEW s, Good(s), NEW c \in Conns, NEW b \in Seq(Msg), Len(b) <= SendCap,
           NEW t, t = WithSend(s, c, b)
    PROVE  /\ Good(t) /\ Keeps(s, t) /\ SameRooms(s, t)
           /\ t.clients = s.clients
  <1> DEFINE q == [s.send EXCEPT ![c] = b]
  <1>1. s.send \in [Conns -> Seq(Msg)] /\ \A d \in Conns : Len(s.send[d]) <= SendCap
    BY DEF Good, Typed, HubState
  <1>2. q \in [Conns -> Seq(Msg)]
    BY <1>1
  <1>3. \A d \in Conns : Len(q[d]) <= SendCap
    BY <1>1
  <1>4. t = [s EXCEPT !.send = q]
    BY DEF WithSend, Good, Typed, HubState
  <1> HIDE DEF q
  <1>5. ASSUME NEW x, x = [s EXCEPT !.send = q]
        PROVE  /\ Good(x) /\ Keeps(s, x) /\ SameRooms(s, x)
               /\ x.clients = s.clients /\ x.send = q
               /\ x.sendClosed = s.sendClosed /\ x.connClosed = s.connClosed
               /\ x.flush = s.flush
    BY <1>2, <1>3, <1>5, SendGood
  <1> QED
    BY <1>4, <1>5 DEF q

\* deliver() to many: a client whose buffer is full is removed and closed, and
\* nobody else changes but for the message.
LEMMA BroadcastGood ==
    ASSUME NEW s, Good(s), NEW S, NEW m \in Msg, NEW t, t = Broadcast(s, S, m)
    PROVE  Good(t) /\ Keeps(s, t) /\ SameRooms(s, t) /\ t.flush = s.flush
  <1> DEFINE live == S \cap s.clients
             slow == {c \in live : Full(s, c)}
             u == RemoveClients(s, slow)
             v == CloseSessions(u, slow)
             q == [c \in Conns |-> IF c \in live \ slow THEN Append(v.send[c], m)
                                   ELSE v.send[c]]
  <1>1. /\ s.clients \subseteq Conns /\ slow \in SUBSET s.clients
        /\ s.send \in [Conns -> Seq(Msg)] /\ \A c \in Conns : Len(s.send[c]) <= SendCap
    BY DEF Good, Typed, HubState
  <1>2. /\ Good(u) /\ SameRooms(s, u) /\ u.clients = s.clients \ slow
        /\ u.send = s.send /\ u.sendClosed = s.sendClosed
        /\ u.connClosed = s.connClosed /\ u.flush = s.flush
        /\ \A c \in Conns : Fresh(s, c) => Fresh(u, c)
    BY <1>1, RemoveClientsGood
  <1> HIDE DEF u
  <1>3. slow \in SUBSET Conns /\ slow \cap u.clients = {}
    BY <1>1, <1>2
  <1>4. /\ Good(v) /\ SameRooms(u, v)
        /\ v.clients = u.clients /\ v.send = u.send /\ v.flush = u.flush
        /\ v.sendClosed = u.sendClosed \cup slow
        /\ \A c \in Conns \ slow : Fresh(u, c) => Fresh(v, c)
    BY <1>2, <1>3, CloseSessionsGood
  <1>5. \A c \in live \ slow : Len(s.send[c]) < SendCap
    BY <1>1, HubAssumption DEF Full
  <1>6. q \in [Conns -> Seq(Msg)] /\ \A c \in Conns : Len(q[c]) <= SendCap
    <2> SUFFICES ASSUME NEW c \in Conns
                 PROVE  q[c] \in Seq(Msg) /\ Len(q[c]) <= SendCap
      OBVIOUS
    <2>1. v.send[c] = s.send[c] /\ s.send[c] \in Seq(Msg) /\ Len(s.send[c]) \in Nat
      BY <1>1, <1>2, <1>4
    <2>2. CASE c \in live \ slow
      BY <1>5, <2>1, <2>2, HubAssumption
    <2>3. CASE c \notin live \ slow
      BY <1>1, <2>1, <2>3
    <2> QED
      BY <2>2, <2>3
  <1>7. t = [v EXCEPT !.send = q]
    BY <1>4 DEF u, Broadcast, Good, Typed, HubState
  <1> HIDE DEF q, v
  <1>8. /\ Good(t) /\ Keeps(v, t) /\ SameRooms(v, t)
        /\ t.clients = v.clients /\ t.sendClosed = v.sendClosed /\ t.flush = v.flush
    BY <1>4, <1>6, <1>7, SendGood
  <1>9. SameRooms(s, t)
    BY <1>2, <1>4, <1>8 DEF SameRooms
  <1>10. \A c \in Conns : Fresh(s, c) => Fresh(t, c)
    <2> SUFFICES ASSUME NEW c \in Conns, Fresh(s, c) PROVE Fresh(t, c)
      OBVIOUS
    <2>1. c \notin slow
      BY DEF Fresh
    <2> QED
      BY <1>2, <1>4, <1>8, <2>1 DEF Keeps
  <1>11. Keeps(s, t)
    BY <1>2, <1>4, <1>8, <1>10 DEF Keeps
  <1> QED
    BY <1>2, <1>4, <1>8, <1>9, <1>11

\* What is kept from s to t and from t to u is kept from s to u.
LEMMA KeepsTransitive ==
    ASSUME NEW s, NEW t, NEW u, Keeps(s, t), Keeps(t, u)
    PROVE  Keeps(s, u)
  BY DEF Keeps

\* From s to t, c, which is no client, is marked as closed or as to be closed.
Marked(s, t, c) ==
    /\ t \in HubState
    /\ t.clients = s.clients /\ t.rooms = s.rooms
    /\ t.activeCodes = s.activeCodes /\ t.usedCodes = s.usedCodes
    /\ t.roomDefinitions = s.roomDefinitions /\ t.private = s.private
    /\ t.ownerCode = s.ownerCode /\ t.allowed = s.allowed
    /\ t.room = s.room /\ t.send = s.send
    /\ s.sendClosed \subseteq t.sendClosed /\ t.sendClosed \subseteq s.sendClosed \cup {c}
    /\ t.connClosed \subseteq s.connClosed \cup {c}
    /\ t.flush \subseteq s.flush \cup {c}

\* Marking somebody who is no client hurts nobody else.
LEMMA MarkedGood ==
    ASSUME NEW s, Good(s), NEW c \in Conns, c \notin s.clients,
           NEW t, Marked(s, t, c)
    PROVE  /\ Good(t) /\ SameRooms(s, t)
           /\ \A d \in Conns \ {c} : Fresh(s, d) => Fresh(t, d)
  <1>1. Typed(t) /\ SessionsAgree(t) /\ Open(t)
    BY DEF Marked, Good, Typed, SessionsAgree, Open
  <1>2. Freed(t) /\ Placed(t) /\ Invited(t)
    BY DEF Marked, Good, Freed, Placed, Invited
  <1>3. \A d \in Conns \ {c} : Fresh(s, d) => Fresh(t, d)
    BY DEF Marked, Fresh
  <1> QED
    BY <1>1, <1>2, <1>3 DEF Good, SameRooms, Marked

\* The markings that occur.
LEMMA Markings ==
    ASSUME NEW s \in HubState, NEW c \in Conns
    PROVE  /\ Marked(s, [s EXCEPT !.connClosed = @ \cup {c}], c)
           /\ Marked(s, [s EXCEPT !.sendClosed = @ \cup {c}], c)
           /\ Marked(s, [s EXCEPT !.flush = @ \cup {c}], c)
  <1>1. /\ [s EXCEPT !.connClosed = @ \cup {c}] \in HubState
        /\ [s EXCEPT !.sendClosed = @ \cup {c}] \in HubState
        /\ [s EXCEPT !.flush = @ \cup {c}] \in HubState
    BY DEF HubState
  <1>2. Marked(s, [s EXCEPT !.connClosed = @ \cup {c}], c)
    BY <1>1 DEF Marked, HubState
  <1>3. Marked(s, [s EXCEPT !.sendClosed = @ \cup {c}], c)
    BY <1>1 DEF Marked, HubState
  <1>4. Marked(s, [s EXCEPT !.flush = @ \cup {c}], c)
    BY <1>1 DEF Marked, HubState
  <1> QED
    BY <1>2, <1>3, <1>4

-----------------------------------------------------------------------------
(* unregisterClient and unregisterClientAfterFlush.                        *)

\* unregisterClient ends the session of c and tells its channel.
LEMMA UnregisterClientGood ==
    ASSUME NEW s, Good(s), NEW c \in Conns, NEW t, t = UnregisterClient(s, c)
    PROVE  Good(t) /\ Keeps(s, t) /\ SameRooms(s, t) /\ c \notin t.clients
  <1>1. CASE c \notin s.clients
    BY <1>1 DEF UnregisterClient, Keeps, SameRooms
  <1>2. CASE c \in s.clients
    <2> DEFINE u == RemoveClients(s, {c})
               v == Broadcast(u, u.rooms[u.room[c]], "msg")
    <2>1. /\ Good(u) /\ SameRooms(s, u) /\ u.clients = s.clients \ {c}
          /\ u.sendClosed = s.sendClosed
          /\ \A d \in Conns : Fresh(s, d) => Fresh(u, d)
      BY <1>2, RemoveClientsGood
    <2>2. Good(v) /\ Keeps(u, v) /\ SameRooms(u, v)
      BY <2>1, BroadcastGood DEF Msg
    <2>3. t = CloseSessions(v, {c})
      BY <1>2 DEF UnregisterClient
    <2> HIDE DEF u, v
    <2>4. {c} \in SUBSET Conns /\ {c} \cap v.clients = {}
      BY <2>1, <2>2 DEF Keeps
    <2>5. /\ Good(t) /\ SameRooms(v, t) /\ t.clients = v.clients
          /\ t.sendClosed = v.sendClosed \cup {c}
          /\ \A d \in Conns \ {c} : Fresh(v, d) => Fresh(t, d)
      BY <2>2, <2>3, <2>4, CloseSessionsGood
    <2>6. \A d \in Conns : Fresh(s, d) => Fresh(t, d)
      <3> SUFFICES ASSUME NEW d \in Conns, Fresh(s, d) PROVE Fresh(t, d)
        OBVIOUS
      <3>1. d # c
        BY <1>2 DEF Fresh
      <3> QED
        BY <2>1, <2>2, <2>5, <3>1 DEF Keeps
    <2>7. Keeps(s, t)
      BY <2>1, <2>2, <2>5, <2>6 DEF Keeps
    <2> QED
      BY <2>1, <2>2, <2>4, <2>5, <2>7 DEF SameRooms
  <1> QED
    BY <1>1, <1>2

\* So does unregisterClientAfterFlush, but for the socket.
LEMMA UnregisterClientAfterFlushGood ==
    ASSUME NEW s, Good(s), NEW c \in Conns,
           NEW t, t = UnregisterClientAfterFlush(s, c)
    PROVE  Good(t) /\ Keeps(s, t)
  <1>1. CASE c \notin s.clients
    BY <1>1 DEF UnregisterClientAfterFlush, Keeps
  <1>2. CASE c \in s.clients
    <2> DEFINE x == RemoveClients(s, {c})
               f == [s EXCEPT !.flush = @ \cup {c}]
               u == RemoveClients(f, {c})
               v == Broadcast(u, u.rooms[u.room[c]], "msg")
    <2>1. /\ Good(x) /\ x.clients = s.clients \ {c} /\ x.sendClosed = s.sendClosed
          /\ \A d \in Conns : Fresh(s, d) => Fresh(x, d)
      BY <1>2, RemoveClientsGood
    <2>2. x \in HubState /\ s \in HubState /\ f \in HubState /\ Marked(s, f, c)
      BY <2>1, Markings DEF Good, Typed, Marked
    <2>3. UsedCodesWithout(f, {c}) = UsedCodesWithout(s, {c})
      BY <2>2 DEF UsedCodesWithout, Marked
    <2>4. t = [v EXCEPT !.sendClosed = @ \cup {c}]
      BY <1>2 DEF UnregisterClientAfterFlush
    <2> HIDE DEF f
    <2>5. Marked(x, u, c)
      <3>1. Removed(s, x, {c}) /\ Removed(f, u, {c})
        BY <2>2, RemoveClientsFields
      <3> HIDE DEF x, u
      <3> QED
        BY <2>2, <2>3, <3>1 DEF Marked, Removed
    <2>6. Good(u) /\ \A d \in Conns \ {c} : Fresh(x, d) => Fresh(u, d)
      BY <2>1, <2>5, MarkedGood
    <2> HIDE DEF x, u
    <2>7. Good(v) /\ Keeps(u, v)
      BY <2>6, BroadcastGood DEF Msg
    <2> HIDE DEF v
    <2>8. Marked(v, t, c)
      BY <2>4, <2>7, Markings DEF Good, Typed
    <2>9. c \notin v.clients
      BY <2>1, <2>5, <2>7 DEF Marked, Keeps
    <2>10. Good(t) /\ \A d \in Conns \ {c} : Fresh(v, d) => Fresh(t, d)
      BY <2>7, <2>8, <2>9, MarkedGood
    <2>11. \A d \in Conns : Fresh(s, d) => Fresh(t, d)
      <3> SUFFICES ASSUME NEW d \in Conns, Fresh(s, d) PROVE Fresh(t, d)
        OBVIOUS
      <3>1. d # c
        BY <1>2 DEF Fresh
      <3> QED
        BY <2>1, <2>6, <2>7, <2>10, <3>1 DEF Keeps
    <2>12. c \in t.sendClosed
      BY <2>4, <2>7 DEF Good, Typed, HubState
    <2>13. Keeps(s, t)
      BY <2>1, <2>5, <2>7, <2>8, <2>11, <2>12 DEF Keeps, Marked
    <2> QED
      BY <2>10, <2>13
  <1> QED
    BY <1>1, <1>2

-----------------------------------------------------------------------------
(* Channels.                                                               *)

\* The fields of t when c went to channel r.
Moved(s, t, c, r) ==
    /\ t \in HubState
    /\ t.rooms = [q \in RoomNames |->
          IF q = r THEN s.rooms[q] \cup {c}
          ELSE IF q = s.room[c] THEN s.rooms[q] \ {c} ELSE s.rooms[q]]
    /\ t.room = [s.room EXCEPT ![c] = r]
    /\ t.clients = s.clients
    /\ t.activeCodes = s.activeCodes /\ t.usedCodes = s.usedCodes
    /\ t.roomDefinitions = s.roomDefinitions /\ t.private = s.private
    /\ t.ownerCode = s.ownerCode /\ t.allowed = s.allowed /\ t.send = s.send
    /\ t.sendClosed = s.sendClosed /\ t.connClosed = s.connClosed
    /\ t.flush = s.flush

\* MoveTo sets the fields so.
LEMMA MoveToFields ==
    ASSUME NEW s \in HubState, NEW c \in Conns, NEW r \in RoomNames,
           NEW t, t = MoveTo(s, c, r)
    PROVE  Moved(s, t, c, r)
  <1> DEFINE old == s.room[c]
             left == [s.rooms EXCEPT ![old] = s.rooms[old] \ {c}]
             rooms == [left EXCEPT ![r] = left[r] \cup {c}]
             room == [s.room EXCEPT ![c] = r]
  <1>1. /\ old \in RoomNames /\ s.rooms \in [RoomNames -> SUBSET Conns]
        /\ s.room \in [Conns -> RoomNames]
    BY DEF HubState
  <1>2. left \in [RoomNames -> SUBSET Conns] /\ rooms \in [RoomNames -> SUBSET Conns]
        /\ room \in [Conns -> RoomNames]
    BY <1>1
  <1>3. rooms = [q \in RoomNames |->
          IF q = r THEN s.rooms[q] \cup {c}
          ELSE IF q = s.room[c] THEN s.rooms[q] \ {c} ELSE s.rooms[q]]
    BY <1>1
  <1>4. RemoveFromRoom(s, c) = [s EXCEPT !.rooms = left]
    BY DEF RemoveFromRoom, HubState
  <1> HIDE DEF left, room
  <1>5. t = [s EXCEPT !.rooms = rooms, !.room = room]
    BY <1>4 DEF MoveTo, AddToRoom, HubState, room
  <1> HIDE DEF rooms
  <1>6. t \in HubState
    BY <1>2, <1>5 DEF HubState
  <1>7. /\ t.rooms = rooms /\ t.room = room /\ t.clients = s.clients
        /\ t.activeCodes = s.activeCodes /\ t.usedCodes = s.usedCodes
        /\ t.roomDefinitions = s.roomDefinitions /\ t.private = s.private
        /\ t.ownerCode = s.ownerCode /\ t.allowed = s.allowed /\ t.send = s.send
        /\ t.sendClosed = s.sendClosed /\ t.connClosed = s.connClosed
        /\ t.flush = s.flush
    BY <1>5 DEF HubState
  <1> QED
    BY <1>3, <1>6, <1>7 DEF Moved, room

\* Going to a channel that exists and that the client may join.
LEMMA MoveToGood ==
    ASSUME NEW s, Good(s), NEW c \in Conns, NEW r \in s.roomDefinitions,
           CanJoinRoom(s, c, r), NEW t, t = MoveTo(s, c, r)
    PROVE  /\ Good(t)
           /\ t.clients = s.clients /\ t.sendClosed = s.sendClosed
           /\ t.roomDefinitions = s.roomDefinitions /\ t.private = s.private
           /\ t.allowed = s.allowed /\ t.activeCodes = s.activeCodes
           /\ \A d \in Conns \ {c} : Fresh(s, d) => Fresh(t, d)
  <1>1. s \in HubState /\ r \in RoomNames
    BY DEF Good, Typed, HubState
  <1>2. Moved(s, t, c, r)
    BY <1>1, MoveToFields
  <1>3. Typed(t) /\ SessionsAgree(t) /\ Open(t) /\ Freed(t)
    BY <1>2 DEF Moved, Good, Typed, SessionsAgree, Open, Freed
  <1>4. Placed(t)
    BY <1>1, <1>2 DEF Moved, Good, Placed, HubState
  <1>5. Invited(t)
    BY <1>1, <1>2 DEF Moved, Good, Invited, HubState, CanJoinRoom
  <1>6. \A d \in Conns \ {c} : Fresh(s, d) => Fresh(t, d)
    BY <1>1, <1>2 DEF Moved, Fresh, HubState
  <1> QED
    BY <1>2, <1>3, <1>4, <1>5, <1>6 DEF Good, Moved

\* The lobby exists and anybody may join it.
LEMMA LobbyIsOpen ==
    ASSUME NEW s, Good(s), NEW c
    PROVE  Lobby \in s.roomDefinitions /\ CanJoinRoom(s, c, Lobby)
  BY DEF Good, Placed, Invited, CanJoinRoom

\* The old channel is told, the client goes, the new one is told.
LEMMA ChangeRoomGood ==
    ASSUME NEW s, Good(s), NEW c \in s.clients, NEW r \in s.roomDefinitions,
           CanJoinRoom(s, c, r), NEW t, t = ChangeRoom(s, c, r)
    PROVE  Good(t) /\ Keeps(s, t)
  <1> DEFINE left == Broadcast(s, s.rooms[s.room[c]], "msg")
             moved == MoveTo(left, c, r)
  <1>1. c \in Conns
    BY DEF Good, Typed, HubState
  <1>2. Good(left) /\ Keeps(s, left) /\ SameRooms(s, left)
    BY BroadcastGood DEF Msg
  <1>3. r \in left.roomDefinitions /\ CanJoinRoom(left, c, r)
    BY <1>2 DEF SameRooms, CanJoinRoom
  <1> HIDE DEF left
  <1>4. /\ Good(moved) /\ moved.clients = left.clients
        /\ moved.sendClosed = left.sendClosed
        /\ \A d \in Conns \ {c} : Fresh(left, d) => Fresh(moved, d)
    BY <1>1, <1>2, <1>3, MoveToGood
  <1>5. t = Broadcast(moved, moved.rooms[r], "msg")
    BY DEF ChangeRoom, left
  <1> HIDE DEF moved
  <1>6. Good(t) /\ Keeps(moved, t)
    BY <1>4, <1>5, BroadcastGood DEF Msg
  <1>7. \A d \in Conns : Fresh(s, d) => d # c
    BY DEF Fresh
  <1>8. Keeps(s, t)
    BY <1>2, <1>4, <1>6, <1>7 DEF Keeps
  <1> QED
    BY <1>6, <1>8

\* handleRoomJoin.
LEMMA RoomJoinGood ==
    ASSUME NEW s, Good(s), NEW c \in Conns, NEW r, NEW t, t = RoomJoin(s, c, r)
    PROVE  Good(t) /\ Keeps(s, t)
  <1>1. CASE c \notin s.clients
    BY <1>1 DEF RoomJoin, Keeps
  <1>2. CASE c \in s.clients /\ r \in s.roomDefinitions /\ CanJoinRoom(s, c, r)
             /\ r # s.room[c]
    BY <1>2, ChangeRoomGood DEF RoomJoin
  <1>3. CASE c \in s.clients /\ ~(r \in s.roomDefinitions /\ CanJoinRoom(s, c, r)
             /\ r # s.room[c])
    BY <1>3, BroadcastGood DEF RoomJoin, Deliver, Msg
  <1> QED
    BY <1>1, <1>2, <1>3

\* handleRoomLeave.
LEMMA RoomLeaveGood ==
    ASSUME NEW s, Good(s), NEW c \in Conns, NEW t, t = RoomLeave(s, c)
    PROVE  Good(t) /\ Keeps(s, t)
  <1>1. CASE c \notin s.clients
    BY <1>1 DEF RoomLeave, Keeps
  <1>2. CASE c \in s.clients /\ s.room[c] = Lobby
    BY <1>2, BroadcastGood DEF RoomLeave, Deliver, Msg
  <1>3. CASE c \in s.clients /\ s.room[c] # Lobby
    BY <1>3, ChangeRoomGood, LobbyIsOpen DEF RoomLeave
  <1> QED
    BY <1>1, <1>2, <1>3

\* From s to t only the definitions of channels change.
SameSessions(s, t) ==
    /\ t \in HubState
    /\ t.clients = s.clients /\ t.activeCodes = s.activeCodes
    /\ t.usedCodes = s.usedCodes /\ t.rooms = s.rooms /\ t.room = s.room
    /\ t.send = s.send /\ t.sendClosed = s.sendClosed
    /\ t.connClosed = s.connClosed /\ t.flush = s.flush

\* Then only the two clauses about channels are in question.
LEMMA DefinitionsGood ==
    ASSUME NEW s, Good(s), NEW t, SameSessions(s, t), Placed(t), Invited(t)
    PROVE  Good(t) /\ Keeps(s, t)
  <1>1. Typed(t) /\ SessionsAgree(t) /\ Open(t) /\ Freed(t)
    BY DEF SameSessions, Good, Typed, SessionsAgree, Open, Freed
  <1>2. Keeps(s, t)
    BY DEF SameSessions, Keeps, Fresh
  <1> QED
    BY <1>1, <1>2 DEF Good

\* handleRoomCreate: a name that is free is the name of no client's channel, so
\* that the new definition concerns nobody yet.
LEMMA RoomCreateGood ==
    ASSUME NEW s, Good(s), NEW c \in Conns, NEW r \in RoomNames,
           NEW isPrivate \in BOOLEAN, NEW t, t = RoomCreate(s, c, r, isPrivate)
    PROVE  Good(t) /\ Keeps(s, t)
  <1>1. CASE c \notin s.clients
    BY <1>1 DEF RoomCreate, Keeps
  <1>2. CASE c \in s.clients /\ ~NameIsFree(s, r)
    BY <1>2, BroadcastGood DEF RoomCreate, Deliver, Msg
  <1>3. CASE c \in s.clients /\ NameIsFree(s, r)
    <2> DEFINE priv == IF isPrivate THEN s.private \cup {r} ELSE s.private
               owner == [s.ownerCode EXCEPT ![r] = CodeOf[c]]
               allowed == [s.allowed EXCEPT ![r] = {CodeOf[c]}]
               u == [s EXCEPT !.roomDefinitions = @ \cup {r},
                              !.private = IF isPrivate THEN @ \cup {r} ELSE @,
                              !.ownerCode[r] = CodeOf[c],
                              !.allowed[r] = {CodeOf[c]}]
               v == Deliver(u, c, "msg")
    <2>1. s \in HubState /\ CodeOf[c] \in Codes
      BY HubAssumption DEF Good, Typed
    <2>2. /\ priv \in SUBSET RoomNames
          /\ owner \in [RoomNames -> Codes \cup {None}]
          /\ allowed \in [RoomNames -> SUBSET Codes]
          /\ s.roomDefinitions \cup {r} \in SUBSET RoomNames
      BY <2>1 DEF HubState
    <2>3. u = [s EXCEPT !.roomDefinitions = s.roomDefinitions \cup {r},
                        !.private = priv, !.ownerCode = owner, !.allowed = allowed]
      BY <2>1 DEF HubState
    <2>4. t = RoomJoin(v, c, r)
      BY <1>3 DEF RoomCreate
    <2>5. /\ \A q \in RoomNames : q # r => allowed[q] = s.allowed[q]
          /\ priv \subseteq s.private \cup {r}
      BY <2>1 DEF HubState
    <2> HIDE DEF priv, owner, allowed, u
    <2>6. u \in HubState
      BY <2>1, <2>2, <2>3 DEF HubState
    <2>7. SameSessions(s, u)
      BY <2>1, <2>3, <2>6 DEF HubState, SameSessions
    <2>8. /\ u.roomDefinitions = s.roomDefinitions \cup {r} /\ u.private = priv
          /\ u.allowed = allowed
      BY <2>1, <2>3 DEF HubState
    <2>9. Placed(u)
      BY <2>7, <2>8 DEF SameSessions, Good, Placed
    <2>10. Invited(u)
      <3>1. r # Lobby /\ \A d \in s.clients : s.room[d] # r
        BY <1>3 DEF NameIsFree, Good, Placed
      <3>2. u.private \subseteq u.roomDefinitions \ {Lobby}
        BY <2>5, <2>8, <3>1 DEF Good, Invited
      <3>3. ASSUME NEW d \in u.clients, u.room[d] \in u.private
            PROVE  IsAdmin(d) \/ CodeOf[d] \in u.allowed[u.room[d]]
        <4>1. d \in s.clients /\ u.room[d] = s.room[d] /\ s.room[d] \in RoomNames
          BY <2>1, <2>7, <3>3 DEF SameSessions, HubState
        <4>2. s.room[d] \in s.private
          BY <2>5, <2>8, <3>1, <3>3, <4>1
        <4> QED
          BY <2>5, <2>8, <3>1, <4>1, <4>2 DEF Good, Invited
      <3> QED
        BY <3>2, <3>3 DEF Invited
    <2>11. Good(u) /\ Keeps(s, u)
      BY <2>7, <2>9, <2>10, DefinitionsGood
    <2>12. Good(v) /\ Keeps(u, v)
      BY <2>11, BroadcastGood DEF Deliver, Msg
    <2> HIDE DEF v
    <2>13. Good(t) /\ Keeps(v, t)
      BY <2>4, <2>12, RoomJoinGood
    <2> QED
      BY <2>11, <2>12, <2>13, KeepsTransitive
  <1> QED
    BY <1>1, <1>2, <1>3

\* handleRoomAction, delete: every member goes to the lobby, so that nobody is
\* in the channel when its definition goes.
LEMMA RoomDeleteGood ==
    ASSUME NEW s, Good(s), NEW r \in RoomNames \ {Lobby},
           NEW t, t = RoomDelete(s, r)
    PROVE  Good(t) /\ Keeps(s, t)
  <1> DEFINE members == s.rooms[r]
             rooms == [q \in RoomNames |-> IF q = r THEN {}
                         ELSE IF q = Lobby THEN s.rooms[q] \cup members ELSE s.rooms[q]]
             room == [c \in Conns |-> IF c \in members THEN Lobby ELSE s.room[c]]
             moved == [s EXCEPT !.rooms = rooms, !.room = room]
             told == Broadcast(moved, members, "msg")
             owner == [told.ownerCode EXCEPT ![r] = None]
             allowed == [told.allowed EXCEPT ![r] = {}]
  <1>1. s \in HubState /\ Lobby \in RoomNames
    BY HubAssumption DEF Good, Typed
  <1>2. rooms \in [RoomNames -> SUBSET Conns] /\ room \in [Conns -> RoomNames]
    BY <1>1 DEF HubState
  <1>3. \A q \in RoomNames : rooms[q] = IF q = r THEN {}
           ELSE IF q = Lobby THEN s.rooms[q] \cup members ELSE s.rooms[q]
    OBVIOUS
  <1>4. t = [told EXCEPT !.roomDefinitions = @ \ {r}, !.private = @ \ {r},
                         !.ownerCode[r] = None, !.allowed[r] = {}]
    BY <1>1 DEF RoomDelete, HubState
  <1>5. \A c \in Conns : room[c] = IF c \in members THEN Lobby ELSE s.room[c]
    OBVIOUS
  <1> HIDE DEF rooms, room
  <1>6. moved \in HubState
    BY <1>1, <1>2 DEF HubState
  <1>7. /\ moved.rooms = rooms /\ moved.room = room /\ moved.clients = s.clients
        /\ moved.activeCodes = s.activeCodes /\ moved.usedCodes = s.usedCodes
        /\ moved.roomDefinitions = s.roomDefinitions /\ moved.private = s.private
        /\ moved.allowed = s.allowed /\ moved.send = s.send
        /\ moved.sendClosed = s.sendClosed /\ moved.connClosed = s.connClosed
        /\ moved.flush = s.flush
    BY <1>1 DEF HubState
  <1> HIDE DEF moved
  <1>8. Good(moved)
    <2>1. Typed(moved) /\ SessionsAgree(moved) /\ Open(moved) /\ Freed(moved)
      BY <1>6, <1>7 DEF Good, Typed, SessionsAgree, Open, Freed
    <2>2. Placed(moved)
      <3> SUFFICES ASSUME NEW c \in s.clients
                   PROVE  /\ \A q \in RoomNames : c \in rooms[q] <=> q = room[c]
                          /\ room[c] \in s.roomDefinitions
        BY <1>7 DEF Good, Placed
      <3>1. c \in Conns /\ \A q \in RoomNames : c \in s.rooms[q] <=> q = s.room[c]
        BY <1>1 DEF Good, Placed, HubState
      <3>2. s.room[c] \in s.roomDefinitions /\ Lobby \in s.roomDefinitions
        BY DEF Good, Placed
      <3>3. room[c] = IF s.room[c] = r THEN Lobby ELSE s.room[c]
        BY <1>5, <3>1
      <3>4. CASE s.room[c] = r
        BY <1>1, <1>3, <3>1, <3>2, <3>3, <3>4
      <3>5. CASE s.room[c] # r
        BY <1>1, <1>3, <3>1, <3>2, <3>3, <3>5
      <3> QED
        BY <3>4, <3>5
    <2>3. Invited(moved)
      BY <1>1, <1>5, <1>7 DEF Good, Invited, HubState
    <2> QED
      BY <2>1, <2>2, <2>3 DEF Good
  <1>9. Keeps(s, moved)
    BY <1>1, <1>3, <1>5, <1>7, SMTT(10), ZenonT(40) DEF Keeps, Fresh, HubState
  <1>10. Good(told) /\ Keeps(moved, told) /\ SameRooms(moved, told)
    BY <1>8, BroadcastGood DEF Msg
  <1>11. \A c \in told.clients : told.room[c] # r
    <2>1. told.clients \subseteq s.clients /\ told.room = room
      BY <1>7, <1>10 DEF SameRooms, Keeps
    <2>2. s.clients \subseteq Conns /\ Lobby # r
      BY <1>1 DEF HubState
    <2>3. \A c \in s.clients : s.room[c] = r => c \in members
      BY DEF Good, Placed
    <2> QED  BY <1>5, <2>1, <2>2, <2>3
  <1>12. owner \in [RoomNames -> Codes \cup {None}] /\ allowed \in [RoomNames -> SUBSET Codes]
         /\ \A q \in RoomNames : q # r => allowed[q] = told.allowed[q]
    BY <1>10 DEF Good, Typed, HubState
  <1> HIDE DEF told
  <1>13. t = [told EXCEPT !.roomDefinitions = told.roomDefinitions \ {r},
                          !.private = told.private \ {r},
                          !.ownerCode = owner, !.allowed = allowed]
    BY <1>4, <1>10 DEF Good, Typed, HubState
  <1> HIDE DEF owner, allowed
  <1>14. t \in HubState
    <2>1. told \in HubState /\ told.roomDefinitions \ {r} \in SUBSET RoomNames
          /\ told.private \ {r} \in SUBSET RoomNames
      BY <1>10 DEF Good, Typed, HubState
    <2> QED
      BY <1>12, <1>13, <2>1, SMTT(10), ZenonT(40) DEF HubState
  <1>15. SameSessions(told, t)
    BY <1>10, <1>13, <1>14 DEF Good, Typed, HubState, SameSessions
  <1>16. /\ t.roomDefinitions = told.roomDefinitions \ {r}
         /\ t.private = told.private \ {r} /\ t.allowed = allowed
    BY <1>10, <1>13 DEF Good, Typed, HubState
  <1>17. Placed(t)
    BY <1>10, <1>11, <1>15, <1>16, SMTT(10), ZenonT(40) DEF SameSessions, Good, Placed
  <1>18. Invited(t)
    <2>1. t.private \subseteq t.roomDefinitions \ {Lobby}
      BY <1>10, <1>16 DEF Good, Invited
    <2>2. \A c \in told.clients : told.room[c] \in told.private => IsAdmin(c) \/ CodeOf[c] \in told.allowed[told.room[c]]
      BY <1>10 DEF Good, Invited
    <2>3. \A c \in told.clients : told.room[c] \in RoomNames
      BY <1>10 DEF Good, Typed, HubState
    <2>4. \A c \in told.clients : allowed[told.room[c]] = told.allowed[told.room[c]]
      BY <1>11, <1>12, <2>3
    <2>5. t.clients = told.clients /\ t.room = told.room
      BY <1>15 DEF SameSessions
    <2> QED
      BY <1>16, <2>1, <2>2, <2>4, <2>5, SMTT(10), ZenonT(40) DEF Invited
  <1>19. Good(t) /\ Keeps(told, t)
    BY <1>10, <1>15, <1>17, <1>18, DefinitionsGood
  <1> QED
    BY <1>9, <1>10, <1>19, KeepsTransitive

\* handleRoomAction, invite.
LEMMA RoomInviteGood ==
    ASSUME NEW s, Good(s), NEW c, NEW r \in RoomNames, NEW code \in Codes,
           NEW t, t = RoomInvite(s, c, r, code)
    PROVE  Good(t) /\ Keeps(s, t)
  <1> DEFINE allowed == [s.allowed EXCEPT ![r] = @ \cup {code}]
             u == [s EXCEPT !.allowed = allowed]
  <1>1. s \in HubState
    BY DEF Good, Typed
  <1>2. allowed \in [RoomNames -> SUBSET Codes]
        /\ \A q \in RoomNames : s.allowed[q] \subseteq allowed[q]
    BY <1>1 DEF HubState
  <1>3. t = Deliver(u, c, "msg")
    BY <1>1 DEF RoomInvite, HubState
  <1> HIDE DEF allowed
  <1>4. u \in HubState
    BY <1>1, <1>2 DEF HubState
  <1>5. SameSessions(s, u)
    BY <1>1, <1>4 DEF SameSessions, HubState
  <1>6. /\ u.roomDefinitions = s.roomDefinitions /\ u.private = s.private
        /\ u.allowed = allowed
    BY <1>1 DEF HubState
  <1> HIDE DEF u
  <1>7. Placed(u)
    BY <1>5, <1>6 DEF SameSessions, Good, Placed
  <1>8. Invited(u)
    BY <1>1, <1>2, <1>5, <1>6 DEF SameSessions, Good, Invited, HubState
  <1>9. Good(u) /\ Keeps(s, u)
    BY <1>5, <1>7, <1>8, DefinitionsGood
  <1>10. Good(t) /\ Keeps(u, t)
    BY <1>3, <1>9, BroadcastGood DEF Deliver, Msg
  <1> QED
    BY <1>9, <1>10, KeepsTransitive

\* Withdrawing the invitation of a code whose session is not in the channel.
LEMMA UninviteGood ==
    ASSUME NEW s, Good(s), NEW r \in RoomNames, NEW code,
           \A c \in s.clients : CodeOf[c] = code => s.room[c] # r,
           NEW u, SameSessions(s, u), u.roomDefinitions = s.roomDefinitions,
           u.private = s.private, u.allowed = [s.allowed EXCEPT ![r] = @ \ {code}]
    PROVE  Good(u) /\ Keeps(s, u)
  <1>1. s \in HubState
    BY DEF Good, Typed
  <1>2. Placed(u)
    BY DEF SameSessions, Good, Placed
  <1>3. Invited(u)
    <2> SUFFICES ASSUME NEW c \in s.clients, s.room[c] \in s.private
                 PROVE  IsAdmin(c) \/ CodeOf[c] \in u.allowed[s.room[c]]
      BY DEF SameSessions, Good, Invited
    <2>1. s.room[c] \in RoomNames /\ s.allowed \in [RoomNames -> SUBSET Codes]
      BY <1>1 DEF HubState
    <2>2. IsAdmin(c) \/ CodeOf[c] \in s.allowed[s.room[c]]
      BY DEF Good, Invited
    <2> QED
      BY <2>1, <2>2
  <1> QED
    BY <1>2, <1>3, DefinitionsGood

\* handleRoomAction, remove_member: the session of the code, if there is one in
\* the channel, goes to the lobby in the same step.
LEMMA RoomRemoveMemberGood ==
    ASSUME NEW s, Good(s), NEW c, NEW r \in RoomNames \ {Lobby}, NEW code \in Codes,
           NEW t, t = RoomRemoveMember(s, c, r, code)
    PROVE  Good(t) /\ Keeps(s, t)
  <1> DEFINE allowed == [s.allowed EXCEPT ![r] = @ \ {code}]
             u == [s EXCEPT !.allowed = allowed]
             target == s.activeCodes[code]
  <1>1. s \in HubState /\ Lobby \in RoomNames
    BY HubAssumption DEF Good, Typed
  <1>2. allowed \in [RoomNames -> SUBSET Codes]
    BY <1>1 DEF HubState
  <1>3. u = [s EXCEPT !.allowed[r] = @ \ {code}]
    BY <1>1 DEF HubState
  <1> HIDE DEF allowed
  <1>4. u \in HubState
    BY <1>1, <1>2 DEF HubState
  <1>5. SameSessions(s, u)
    BY <1>1, <1>4 DEF SameSessions, HubState
  <1>6. /\ u.roomDefinitions = s.roomDefinitions /\ u.private = s.private
        /\ u.allowed = allowed
    BY <1>1 DEF HubState
  <1>7. \A d \in s.clients : CodeOf[d] = code => d = target
    BY DEF Good, SessionsAgree
  <1>8. CASE target # None /\ s.room[target] = r
    <2> DEFINE x == MoveTo(s, target, Lobby)
               y == MoveTo(u, target, Lobby)
               z == Deliver(y, target, "msg")
    <2>1. target \in s.clients /\ target \in Conns /\ CodeOf[target] = code
      BY <1>1, <1>8 DEF Good, SessionsAgree, HubState
    <2>2. /\ Good(x) /\ x.clients = s.clients /\ x.sendClosed = s.sendClosed
          /\ \A d \in Conns \ {target} : Fresh(s, d) => Fresh(x, d)
      BY <2>1, MoveToGood, LobbyIsOpen
    <2>3. Moved(s, x, target, Lobby) /\ Moved(u, y, target, Lobby)
      BY <1>1, <1>4, <2>1, MoveToFields
    <2>4. t = Deliver(z, c, "msg")
      BY <1>3, <1>8 DEF RoomRemoveMember
    <2> HIDE DEF x, y, u, target
    <2>5. SameSessions(x, y)
      BY <1>5, <2>3, SMTT(10), ZenonT(40) DEF Moved, SameSessions
    <2>6. /\ y.roomDefinitions = x.roomDefinitions /\ y.private = x.private
          /\ y.allowed = [x.allowed EXCEPT ![r] = @ \ {code}]
      BY <1>6, <2>3 DEF Moved, allowed
    <2>7. \A d \in x.clients : CodeOf[d] = code => x.room[d] # r
      BY <1>1, <1>7, <2>1, <2>3 DEF Moved, HubState
    <2>8. Good(y) /\ Keeps(x, y)
      BY <2>2, <2>5, <2>6, <2>7, UninviteGood
    <2>9. Good(z) /\ Keeps(y, z)
      BY <2>8, BroadcastGood DEF Deliver, Msg
    <2> HIDE DEF z
    <2>10. Good(t) /\ Keeps(z, t)
      BY <2>4, <2>9, BroadcastGood DEF Deliver, Msg
    <2>11. Keeps(s, x)
      BY <2>1, <2>2 DEF Keeps, Fresh
    <2> QED
      BY <2>8, <2>9, <2>10, <2>11, KeepsTransitive
  <1>9. CASE ~(target # None /\ s.room[target] = r)
    <2>1. t = Deliver(u, c, "msg")
      BY <1>3, <1>9 DEF RoomRemoveMember
    <2>2. \A d \in s.clients : CodeOf[d] = code => s.room[d] # r
      BY <1>1, <1>7, <1>9, HubAssumption DEF HubState
    <2> HIDE DEF u
    <2>3. Good(u) /\ Keeps(s, u)
      BY <1>5, <1>6, <2>2, UninviteGood DEF allowed
    <2>4. Good(t) /\ Keeps(u, t)
      BY <2>1, <2>3, BroadcastGood DEF Deliver, Msg
    <2> QED
      BY <2>3, <2>4, KeepsTransitive
  <1> QED
    BY <1>8, <1>9

\* handleRoomAction.
LEMMA RoomActionGood ==
    ASSUME NEW s, Good(s), NEW c \in Conns, NEW r \in RoomNames,
           NEW act \in RoomActions, NEW code \in Codes,
           NEW t, t = RoomAction(s, c, r, act, code)
    PROVE  Good(t) /\ Keeps(s, t)
  <1> DEFINE refused == r \notin s.roomDefinitions \/ r = Lobby \/ ~CanManageRoom(s, c, r)
  <1>1. CASE c \notin s.clients
    BY <1>1 DEF RoomAction, Keeps
  <1>2. CASE c \in s.clients /\ refused
    BY <1>2, BroadcastGood DEF RoomAction, Deliver, Msg
  <1>3. CASE c \in s.clients /\ ~refused
    <2>1. CASE act = "delete"
      <3>1. t = RoomDelete(s, r)
        BY <1>3, <2>1, Zenon DEF RoomAction
      <3> QED
        BY <1>3, <3>1, RoomDeleteGood
    <2>2. CASE act = "invite"
      <3>1. t = RoomInvite(s, c, r, code)
        BY <1>3, <2>2, Zenon DEF RoomAction
      <3> QED
        BY <1>3, <3>1, RoomInviteGood
    <2>3. CASE act = "remove_member"
      <3>1. t = RoomRemoveMember(s, c, r, code)
        BY <1>3, <2>3, Zenon DEF RoomAction
      <3> QED
        BY <1>3, <3>1, RoomRemoveMemberGood
    <2> QED
      BY <2>1, <2>2, <2>3 DEF RoomActions
  <1> QED
    BY <1>1, <1>2, <1>3

-----------------------------------------------------------------------------
(* handleRegisterRequest.                                                  *)

\* n messages to one client, as many as its buffer takes.
LEMMA DeliverEachGood ==
    ASSUME NEW s, Good(s), NEW c \in Conns, NEW n \in Nat,
           NEW t, t = DeliverEach(s, c, n)
    PROVE  Good(t) /\ Keeps(s, t)
  <1> DEFINE room == SendCap - Len(s.send[c])
             fits == IF n < room THEN n ELSE room
             more == [i \in 1..fits |-> "msg"]
             b == s.send[c] \o more
             u == WithSend(s, c, b)
  <1>1. s.send[c] \in Seq(Msg) /\ Len(s.send[c]) \in Nat /\ Len(s.send[c]) <= SendCap
    BY DEF Good, Typed, HubState
  <1>2. fits \in Nat /\ fits <= room
    <2>1. room \in Nat
      BY <1>1, HubAssumption
    <2> HIDE DEF room
    <2> QED
      BY <2>1
  <1> HIDE DEF fits
  <1>3. more \in Seq(Msg) /\ Len(more) = fits
    BY <1>2 DEF Msg
  <1> HIDE DEF more
  <1>4. b \in Seq(Msg) /\ Len(b) <= SendCap
    BY <1>1, <1>2, <1>3, HubAssumption
  <1>5. u = [s EXCEPT !.send[c] = @ \o more]
    BY DEF WithSend, Good, Typed, HubState
  <1>6. t = s \/ t = u \/ t = Deliver(u, c, "msg")
    BY <1>5 DEF DeliverEach, more, fits
  <1> HIDE DEF b
  <1>7. Good(u) /\ Keeps(s, u)
    BY <1>4, SendOneGood
  <1> HIDE DEF u
  <1>8. CASE t = s
    BY <1>8 DEF Keeps
  <1>9. CASE t = Deliver(u, c, "msg")
    <2>1. Good(t) /\ Keeps(u, t)
      BY <1>7, <1>9, BroadcastGood DEF Deliver, Msg
    <2> QED
      BY <1>7, <2>1, KeepsTransitive
  <1> QED
    BY <1>6, <1>7, <1>8, <1>9

\* After the takeover nobody is online with the code.
LEMMA TakeOverGood ==
    ASSUME NEW s, Good(s), NEW k \in Codes, NEW t, t = TakeOver(s, k)
    PROVE  /\ Good(t) /\ Keeps(s, t) /\ SameRooms(s, t)
           /\ \A c \in t.clients : CodeOf[c] # k
  <1> DEFINE old == s.activeCodes[k]
  <1>1. CASE old = None
    <2>1. t = s
      BY <1>1 DEF TakeOver
    <2>2. \A c \in s.clients : CodeOf[c] # k
      BY <1>1, HubAssumption DEF Good, SessionsAgree, Typed, HubState
    <2> QED
      BY <2>1, <2>2 DEF Keeps, SameRooms
  <1>2. CASE old # None
    <2>1. t = UnregisterClient(s, old)
      BY <1>2 DEF TakeOver
    <2>2. old \in Conns
      BY <1>2 DEF Good, Typed, HubState
    <2>3. Good(t) /\ Keeps(s, t) /\ SameRooms(s, t) /\ old \notin t.clients
      BY <2>1, <2>2, UnregisterClientGood
    <2>4. \A c \in t.clients : CodeOf[c] # k
      <3>1. \A c \in t.clients : c \in s.clients /\ c # old
        BY <2>3 DEF Keeps
      <3>2. \A c \in s.clients : CodeOf[c] = k => c = old
        BY DEF Good, SessionsAgree
      <3> QED
        BY <3>1, <3>2, Zenon
    <2> QED
      BY <2>3, <2>4
  <1> QED
    BY <1>1, <1>2

\* c becomes the session of its code.
Enter(s, c) ==
    AddToRoom([s EXCEPT !.usedCodes = @ \cup {CodeOf[c]}, !.activeCodes[CodeOf[c]] = c,
                        !.clients = @ \cup {c}], c, s.room[c])

\* A connection that the Hub has not seen may, when nobody is online with its code.
LEMMA EnterGood ==
    ASSUME NEW s, Good(s), NEW c \in Conns, Fresh(s, c),
           \A d \in s.clients : CodeOf[d] # CodeOf[c],
           NEW t, t = Enter(s, c)
    PROVE  /\ Good(t) /\ t.clients = s.clients \cup {c}
           /\ t.sendClosed = s.sendClosed
           /\ \A d \in Conns \ {c} : Fresh(s, d) => Fresh(t, d)
  <1> DEFINE k == CodeOf[c]
             used == s.usedCodes \cup {k}
             codes == [s.activeCodes EXCEPT ![k] = c]
             clients == s.clients \cup {c}
             rooms == [s.rooms EXCEPT ![Lobby] = @ \cup {c}]
  <1>1. s \in HubState /\ k \in Codes /\ Lobby \in RoomNames /\ s.room[c] = Lobby /\ c # None
    BY HubAssumption DEF Good, Typed, Fresh
  <1>2. /\ used \in SUBSET Codes /\ codes \in [Codes -> Conns \cup {None}]
        /\ clients \in SUBSET Conns /\ rooms \in [RoomNames -> SUBSET Conns]
    BY <1>1 DEF HubState
  <1>3. t = [s EXCEPT !.usedCodes = used, !.activeCodes = codes,
                      !.clients = clients, !.rooms = rooms]
    BY <1>1 DEF Enter, AddToRoom, HubState
  <1>4. /\ \A r \in RoomNames : rooms[r] = IF r = Lobby THEN s.rooms[r] \cup {c} ELSE s.rooms[r]
        /\ \A x \in Codes : codes[x] = IF x = k THEN c ELSE s.activeCodes[x]
    BY <1>1 DEF HubState
  <1> HIDE DEF used, codes, rooms, clients
  <1>5. t \in HubState
    BY <1>1, <1>2, <1>3 DEF HubState
  <1>6. /\ t.usedCodes = used /\ t.activeCodes = codes /\ t.clients = clients
        /\ t.rooms = rooms
        /\ t.roomDefinitions = s.roomDefinitions /\ t.private = s.private
        /\ t.allowed = s.allowed /\ t.room = s.room /\ t.send = s.send
        /\ t.sendClosed = s.sendClosed /\ t.connClosed = s.connClosed
        /\ t.flush = s.flush
    BY <1>1, <1>3 DEF HubState
  <1>7. Typed(t) /\ Open(t)
    BY <1>5, <1>6 DEF Good, Typed, Open, Fresh, clients
  <1>8. SessionsAgree(t)
    <2>1. \A d \in s.clients : d \in Conns /\ CodeOf[d] \in Codes
      BY <1>1, HubAssumption DEF HubState
    <2>2. \A d \in t.clients : t.activeCodes[CodeOf[d]] = d
      <3>1. \A d \in s.clients : s.activeCodes[CodeOf[d]] = d
        BY DEF Good, SessionsAgree
      <3> QED
        BY <1>1, <1>4, <1>6, <2>1, <3>1, SMTT(10), ZenonT(40) DEF clients
    <2>3. \A x \in Codes : t.activeCodes[x] # None =>
             t.activeCodes[x] \in t.clients /\ CodeOf[t.activeCodes[x]] = x
      BY <1>1, <1>4, <1>6, <2>1, SMTT(10), ZenonT(40) DEF Good, SessionsAgree, clients
    <2> QED
      BY <2>2, <2>3 DEF SessionsAgree
  <1>9. Freed(t)
    BY <1>6, SMTT(10), ZenonT(40) DEF Good, Freed, used, clients
  <1>10. Placed(t)
    <2> SUFFICES ASSUME NEW d \in clients
                 PROVE  /\ \A r \in RoomNames : d \in rooms[r] <=> r = s.room[d]
                        /\ s.room[d] \in s.roomDefinitions
      BY <1>6, SMTT(10), ZenonT(40) DEF Good, Placed
    <2>1. CASE d = c
      BY <1>1, <1>4, <2>1, SMTT(10), ZenonT(40) DEF Good, Placed, Fresh
    <2>2. CASE d \in s.clients /\ d # c
      <3>1. /\ \A r \in RoomNames : d \in s.rooms[r] <=> r = s.room[d]
            /\ s.room[d] \in s.roomDefinitions
        BY <2>2 DEF Good, Placed
      <3>2. ASSUME NEW r \in RoomNames PROVE d \in rooms[r] <=> d \in s.rooms[r]
        <4>1. rooms[r] = IF r = Lobby THEN s.rooms[r] \cup {c} ELSE s.rooms[r]
          BY <1>4
        <4> QED
          BY <2>2, <4>1
      <3> QED
        BY <3>1, <3>2
    <2> QED
      BY <2>1, <2>2 DEF clients
  <1>11. Invited(t)
    BY <1>1, <1>6 DEF Good, Invited, clients
  <1>12. \A d \in Conns \ {c} : Fresh(s, d) => Fresh(t, d)
    <2> SUFFICES ASSUME NEW d \in Conns \ {c}, Fresh(s, d) PROVE Fresh(t, d)
      OBVIOUS
    <2>1. d \notin clients \cup s.sendClosed \cup s.connClosed \cup s.flush
      BY DEF Fresh, clients
    <2>2. s.room[d] = Lobby /\ \A r \in RoomNames : d \notin rooms[r]
      BY <1>4 DEF Fresh
    <2> QED
      BY <1>6, <2>1, <2>2 DEF Fresh
  <1> QED
    BY <1>6, <1>7, <1>8, <1>9, <1>10, <1>11, <1>12 DEF Good, clients

\* handleRegisterRequest, when it succeeds.
LEMMA RegisterGood ==
    ASSUME NEW s, Good(s), NEW c \in Conns, Fresh(s, c), NEW n \in Nat,
           Register(s, c, n).ok, NEW t, t = Register(s, c, n).state
    PROVE  /\ Good(t)
           /\ s.clients \cup s.sendClosed \cup {c} \subseteq t.clients \cup t.sendClosed
           /\ \A d \in Conns \ {c} : Fresh(s, d) => Fresh(t, d)
  <1> DEFINE k == CodeOf[c]
             x == TakeOver(s, k)
             u == Enter(x, c)
             v == Broadcast(u, u.rooms[u.room[c]], "msg")
  <1>1. k \in Codes
    BY HubAssumption
  <1>2. Good(x) /\ Keeps(s, x) /\ \A d \in x.clients : CodeOf[d] # k
    BY <1>1, TakeOverGood
  <1>3. t = v \/ t = DeliverEach(v, c, n)
    BY DEF Register, Enter
  <1> HIDE DEF x
  <1>4. /\ Good(u) /\ u.clients = x.clients \cup {c} /\ u.sendClosed = x.sendClosed
        /\ \A d \in Conns \ {c} : Fresh(x, d) => Fresh(u, d)
    <2>1. Fresh(x, c)
      BY <1>2 DEF Keeps
    <2> QED
      BY <1>2, <2>1, EnterGood
  <1> HIDE DEF u
  <1>5. Good(v) /\ Keeps(u, v)
    BY <1>4, BroadcastGood DEF Msg
  <1> HIDE DEF v
  <1>6. Good(t) /\ Keeps(v, t)
    <2>1. Good(v) /\ Keeps(v, v)
      BY <1>5 DEF Keeps
    <2> QED
      BY <1>3, <2>1, DeliverEachGood
  <1> QED
    BY <1>2, <1>4, <1>5, <1>6 DEF Keeps

-----------------------------------------------------------------------------
(* The goroutines.                                                         *)

Busy(c) ==
    \/ pc[c] \in {"greeting", "pushing", "offering", "reading", "sending"}
    \/ writer[c] \in {"running", "failed"}

Control ==
    /\ pc \in [Conns -> HandlerState]
    /\ writer \in [Conns -> WriterState]
    /\ kick = <<>> \/ kick \in Conns \X Conns

\* The inductive invariant.  Besides the Hub's state it needs what is known of a
\* connection that has not been registered: the Hub has never seen it.
IInv ==
    /\ Good(h)
    /\ Control
    /\ \A c \in Conns : pc[c] = "login" => Fresh(h, c) /\ writer[c] = "off"
    /\ \A c \in Conns : Busy(c) => c \in h.clients \cup h.sendClosed

\* No step drops a client without closing its Send channel.
Covered == h.clients \cup h.sendClosed \subseteq h'.clients \cup h'.sendClosed

\* What a step has to keep.
LEMMA StepGood ==
    ASSUME IInv, Good(h'), Covered, Control',
           \A c \in Conns : pc'[c] = "login" =>
               pc[c] = "login" /\ writer'[c] = writer[c] /\ (Fresh(h, c) => Fresh(h', c)),
           \A c \in Conns : Busy(c)' => Busy(c) \/ c \in h'.clients \cup h'.sendClosed
    PROVE  IInv'
  <1>1. \A c \in Conns : (pc[c] = "login" => Fresh(h, c) /\ writer[c] = "off")'
    BY DEF IInv
  <1>2. \A c \in Conns : (Busy(c) => c \in h.clients \cup h.sendClosed)'
    BY DEF IInv, Covered
  <1> QED
    BY <1>1, <1>2 DEF IInv

\* The handler of c goes on and the Hub's state changes to s.
LEMMA GotoGood ==
    ASSUME IInv, NEW c \in Conns, NEW from \in HandlerState \ {"login", "done"},
           NEW to \in HandlerState \ {"login"}, Goto(c, from, to),
           from = "leaving" => to = "done",
           Good(h'), Keeps(h, h'), UNCHANGED <<writer, kick>>
    PROVE  IInv' /\ Covered
  <1>1. Covered
    BY DEF Covered, Keeps
  <1>2. Control'
    BY DEF IInv, Control, Goto
  <1>3. \A d \in Conns : pc'[d] = IF d = c THEN to ELSE pc[d]
    BY DEF IInv, Control, Goto
  <1>4. \A d \in Conns : pc'[d] = "login" =>
            pc[d] = "login" /\ writer'[d] = writer[d] /\ (Fresh(h, d) => Fresh(h', d))
    BY <1>3 DEF Keeps
  <1>5. \A d \in Conns : Busy(d)' => Busy(d)
    <2> SUFFICES ASSUME NEW d \in Conns, Busy(d)' PROVE Busy(d)
      OBVIOUS
    <2>1. CASE d # c
      BY <1>3, <2>1 DEF Busy
    <2>2. CASE d = c /\ writer[c] \in {"running", "failed"}
      BY <2>2 DEF Busy
    <2>3. CASE d = c /\ writer[c] \notin {"running", "failed"}
      BY <1>3, <2>3 DEF Busy, Goto, HandlerState
    <2> QED
      BY <2>1, <2>2, <2>3
  <1> QED
    BY <1>1, <1>2, <1>4, <1>5, StepGood

\* Nothing is lost when the Hub's state stays as it is.
LEMMA KeepsSame ==
    ASSUME NEW s, NEW t, t = s PROVE Keeps(s, t)
  BY DEF Keeps

\* The Hub serves a request.
LEMMA ServeGood ==
    ASSUME IInv, NEW c \in Conns, NEW s, Good(s), Keeps(h, s), Serve(c, s)
    PROVE  IInv' /\ Covered
  <1>1. /\ Goto(c, "sending", "reading") /\ Good(h') /\ Keeps(h, h')
        /\ UNCHANGED <<writer, kick>>
    BY DEF Serve
  <1>2. "sending" \in HandlerState \ {"login", "done"} /\ "reading" \in HandlerState \ {"login"}
    BY DEF HandlerState
  <1> QED
    BY <1>1, <1>2, GotoGood

\* Of an active code, the session.
LEMMA ActiveCode ==
    ASSUME NEW s, Good(s), NEW k \in Codes
    PROVE  s.activeCodes[k] \in Conns \cup {None}
  BY DEF Good, Typed, HubState

\* The login handler, up to the registration.
LEMMA LoginStep ==
    ASSUME IInv, NEW c \in Conns,
           LoginRejected(c) \/ \E n \in 0..MaxPending : HandleRegister(c, n)
    PROVE  IInv' /\ Covered
  <1> DEFINE rejected == Goto(c, "login", "done") /\ CloseConn(c) /\ UNCHANGED <<writer, kick>>
  <1>1. CASE rejected
    <2>1. pc[c] = "login" /\ Fresh(h, c) /\ writer[c] = "off" /\ c \notin h.clients
      BY <1>1 DEF IInv, Goto, Fresh
    <2>2. Marked(h, h', c)
      BY <1>1, Markings DEF CloseConn, IInv, Good, Typed
    <2>3. Good(h') /\ \A d \in Conns \ {c} : Fresh(h, d) => Fresh(h', d)
      BY <2>1, <2>2, MarkedGood DEF IInv
    <2>4. Covered
      BY <2>2 DEF Covered, Marked
    <2>5. Control' /\ \A d \in Conns : pc'[d] = IF d = c THEN "done" ELSE pc[d]
      BY <1>1 DEF IInv, Control, Goto, HandlerState
    <2>6. \A d \in Conns : Busy(d)' => Busy(d)
      BY <1>1, <2>1, <2>5 DEF Busy
    <2>7. \A d \in Conns : pc'[d] = "login" =>
              pc[d] = "login" /\ writer'[d] = writer[d] /\ (Fresh(h, d) => Fresh(h', d))
      BY <1>1, <2>3, <2>5
    <2> QED
      BY <2>3, <2>4, <2>5, <2>6, <2>7, StepGood
  <1>2. ASSUME NEW n \in 0..MaxPending, HandleRegister(c, n), Register(h, c, n).ok
        PROVE  IInv' /\ Covered
    <2>1. /\ h' = Register(h, c, n).state /\ Goto(c, "login", "greeting")
          /\ UNCHANGED <<writer, kick>>
      BY <1>2 DEF HandleRegister
    <2>2. n \in Nat /\ Fresh(h, c) /\ Good(h)
      BY <2>1, HubAssumption, SMTT(10), ZenonT(40) DEF IInv, Goto
    <2>3. /\ Good(h')
          /\ h.clients \cup h.sendClosed \cup {c} \subseteq h'.clients \cup h'.sendClosed
          /\ \A d \in Conns \ {c} : Fresh(h, d) => Fresh(h', d)
      BY <1>2, <2>1, <2>2, RegisterGood, SMTT(10), ZenonT(40)
    <2>4. Control' /\ \A d \in Conns : pc'[d] = IF d = c THEN "greeting" ELSE pc[d]
      BY <2>1 DEF IInv, Control, Goto, HandlerState
    <2>5. \A d \in Conns : Busy(d)' => Busy(d) \/ d \in h'.clients \cup h'.sendClosed
      BY <2>1, <2>3, <2>4 DEF Busy
    <2>6. \A d \in Conns : pc'[d] = "login" =>
              pc[d] = "login" /\ writer'[d] = writer[d] /\ (Fresh(h, d) => Fresh(h', d))
      BY <2>1, <2>3, <2>4
    <2>7. Covered
      BY <2>3 DEF Covered
    <2> QED
      BY <2>3, <2>4, <2>5, <2>6, <2>7, StepGood
  <1>3. ASSUME NEW n \in 0..MaxPending, HandleRegister(c, n), ~Register(h, c, n).ok
        PROVE  rejected
    BY <1>3 DEF HandleRegister
  <1> QED
    BY <1>1, <1>2, <1>3 DEF LoginRejected

\* The handler, from the greeting until it reads.
LEMMA HandlerStep ==
    ASSUME IInv, NEW c \in Conns,
           \/ SendLoginOk(c) \/ LoginOkFails(c) \/ PushNext(c) \/ Push(c)
           \/ PushDone(c) \/ Receive(c) \/ ReceiveFails(c)
    PROVE  IInv' /\ Covered
  <1> USE DEF HandlerState
  <1>1. CASE SendLoginOk(c)
    <2>1. /\ h' = h /\ kick' = kick /\ pc[c] = "greeting"
          /\ pc' = [pc EXCEPT ![c] = "pushing"]
          /\ writer' = [writer EXCEPT ![c] = "running"]
      BY <1>1 DEF SendLoginOk, Goto
    <2>2. Good(h') /\ Covered
      BY <2>1 DEF IInv, Covered
    <2>3. Control'
      BY <2>1 DEF IInv, Control, WriterState
    <2>4. \A d \in Conns : /\ pc'[d] = IF d = c THEN "pushing" ELSE pc[d]
                           /\ writer'[d] = IF d = c THEN "running" ELSE writer[d]
      BY <2>1 DEF IInv, Control
    <2>5. \A d \in Conns : Busy(d)' => Busy(d)
      BY <2>1, <2>4 DEF Busy
    <2>6. \A d \in Conns : pc'[d] = "login" =>
              pc[d] = "login" /\ writer'[d] = writer[d] /\ (Fresh(h, d) => Fresh(h', d))
      BY <2>1, <2>4
    <2> QED
      BY <2>2, <2>3, <2>5, <2>6, StepGood
  <1>2. CASE \/ LoginOkFails(c) \/ PushNext(c) \/ PushDone(c)
             \/ Receive(c) \/ ReceiveFails(c)
    <2>1. h' = h /\ UNCHANGED <<writer, kick>>
      BY <1>2 DEF LoginOkFails, PushNext, PushDone, Receive, ReceiveFails
    <2>2. Good(h') /\ Keeps(h, h')
      BY <2>1, KeepsSame DEF IInv
    <2>3. \/ Goto(c, "greeting", "leaving") \/ Goto(c, "pushing", "offering")
          \/ Goto(c, "pushing", "reading") \/ Goto(c, "reading", "sending")
          \/ Goto(c, "reading", "leaving")
      BY <1>2 DEF LoginOkFails, PushNext, PushDone, Receive, ReceiveFails
    <2> QED
      BY <2>1, <2>2, <2>3, GotoGood
  <1>3. CASE Push(c)
    <2>1. CASE c \in h.sendClosed
      <3>1. Goto(c, "offering", "leaving") /\ h' = h /\ UNCHANGED <<writer, kick>>
        BY <1>3, <2>1 DEF Push
      <3>2. Good(h') /\ Keeps(h, h')
        BY <3>1, KeepsSame DEF IInv
      <3> QED
        BY <3>1, <3>2, GotoGood
    <2>2. CASE c \notin h.sendClosed
      <3> DEFINE b == Append(h.send[c], "msg")
      <3>1. /\ Goto(c, "offering", "pushing") /\ UNCHANGED <<writer, kick>>
            /\ Len(h.send[c]) < SendCap /\ h' = WithSend(h, c, b)
        BY <1>3, <2>2 DEF Push, WithSend, IInv, Good, Typed, HubState
      <3>2. h.send[c] \in Seq(Msg)
        BY DEF IInv, Good, Typed, HubState
      <3>3. b \in Seq(Msg) /\ Len(b) <= SendCap
        BY <3>1, <3>2, HubAssumption DEF Msg
      <3> HIDE DEF b
      <3>4. Good(h') /\ Keeps(h, h')
        BY <3>1, <3>3, SendOneGood DEF IInv
      <3> QED
        BY <3>1, <3>4, GotoGood
    <2> QED
      BY <2>1, <2>2
  <1> QED
    BY <1>1, <1>2, <1>3

\* The requests of readPump, but for kicks.
LEMMA RequestStep ==
    ASSUME IInv, NEW c \in Conns, Request(c), ~\E code \in Codes : KickNotify(c, code)
    PROVE  IInv' /\ Covered
  <1> USE DEF Msg
  <1>0. Good(h)
    BY DEF IInv
  <1>1. CASE HandleRoomLeave(c)
    BY <1>0, <1>1, RoomLeaveGood, ServeGood DEF HandleRoomLeave
  <1>2. CASE HandleChatNotSaved(c)
    BY <1>0, <1>2, BroadcastGood, ServeGood DEF HandleChatNotSaved, Deliver
  <1>3. CASE HandleQuit(c)
    <2>1. /\ Goto(c, "sending", "leaving") /\ UNCHANGED <<writer, kick>>
          /\ h' = UnregisterClient(h, c)
      BY <1>3 DEF HandleQuit
    <2>2. Good(h') /\ Keeps(h, h')
      BY <1>0, <2>1, UnregisterClientGood
    <2> QED
      BY <2>1, <2>2, GotoGood DEF HandlerState
  <1>4. ASSUME NEW receipt \in BOOLEAN, HandleChat(c, receipt)
        PROVE  IInv' /\ Covered
    <2> DEFINE said == Broadcast(h, ChatAudience(h, c), "msg")
               heard == Deliver(said, h.activeCodes[CodeOf[c]], "msg")
    <2>1. Good(said) /\ Keeps(h, said)
      BY <1>0, BroadcastGood
    <2>2. Serve(c, IF receipt THEN heard ELSE said)
      BY <1>4 DEF HandleChat
    <2> HIDE DEF said
    <2>3. Good(heard) /\ Keeps(said, heard)
      BY <2>1, BroadcastGood DEF Deliver
    <2>4. Keeps(h, heard)
      BY <2>1, <2>3, KeepsTransitive
    <2> HIDE DEF heard
    <2> QED
      BY <2>1, <2>2, <2>3, <2>4, ServeGood
  <1>5. ASSUME NEW S \in SUBSET Conns, HandleRelay(c, S)
        PROVE  IInv' /\ Covered
    <2> DEFINE told == IF c \in h.clients THEN Broadcast(h, S, "msg") ELSE h
    <2>1. Good(told) /\ Keeps(h, told)
      BY <1>0, BroadcastGood, KeepsSame
    <2> QED
      BY <1>5, <2>1, ServeGood DEF HandleRelay
  <1>6. ASSUME NEW r \in RoomNames, HandleRoomJoin(c, r)
        PROVE  IInv' /\ Covered
    BY <1>0, <1>6, RoomJoinGood, ServeGood DEF HandleRoomJoin
  <1>7. ASSUME NEW r \in RoomNames, NEW isPrivate \in BOOLEAN,
               HandleRoomCreate(c, r, isPrivate)
        PROVE  IInv' /\ Covered
    BY <1>0, <1>7, RoomCreateGood, ServeGood DEF HandleRoomCreate
  <1>8. ASSUME NEW r \in RoomNames, NEW act \in RoomActions, NEW code \in Codes,
               HandleRoomAction(c, r, act, code)
        PROVE  IInv' /\ Covered
    BY <1>0, <1>8, RoomActionGood, ServeGood DEF HandleRoomAction
  <1> QED
    BY <1>1, <1>2, <1>3, <1>4, <1>5, <1>6, <1>7, <1>8 DEF Request

\* The session of c ends and its socket is closed.
LEMMA EndedGood ==
    ASSUME IInv, NEW c \in Conns, h' = [UnregisterClient(h, c) EXCEPT !.connClosed = @ \cup {c}]
    PROVE  /\ Good(h') /\ Covered
           /\ \A d \in Conns \ {c} : Fresh(h, d) => Fresh(h', d)
  <1> DEFINE s == UnregisterClient(h, c)
  <1>1. Good(s) /\ Keeps(h, s) /\ c \notin s.clients
    BY UnregisterClientGood DEF IInv
  <1> HIDE DEF s
  <1>2. h' = [s EXCEPT !.connClosed = @ \cup {c}]
    BY DEF s
  <1>3. Marked(s, h', c)
    BY <1>1, <1>2, Markings DEF Good, Typed
  <1>4. Good(h') /\ \A d \in Conns \ {c} : Fresh(s, d) => Fresh(h', d)
    BY <1>1, <1>3, MarkedGood
  <1> QED
    BY <1>1, <1>3, <1>4 DEF Keeps, Covered, Marked

\* The handler's, or writePump's, Unregister.
LEMMA UnregisterStep ==
    ASSUME IInv, NEW c \in Conns, HandleUnregister(c) \/ HandleWriterUnregister(c)
    PROVE  IInv' /\ Covered
  <1> USE DEF HandlerState, WriterState
  <1>1. Good(h') /\ Covered /\ \A d \in Conns \ {c} : Fresh(h, d) => Fresh(h', d)
    BY EndedGood DEF HandleUnregister, HandleWriterUnregister
  <1>2. CASE HandleUnregister(c)
    <2>1. /\ pc[c] = "leaving" /\ pc' = [pc EXCEPT ![c] = "done"]
          /\ UNCHANGED <<writer, kick>>
      BY <1>2 DEF HandleUnregister, Goto
    <2>2. Control' /\ \A d \in Conns : pc'[d] = IF d = c THEN "done" ELSE pc[d]
      BY <2>1 DEF IInv, Control
    <2>3. \A d \in Conns : Busy(d)' => Busy(d)
      BY <2>1, <2>2 DEF Busy
    <2>4. \A d \in Conns : pc'[d] = "login" =>
              pc[d] = "login" /\ writer'[d] = writer[d] /\ (Fresh(h, d) => Fresh(h', d))
      BY <1>1, <2>1, <2>2
    <2> QED
      BY <1>1, <2>2, <2>3, <2>4, StepGood
  <1>3. CASE HandleWriterUnregister(c)
    <2>1. /\ writer[c] = "failed" /\ writer' = [writer EXCEPT ![c] = "exited"]
          /\ UNCHANGED <<pc, kick>>
      BY <1>3 DEF HandleWriterUnregister
    <2>2. Control' /\ \A d \in Conns : writer'[d] = IF d = c THEN "exited" ELSE writer[d]
      BY <2>1 DEF IInv, Control
    <2>3. \A d \in Conns : Busy(d)' => Busy(d)
      BY <2>1, <2>2 DEF Busy
    <2>4. pc[c] # "login"
      BY <2>1 DEF IInv
    <2>5. \A d \in Conns : pc'[d] = "login" =>
              pc[d] = "login" /\ writer'[d] = writer[d] /\ (Fresh(h, d) => Fresh(h', d))
      BY <1>1, <2>1, <2>2, <2>4
    <2> QED
      BY <1>1, <2>2, <2>3, <2>5, StepGood
  <1> QED
    BY <1>2, <1>3

\* The administrator's actions.
LEMMA AdminStep ==
    ASSUME IInv,
           \/ TellAdmins \/ KickRemove
           \/ \E c \in Conns, code \in Codes : KickNotify(c, code)
    PROVE  IInv' /\ Covered
  <1> USE DEF Msg
  <1>0. Good(h)
    BY DEF IInv
  <1>1. CASE TellAdmins
    <2>1. h' = Broadcast(h, Admins(h), "msg") /\ UNCHANGED <<pc, writer, kick>>
      BY <1>1 DEF TellAdmins
    <2>2. Good(h') /\ Keeps(h, h')
      BY <1>0, <2>1, BroadcastGood
    <2> QED
      BY <2>1, <2>2, StepGood DEF IInv, Control, Covered, Keeps, Busy
  <1>2. CASE KickRemove
    <2> DEFINE s == UnregisterClientAfterFlush(h, kick[2])
    <2>1. /\ kick # <<>> /\ h' = Deliver(s, kick[1], "msg") /\ kick' = <<>>
          /\ UNCHANGED <<pc, writer>>
      BY <1>2 DEF KickRemove
    <2>2. kick[2] \in Conns
      BY <2>1 DEF IInv, Control
    <2>3. Good(s) /\ Keeps(h, s)
      BY <1>0, <2>2, UnregisterClientAfterFlushGood
    <2> HIDE DEF s
    <2>4. Good(h') /\ Keeps(s, h')
      BY <2>1, <2>3, BroadcastGood DEF Deliver
    <2>5. Keeps(h, h')
      BY <2>3, <2>4, KeepsTransitive
    <2> QED
      BY <2>1, <2>4, <2>5, StepGood DEF IInv, Control, Covered, Keeps, Busy
  <1>3. ASSUME NEW c \in Conns, NEW code \in Codes, KickNotify(c, code)
        PROVE  IInv' /\ Covered
    <2> DEFINE target == h.activeCodes[code]
    <2>1. /\ Goto(c, "sending", "reading") /\ writer' = writer
          /\ \/ h' = Deliver(h, target, "kick") /\ kick' = <<c, target>> /\ target # None
             \/ h' = Deliver(h, c, "msg") /\ kick' = kick
      BY <1>3 DEF KickNotify
    <2>2. Good(h') /\ Keeps(h, h')
      BY <1>0, <2>1, BroadcastGood DEF Deliver
    <2>3. target \in Conns \cup {None}
      BY <1>0, ActiveCode
    <2>4. Control' /\ \A d \in Conns : pc'[d] = IF d = c THEN "reading" ELSE pc[d]
      BY <2>1, <2>3, SMTT(10), ZenonT(40) DEF IInv, Control, Goto, HandlerState
    <2>5. \A d \in Conns : Busy(d)' => Busy(d)
      BY <2>1, <2>4 DEF Busy, Goto
    <2>6. \A d \in Conns : pc'[d] = "login" =>
              pc[d] = "login" /\ writer'[d] = writer[d] /\ (Fresh(h, d) => Fresh(h', d))
      BY <2>1, <2>2, <2>4 DEF Keeps
    <2> QED
      BY <2>2, <2>4, <2>5, <2>6, StepGood DEF Covered, Keeps
  <1> QED
    BY <1>1, <1>2, <1>3

\* The write of the oldest message shortens the buffer.
LEMMA TakeOneGood ==
    ASSUME NEW s, Good(s), NEW c \in Conns, s.send[c] # <<>>,
           NEW t, t = WithSend(s, c, Tail(s.send[c]))
    PROVE  Good(t) /\ Keeps(s, t) /\ t.clients = s.clients
  <1> DEFINE b == Tail(s.send[c])
  <1>1. s.send[c] \in Seq(Msg) /\ Len(s.send[c]) <= SendCap
    BY DEF Good, Typed, HubState
  <1>2. b \in Seq(Msg) /\ Len(b) <= SendCap
    BY <1>1, HubAssumption
  <1>3. t = WithSend(s, c, b)
    OBVIOUS
  <1> HIDE DEF b
  <1> QED
    BY <1>2, <1>3, SendOneGood

\* writePump.  The connection it closes is one the Hub has let go.
LEMMA WriterStep ==
    ASSUME IInv, NEW c \in Conns, Writer(c)
    PROVE  IInv' /\ Covered
  <1> DEFINE b == Tail(h.send[c])
             s == WithSend(h, c, b)
             last == c \in h.flush /\ Head(h.send[c]) = "kick"
  <1>1. /\ writer[c] = "running" /\ pc[c] # "login" /\ c \notin h.flush \cap h.clients
        /\ h \in HubState /\ Good(h)
    BY DEF Writer, Write, WriteFails, WriterEnds, IInv, Good, Open, Typed
  <1>2. \E to \in WriterState : writer' = [writer EXCEPT ![c] = to]
    BY DEF Writer, Write, WriteFails, WriterEnds, WriterState
  <1>3. pc' = pc /\ kick' = kick
    BY DEF Writer, Write, WriteFails, WriterEnds
  <1>4. h' = h \/ h.send[c] # <<>>
    BY DEF Writer, Write, WriteFails, WriterEnds
  <1>5. h' # h => h' = s \/ (c \in h.flush /\ h' = [s EXCEPT !.connClosed = @ \cup {c}])
    BY <1>1 DEF Writer, Write, WriteFails, WriterEnds, HubState, WithSend
  <1>6. ASSUME h.send[c] # <<>>
        PROVE  Good(s) /\ Keeps(h, s) /\ s.clients = h.clients
    BY <1>1, <1>6, TakeOneGood
  <1> HIDE DEF s
  <1>7. Good(h') /\ Covered /\ \A d \in Conns \ {c} : Fresh(h, d) => Fresh(h', d)
    <2>1. CASE h' = h
      BY <1>1, <2>1 DEF Covered
    <2>2. CASE h' # h /\ h' = s
      BY <1>4, <1>6, <2>2 DEF Covered, Keeps
    <2>3. CASE h' # h /\ c \in h.flush /\ h' = [s EXCEPT !.connClosed = @ \cup {c}]
      <3>1. Good(s) /\ Keeps(h, s) /\ c \notin s.clients
        BY <1>1, <1>4, <1>6, <2>3
      <3>2. Marked(s, h', c)
        BY <2>3, <3>1, Markings DEF Good, Typed
      <3>3. Good(h') /\ \A d \in Conns \ {c} : Fresh(s, d) => Fresh(h', d)
        BY <3>1, <3>2, MarkedGood
      <3> QED
        BY <3>1, <3>2, <3>3 DEF Covered, Keeps, Marked
    <2> QED
      BY <1>5, <2>1, <2>2, <2>3
  <1>8. Control' /\ \A d \in Conns \ {c} : writer'[d] = writer[d]
    BY <1>2, <1>3 DEF IInv, Control
  <1>9. \A d \in Conns : Busy(d)' => Busy(d)
    BY <1>1, <1>3, <1>8 DEF Busy
  <1>10. \A d \in Conns : pc'[d] = "login" =>
            pc[d] = "login" /\ writer'[d] = writer[d] /\ (Fresh(h, d) => Fresh(h', d))
    BY <1>1, <1>3, <1>7, <1>8
  <1> QED
    BY <1>7, <1>8, <1>9, <1>10, StepGood

-----------------------------------------------------------------------------
(* The theorems.                                                           *)

\* The server starts without sessions.
LEMMA InitGood == Init => IInv
  <1> SUFFICES ASSUME Init PROVE IInv
    OBVIOUS
  <1>1. /\ h.clients = {} /\ h.activeCodes = [k \in Codes |-> None] /\ h.usedCodes = {}
        /\ h.rooms = [r \in RoomNames |-> {}] /\ h.roomDefinitions = {Lobby}
        /\ h.private = {} /\ h.room = [c \in Conns |-> Lobby]
        /\ h.send = [c \in Conns |-> <<>>] /\ h.sendClosed = {}
        /\ h.connClosed = {} /\ h.flush = {}
    BY DEF Init, NewHub
  <1>2. h \in HubState
    <2>1. /\ [k \in Codes |-> None] \in [Codes -> Conns \cup {None}]
          /\ [r \in RoomNames |-> {}] \in [RoomNames -> SUBSET Conns]
          /\ [r \in RoomNames |-> None] \in [RoomNames -> Codes \cup {None}]
          /\ [r \in RoomNames |-> {}] \in [RoomNames -> SUBSET Codes]
      OBVIOUS
    <2>2. /\ [c \in Conns |-> Lobby] \in [Conns -> RoomNames]
          /\ {Lobby} \in SUBSET RoomNames
      BY HubAssumption
    <2>3. [c \in Conns |-> <<>>] \in [Conns -> Seq(Msg)]
      OBVIOUS
    <2>4. {} \in SUBSET Conns /\ {} \in SUBSET Codes /\ {} \in SUBSET RoomNames
      OBVIOUS
    <2> QED
      BY <2>1, <2>2, <2>3, <2>4, Zenon DEF Init, NewHub, HubState
  <1>3. Typed(h)
    BY <1>1, <1>2, HubAssumption DEF Typed
  <1>4. SessionsAgree(h) /\ Open(h) /\ Freed(h) /\ Placed(h) /\ Invited(h)
    BY <1>1, SMTT(10), ZenonT(40) DEF SessionsAgree, Open, Freed, Placed, Invited
  <1>5. \A c \in Conns : Fresh(h, c) /\ writer[c] = "off" /\ pc[c] = "login"
    BY <1>1 DEF Init, Fresh
  <1>6. Control
    BY DEF Init, Control, HandlerState, WriterState
  <1> QED
    BY <1>3, <1>4, <1>5, <1>6 DEF IInv, Good, Busy

\* Every step keeps the invariant, and closes the Send channel of whom it drops.
LEMMA Step == IInv /\ [Next]_vars => IInv' /\ Covered
  <1> SUFFICES ASSUME IInv, [Next]_vars PROVE IInv' /\ Covered
    OBVIOUS
  <1>1. CASE UNCHANGED vars
    <2>1. h' = h /\ pc' = pc /\ writer' = writer /\ kick' = kick
      BY <1>1 DEF vars
    <2> QED
      BY <2>1 DEF IInv, Covered, Control, Busy
  <1>2. ASSUME NEW c \in Conns, Login(c) PROVE IInv' /\ Covered
    BY <1>2, LoginStep, HandlerStep DEF Login
  <1>3. ASSUME NEW c \in Conns, Receive(c) \/ ReceiveFails(c) PROVE IInv' /\ Covered
    BY <1>3, HandlerStep
  <1>4. ASSUME NEW c \in Conns, Request(c) PROVE IInv' /\ Covered
    BY <1>4, RequestStep, AdminStep
  <1>5. ASSUME NEW c \in Conns, HandleUnregister(c) \/ HandleWriterUnregister(c)
        PROVE  IInv' /\ Covered
    BY <1>5, UnregisterStep
  <1>6. ASSUME NEW c \in Conns, Writer(c) PROVE IInv' /\ Covered
    BY <1>6, WriterStep
  <1>7. CASE KickRemove \/ TellAdmins
    BY <1>7, AdminStep
  <1>8. CASE AllGone
    BY <1>1, <1>8 DEF AllGone
  <1> QED
    BY <1>1, <1>2, <1>3, <1>4, <1>5, <1>6, <1>7, <1>8 DEF Next

\* IInv is an invariant.
LEMMA Invariance == Spec => []IInv
  <1>1. IInv /\ [Next]_vars => IInv'
    BY Step
  <1> QED
    BY <1>1, InitGood, PTL DEF Spec

\* Every variable has its type, and no Send buffer ever holds more than its
\* capacity (Client.Send, handleConnectionWithStore).
THEOREM TypeCorrect == Spec => []TypeOK
  <1>1. IInv => TypeOK
    BY DEF IInv, Good, Typed, Control, TypeOK
  <1> QED
    BY <1>1, Invariance, PTL

\* A user code has at most one session, the one ActiveCodes names, for any number
\* of connections, takeovers, kicks and slow clients (handleRegisterRequest).
THEOREM OneSessionPerCode == Spec => []SessionPerCode
  <1>1. IInv => SessionPerCode
    BY DEF IInv, Good, SessionsAgree, SessionPerCode
  <1> QED
    BY <1>1, Invariance, PTL

\* The Hub never sends on a Send channel that was closed (deliver).
THEOREM ClientsAreOpen == Spec => []OnlyOpenSessions
  <1>1. IInv => OnlyOpenSessions
    BY DEF IInv, Good, Open, OnlyOpenSessions
  <1> QED
    BY <1>1, Invariance, PTL

\* Without accounts a name is taken exactly while its client is online
\* (removeClient).
THEOREM FreedNames == Spec => []NamesAreFreed
  <1>1. IInv => NamesAreFreed
    BY DEF IInv, Good, Freed, NamesAreFreed
  <1> QED
    BY <1>1, Invariance, PTL

\* A client that is online is in exactly one channel, and it exists
\* (handleRoomJoin, handleRoomAction).
THEOREM OneRoomPerClient == Spec => []OneRoom
  <1>1. IInv => OneRoom
    BY DEF IInv, Good, Placed, OneRoom
  <1> QED
    BY <1>1, Invariance, PTL

\* Only those who were allowed are online in a private channel (canJoinRoom).
THEOREM PrivateRoomsAreKept == Spec => []PrivateRooms
  <1>1. IInv => PrivateRooms
    BY DEF IInv, Good, Invited, PrivateRooms
  <1> QED
    BY <1>1, Invariance, PTL

\* The Hub serves, or has closed, every connection with a goroutine that may wait
\* for it (unregisterClient, removeSlowClient).
THEOREM NoneAbandoned == Spec => []NobodyAbandoned
  <1>1. IInv => NobodyAbandoned
    BY DEF IInv, Busy, NobodyAbandoned
  <1> QED
    BY <1>1, Invariance, PTL

\* A session that loses its code is ended in the same step
\* (handleRegisterRequest, removeClient).
THEOREM LosersEnd == Spec => OldSessionEnds
  <1>1. IInv /\ [Next]_vars =>
          [\A c \in h.clients :
             h'.activeCodes[CodeOf[c]] # c => c \notin h'.clients /\ c \in h'.sendClosed]_vars
    <2> SUFFICES ASSUME IInv, Next, NEW c \in h.clients, h'.activeCodes[CodeOf[c]] # c
                 PROVE  c \notin h'.clients /\ c \in h'.sendClosed
      OBVIOUS
    <2>1. IInv' /\ Covered
      BY Step
    <2>2. c \notin h'.clients
      BY <2>1 DEF IInv, Good, SessionsAgree
    <2> QED
      BY <2>1, <2>2 DEF Covered
  <1> QED
    BY <1>1, Invariance, PTL DEF Spec, OldSessionEnds

=============================================================================
