------------------------ MODULE ConversationsProofs ------------------------
(***************************************************************************)
(* Theorems about module Conversations, for any conversations, messages,   *)
(* sizes of the cache and of the models, and bounds.                       *)
(*                                                                         *)
(* What Keep keeps is proved by looking at the least place where it would  *)
(* be wrong.  Whole(d) is what the operators on the controller preserve,   *)
(* Serialized(b, c) relates the bridge to the controller, Traffic is about *)
(* the two queues and the server's log.                                    *)
(***************************************************************************)
EXTENDS Conversations, FiniteSetTheorems, WellFoundedInduction, TLAPS

(***************************************************************************)
(* Sequences                                                               *)
(***************************************************************************)

\* A set of numbers that is not empty has a least element.
LEMMA Least ==
  ASSUME NEW T \in SUBSET Nat, T # {}
  PROVE  \E n \in T : \A k \in T : n <= k
<1> DEFINE R == OpToRel(<, Nat)
<1>1. IsWellFoundedOn(R, Nat)
  BY NatLessThanWellFounded, Zenon
<1>2. \A x, y \in Nat : <<x, y>> \in R <=> x < y
  BY DEF OpToRel
<1> HIDE DEF R
<1>3. PICK n \in T : \A y \in T : ~(<<y, n>> \in R)
  BY <1>1, WFMin, Zenon
<1>4. \A k \in T : ~(k < n)
  <2> TAKE k \in T
  <2>1. k \in Nat /\ n \in Nat
    OBVIOUS
  <2>2. ~(<<k, n>> \in R)
    BY <1>3
  <2> QED  BY <1>2, <2>1, <2>2, Zenon
<1>5. \A k \in T : n <= k
  BY <1>4
<1> QED
  BY <1>5

\* g gives what Keep keeps of the first elements of q, up to n of them.
IsKept(g, q, S, n) ==
    g = [i \in 0 .. n |-> IF i = 0 THEN <<>>
                          ELSE IF q[i] \in S THEN Append(g[i - 1], q[i]) ELSE g[i - 1]]

\* There is such a function.
LEMMA KeptExists ==
  ASSUME NEW q, NEW S, NEW N \in Nat
  PROVE  \E g : IsKept(g, q, S, N)
<1> DEFINE Bad == {n \in Nat : ~ \E g : IsKept(g, q, S, n)}
<1> SUFFICES ASSUME Bad # {} PROVE FALSE
  OBVIOUS
<1>1. PICK n \in Bad : \A k \in Bad : n <= k
  BY Least, Zenon
<1>2. n # 0
  <2>1. IsKept([i \in 0 .. 0 |-> <<>>], q, S, 0)
    BY DEF IsKept
  <2> QED  BY <2>1
<1>3. n - 1 \in Nat /\ n - 1 \notin Bad
  BY <1>1, <1>2
<1>4. PICK g : IsKept(g, q, S, n - 1)
  BY <1>3
<1> DEFINE new == IF q[n] \in S THEN Append(g[n - 1], q[n]) ELSE g[n - 1]
           f == [i \in 0 .. n |-> IF i = n THEN new ELSE g[i]]
<1>5. IsKept(f, q, S, n)
  <2>1. g = [i \in 0 .. n - 1 |-> IF i = 0 THEN <<>>
                          ELSE IF q[i] \in S THEN Append(g[i - 1], q[i]) ELSE g[i - 1]]
    BY <1>4, Zenon DEF IsKept
  <2>2. f[n] = new /\ \A i \in 0 .. n - 1 : f[i] = g[i]
    BY <1>1, <1>2
  <2>3. \A i \in 0 .. n : f[i] = IF i = 0 THEN <<>>
                          ELSE IF q[i] \in S THEN Append(f[i - 1], q[i]) ELSE f[i - 1]
    <3> TAKE i \in 0 .. n
    <3>1. CASE i = n
      <4>1. f[n - 1] = g[n - 1]
        BY <1>3, <2>2
      <4> QED  BY <1>2, <2>2, <3>1, <4>1
    <3>2. CASE i # n /\ i # 0
      <4>1. i \in 0 .. n - 1 /\ i - 1 \in 0 .. n - 1
        BY <3>2
      <4>2. f[i] = g[i] /\ f[i - 1] = g[i - 1]
        BY <2>2, <4>1
      <4>3. g[i] = IF q[i] \in S THEN Append(g[i - 1], q[i]) ELSE g[i - 1]
        BY <2>1, <3>2, <4>1, Zenon
      <4> QED  BY <3>2, <4>2, <4>3
    <3>3. CASE i # n /\ i = 0
      <4>1. f[0] = g[0] /\ g[0] = <<>>
        BY <1>3, <2>1, <2>2
      <4> QED  BY <3>3, <4>1
    <3> QED  BY <3>1, <3>2, <3>3
  <2>4. f = [i \in 0 .. n |-> f[i]]
    OBVIOUS
  <2> HIDE DEF f
  <2>5. f = [i \in 0 .. n |-> IF i = 0 THEN <<>>
                          ELSE IF q[i] \in S THEN Append(f[i - 1], q[i]) ELSE f[i - 1]]
    BY <2>3, <2>4, Zenon
  <2> QED  BY <2>5 DEF IsKept
<1> QED  BY <1>5

\* r are the elements of q up to n that are in S, in their order.
Picks(r, q, S, n) ==
    /\ r \in Seq(S)
    /\ \E e \in [1 .. Len(r) -> 1 .. n] :
        /\ \A j \in 1 .. Len(r) : r[j] = q[e[j]]
        /\ \A j, k \in 1 .. Len(r) : j < k => e[j] < e[k]
        /\ \A i \in 1 .. n : q[i] \in S => \E j \in 1 .. Len(r) : e[j] = i

\* Keep picks the elements that are in the set.
LEMMA KeepLemma ==
  ASSUME NEW T, NEW q \in Seq(T), NEW S
  PROVE  Picks(Keep(q, S), q, S, Len(q))
<1> DEFINE g == CHOOSE f : IsKept(f, q, S, Len(q))
           N == Len(q)
<1>0. N \in Nat
  OBVIOUS
<1>1. Keep(q, S) = g[N]
  BY DEF Keep, IsKept
<1>2. IsKept(g, q, S, N)
  BY KeptExists
<1> HIDE DEF g
<1>3. /\ g[0] = <<>>
      /\ \A i \in 1 .. N : g[i] = IF q[i] \in S THEN Append(g[i - 1], q[i]) ELSE g[i - 1]
  <2>1. g = [i \in 0 .. N |-> IF i = 0 THEN <<>>
                          ELSE IF q[i] \in S THEN Append(g[i - 1], q[i]) ELSE g[i - 1]]
    BY <1>2, Zenon DEF IsKept
  <2>2. g[0] = <<>>
    BY <1>0, <2>1
  <2>3. ASSUME NEW i \in 1 .. N
        PROVE  g[i] = IF q[i] \in S THEN Append(g[i - 1], q[i]) ELSE g[i - 1]
    <3>1. i \in 0 .. N /\ i # 0
      BY <1>0
    <3> HIDE DEF N
    <3> QED  BY <2>1, <3>1, Zenon
  <2> QED  BY <2>2, <2>3
<1> DEFINE Bad == {n \in 0 .. N : ~Picks(g[n], q, S, n)}
<1> SUFFICES ASSUME Bad # {} PROVE FALSE
  BY <1>1
<1>4. PICK n \in Bad : \A k \in Bad : n <= k
  <2>1. Bad \in SUBSET Nat
    BY <1>0
  <2> HIDE DEF Bad
  <2> QED  BY <2>1, Least
<1>5. n # 0
  <2>1. Picks(<<>>, q, S, 0)
    <3>1. <<>> \in Seq(S) /\ Len(<<>>) = 0
      OBVIOUS
    <3>2. [j \in 1 .. 0 |-> j] \in [1 .. Len(<<>>) -> 1 .. 0]
      BY <3>1
    <3> DEFINE e == [j \in 1 .. 0 |-> j]
    <3>3. /\ \A j \in 1 .. Len(<<>>) : <<>>[j] = q[e[j]]
          /\ \A j, k \in 1 .. Len(<<>>) : j < k => e[j] < e[k]
          /\ \A i \in 1 .. 0 : q[i] \in S => \E j \in 1 .. Len(<<>>) : e[j] = i
      BY <3>1
    <3> HIDE DEF e
    <3> QED  BY <3>1, <3>2, <3>3, Zenon DEF Picks, e
  <2> QED  BY <1>3, <2>1
<1>6. n - 1 \in 0 .. N /\ n \in 1 .. N /\ n - 1 \notin Bad
  BY <1>4, <1>5
<1> DEFINE r == g[n - 1]
<1>7. r \in Seq(S)
  BY <1>6 DEF Picks
<1>8. PICK e \in [1 .. Len(r) -> 1 .. n - 1] :
        /\ \A j \in 1 .. Len(r) : r[j] = q[e[j]]
        /\ \A j, k \in 1 .. Len(r) : j < k => e[j] < e[k]
        /\ \A i \in 1 .. n - 1 : q[i] \in S => \E j \in 1 .. Len(r) : e[j] = i
  BY <1>6 DEF Picks
<1>9. g[n] = IF q[n] \in S THEN Append(r, q[n]) ELSE r
  BY <1>3, <1>6
<1> HIDE DEF r
<1>10. CASE q[n] \notin S
  <2>1. e \in [1 .. Len(r) -> 1 .. n]
    BY <1>6
  <2>2. Picks(r, q, S, n)
    <3>1. \A i \in 1 .. n : q[i] \in S => \E j \in 1 .. Len(r) : e[j] = i
      BY <1>6, <1>8, <1>10
    <3> QED  BY <1>7, <1>8, <2>1, <3>1, Zenon DEF Picks
  <2> QED  BY <1>4, <1>9, <1>10, <2>2
<1>11. CASE q[n] \in S
  <2> DEFINE p == Append(r, q[n])
             f == [j \in 1 .. Len(r) + 1 |-> IF j = Len(r) + 1 THEN n ELSE e[j]]
  <2>1. /\ p \in Seq(S) /\ Len(p) = Len(r) + 1 /\ p[Len(r) + 1] = q[n]
        /\ \A j \in 1 .. Len(r) : p[j] = r[j]
    BY <1>7, <1>11
  <2>2. Len(r) \in Nat
    BY <1>7
  <2>3. f \in [1 .. Len(r) + 1 -> 1 .. n]
    BY <1>6, <2>2
  <2>4. f[Len(r) + 1] = n /\ \A j \in 1 .. Len(r) : f[j] = e[j] /\ e[j] \in 1 .. n - 1
    BY <2>2
  <2> HIDE DEF p, f
  <2>5. \A j \in 1 .. Len(r) + 1 : p[j] = q[f[j]]
    <3> TAKE j \in 1 .. Len(r) + 1
    <3>1. CASE j = Len(r) + 1
      BY <2>1, <2>4, <3>1
    <3>2. CASE j # Len(r) + 1
      <4>1. j \in 1 .. Len(r)
        BY <2>2, <3>2
      <4> QED  BY <1>8, <2>1, <2>4, <4>1
    <3> QED  BY <3>1, <3>2
  <2>6. \A j, k \in 1 .. Len(r) + 1 : j < k => f[j] < f[k]
    <3>a. \A m \in Nat : \A i \in 1 .. m + 1 : i # m + 1 => i \in 1 .. m
      OBVIOUS
    <3> TAKE j, k \in 1 .. Len(r) + 1
    <3> HAVE j < k
    <3>0. j \in 1 .. Len(r)
      BY <2>2
    <3>1. CASE k = Len(r) + 1
      BY <1>6, <2>4, <3>0, <3>1
    <3>2. CASE k # Len(r) + 1
      <4>1. k \in 1 .. Len(r)
        BY <2>2, <3>a, <3>2
      <4> QED  BY <1>8, <2>4, <3>0, <4>1
    <3> QED  BY <3>1, <3>2
  <2>7. \A i \in 1 .. n : q[i] \in S => \E j \in 1 .. Len(r) + 1 : f[j] = i
    <3> TAKE i \in 1 .. n
    <3> HAVE q[i] \in S
    <3>1. CASE i = n
      BY <2>2, <2>4, <3>1
    <3>2. CASE i # n
      <4>1. PICK j \in 1 .. Len(r) : e[j] = i
        BY <1>6, <1>8, <3>2
      <4>2. j \in 1 .. Len(r) + 1
        BY <2>2, <4>1
      <4>3. f[j] = i
        BY <2>4, <4>1
      <4> QED  BY <4>2, <4>3, Zenon
    <3> QED  BY <3>1, <3>2
  <2>8. Picks(p, q, S, n)
    <3>1. Len(r) + 1 = Len(p)
      BY <2>1
    <3>2. /\ f \in [1 .. Len(p) -> 1 .. n]
          /\ \A j \in 1 .. Len(p) : p[j] = q[f[j]]
      BY <2>3, <2>5, <3>1
    <3>3. /\ \A j, k \in 1 .. Len(p) : j < k => f[j] < f[k]
          /\ \A i \in 1 .. n : q[i] \in S => \E j \in 1 .. Len(p) : f[j] = i
      BY <2>6, <2>7, <3>1
    <3> QED  BY <2>1, <3>2, <3>3, Zenon DEF Picks
  <2> QED  BY <1>4, <1>9, <1>11, <2>8, Zenon DEF p
<1> QED  BY <1>10, <1>11

(***************************************************************************)
(* The invariant                                                           *)
(***************************************************************************)

\* what UniqueRows says of one model
Unique(rows) == \A i, j \in DOMAIN rows : (rows[i].id = rows[j].id /\ rows[i].id # None) => i = j

Names == {"connected", "reconnecting", "loading", "searching", "joined", "active", "shown", "models", "used",
          "listed", "unread"}

IsModels(m) == \A k \in DOMAIN m : k \in Keys /\ m[k] \in Seq(Row) /\ Unique(m[k])

\* what holds of the controller throughout a handler
Cached(d) ==
    /\ Names \subseteq DOMAIN d
    /\ IsModels(d.models)
    /\ IsFiniteSet(DOMAIN d.models) /\ Cardinality(DOMAIN d.models) <= MaxModels
    /\ d.used \in Seq(Keys) /\ Range(d.used) = DOMAIN d.models
    /\ d.active \in Keys
    /\ d.searching \in BOOLEAN

\* what holds of it between handlers
Whole(d) ==
    /\ Cached(d)
    /\ d.active \in DOMAIN d.models
    /\ d.shown = d.active
    /\ d.active \notin d.unread

\* The bridge has connected the lists and the active model, and what it has
\* connected is either serialized or about to be.
Serialized(e, d) ==
    /\ {"watched", "dirty", "timer", "fresh", "pending"} \subseteq DOMAIN e
    /\ {"lists", d.active} \subseteq e.watched
    /\ "page" \notin e.watched
    /\ e.watched \subseteq e.fresh \cup e.dirty
    /\ ~e.timer => (e.dirty = {} /\ "page" \in e.fresh)

Ids == Messages \cup {None}

CallSet ==
    {e \in [type : Requests \cup {"connect", "disconnect", "scheduleReconnect"}, id : Ids,
            key : Keys \cup {None}, search : BOOLEAN] :
       /\ e.type = "send" => (e.id \in Messages /\ e.key \in Keys)
       /\ e.type = "join" => e.key \in Rooms}

SignalSet ==
    {e \in [type : {"connected", "connectionFailed", "connectionLost", "chat", "state", "recalled",
                    "recallRefused", "history"},
            id : Ids, key : Keys \cup {None}, state : {"none", "sent", "failed"}, search : BOOLEAN,
            page : Seq(Messages)] :
       /\ e.type = "chat" => e.key \in Keys
       /\ \A i, j \in DOMAIN e.page : e.page[i] = e.page[j] => i = j}

Traffic ==
    /\ calls \in Seq(CallSet)
    /\ signals \in Seq(SignalSet)
    /\ link \in [state : {"up", "down"}, room : Rooms, explicit : BOOLEAN, lost : SUBSET Messages]
    /\ log \in Seq(Entry)
    /\ \A i, j \in DOMAIN log : log[i].id = log[j].id => i = j

\* A row of the message says that it is queued.
Waits(m, id) == \E k \in DOMAIN m : \E i \in DOMAIN m[k] : m[k][i].id = id /\ m[k][i].state = "queued"

Has(q, type, id) == \E j \in DOMAIN q : q[j].type = type /\ q[j].id = id

UnderWay(id) == id \in link.lost \/ Has(calls, "send", id) \/ Has(signals, "state", id)

Owed == \A id \in Ids : Waits(c.models, id) => UnderWay(id)

IInv == Whole(c) /\ Serialized(b, c) /\ Traffic /\ Owed

(***************************************************************************)
(* Parts of a sequence                                                     *)
(***************************************************************************)

\* r has some of the elements of q, each of them at most once.
Part(r, q) ==
    \E e \in [1 .. Len(r) -> 1 .. Len(q)] :
        /\ \A j \in 1 .. Len(r) : r[j] = q[e[j]]
        /\ \A j, k \in 1 .. Len(r) : e[j] = e[k] => j = k

\* What Keep keeps: elements of the set only, and all of those.
LEMMA KeepFacts ==
    ASSUME NEW T, NEW q \in Seq(T), NEW S
    PROVE  /\ Keep(q, S) \in Seq(S) /\ Keep(q, S) \in Seq(T)
           /\ Part(Keep(q, S), q)
           /\ \A i \in 1 .. Len(q) : q[i] \in S => \E j \in 1 .. Len(Keep(q, S)) : Keep(q, S)[j] = q[i]
<1> DEFINE r == Keep(q, S)
<1>1. Picks(r, q, S, Len(q))
  BY KeepLemma
<1> HIDE DEF r
<1>2. r \in Seq(S)
  BY <1>1 DEF Picks
<1>3. PICK e \in [1 .. Len(r) -> 1 .. Len(q)] :
        /\ \A j \in 1 .. Len(r) : r[j] = q[e[j]]
        /\ \A j, k \in 1 .. Len(r) : j < k => e[j] < e[k]
        /\ \A i \in 1 .. Len(q) : q[i] \in S => \E j \in 1 .. Len(r) : e[j] = i
  BY <1>1, Zenon DEF Picks
<1>4. Len(r) \in Nat /\ Len(q) \in Nat
  BY <1>2
<1>5. \A j, k \in 1 .. Len(r) : e[j] = e[k] => j = k
  <2> TAKE j, k \in 1 .. Len(r)
  <2>1. e[j] \in Nat /\ e[k] \in Nat /\ j \in Nat /\ k \in Nat
    BY <1>3, <1>4
  <2>2. j < k => e[j] < e[k]
    BY <1>3
  <2>3. k < j => e[k] < e[j]
    BY <1>3
  <2> QED  BY <2>1, <2>2, <2>3
<1>6. Part(r, q)
  BY <1>3, <1>5, Zenon DEF Part
<1>7. r \in Seq(T)
  <2>1. r \in [1 .. Len(r) -> T]
    <3>1. r = [j \in 1 .. Len(r) |-> r[j]]
      BY <1>2
    <3>2. \A j \in 1 .. Len(r) : r[j] \in T
      BY <1>3
    <3> QED  BY <3>1, <3>2
  <2> QED  BY <1>4, <2>1
<1>8. \A i \in 1 .. Len(q) : q[i] \in S => \E j \in 1 .. Len(r) : r[j] = q[i]
  BY <1>3
<1> QED  BY <1>2, <1>6, <1>7, <1>8 DEF r

\* Leaving out rows leaves no message with two rows.
LEMMA PartUnique ==
    ASSUME NEW q \in Seq(Row), NEW r \in Seq(Row), Part(r, q), Unique(q)
    PROVE  Unique(r)
<1>1. PICK e \in [1 .. Len(r) -> 1 .. Len(q)] :
        /\ \A j \in 1 .. Len(r) : r[j] = q[e[j]]
        /\ \A j, k \in 1 .. Len(r) : e[j] = e[k] => j = k
  BY DEF Part
<1>2. DOMAIN r = 1 .. Len(r) /\ DOMAIN q = 1 .. Len(q)
  OBVIOUS
<1>3. ASSUME NEW j \in DOMAIN r, NEW k \in DOMAIN r, r[j].id = r[k].id, r[j].id # None
      PROVE  j = k
  <2>1. e[j] \in DOMAIN q /\ e[k] \in DOMAIN q /\ r[j] = q[e[j]] /\ r[k] = q[e[k]]
    BY <1>1, <1>2, <1>3
  <2>2. e[j] = e[k]
    BY <1>3, <2>1 DEF Unique
  <2> QED  BY <1>1, <1>2, <1>3, <2>2
<1> QED  BY <1>3 DEF Unique

\* A stretch of a sequence is a part of it.
LEMMA SubSeqPart ==
    ASSUME NEW T, NEW q \in Seq(T), NEW m \in Nat \ {0}, NEW n \in Nat, n <= Len(q), m <= n + 1
    PROVE  /\ SubSeq(q, m, n) \in Seq(T)
           /\ Len(SubSeq(q, m, n)) = n - m + 1
           /\ \A j \in 1 .. Len(SubSeq(q, m, n)) : SubSeq(q, m, n)[j] = q[j + m - 1]
           /\ Part(SubSeq(q, m, n), q)
<1> DEFINE r == SubSeq(q, m, n)
           e == [j \in 1 .. n - m + 1 |-> j + m - 1]
<1>0. Len(q) \in Nat /\ n - m + 1 \in Nat
  OBVIOUS
<1>1. /\ r \in Seq(T) /\ Len(r) = n - m + 1
      /\ \A j \in 1 .. Len(r) : r[j] = q[j + m - 1]
  BY <1>0
<1>2. e \in [1 .. Len(r) -> 1 .. Len(q)]
  BY <1>0, <1>1
<1>3. \A j \in 1 .. Len(r) : e[j] = j + m - 1
  BY <1>1
<1> HIDE DEF r, e
<1>4. /\ \A j \in 1 .. Len(r) : r[j] = q[e[j]]
      /\ \A j, k \in 1 .. Len(r) : e[j] = e[k] => j = k
  BY <1>0, <1>1, <1>3
<1>5. Part(r, q)
  BY <1>2, <1>4, Zenon DEF Part
<1> QED  BY <1>1, <1>5 DEF r

(***************************************************************************)
(* ChatListModel                                                           *)
(***************************************************************************)

\* The rows of r are rows of q, or row.
From(r, q, row) == \A i \in DOMAIN r : r[i] = row \/ \E j \in DOMAIN q : r[i] = q[j]

\* appendRows adds one row at most, and none for a message that has one.
LEMMA AppendRowLemma ==
    ASSUME NEW rows \in Seq(Row), Unique(rows), NEW row \in Row
    PROVE  /\ AppendRow(rows, row) \in Seq(Row)
           /\ Unique(AppendRow(rows, row))
           /\ From(AppendRow(rows, row), rows, row)
<1>0. Len(rows) \in Nat /\ DOMAIN rows = 1 .. Len(rows)
  OBVIOUS
<1>1. CASE row.id # None /\ HasRow(rows, row.id)
  <2> DEFINE r == [i \in DOMAIN rows |-> IF rows[i].id = row.id THEN row ELSE rows[i]]
  <2>1. AppendRow(rows, row) = r
    BY <1>1 DEF AppendRow
  <2>2. r \in Seq(Row)
    <3>1. \A i \in 1 .. Len(rows) : rows[i] \in Row
      OBVIOUS
    <3>2. r \in [1 .. Len(rows) -> Row]
      BY <1>0, <3>1
    <3> QED  BY <1>0, <3>2
  <2>3. DOMAIN r = DOMAIN rows /\ \A i \in DOMAIN rows : r[i].id = rows[i].id /\ (r[i] = row \/ r[i] = rows[i])
    OBVIOUS
  <2> HIDE DEF r
  <2>4. Unique(r)
    BY <2>3, Zenon DEF Unique
  <2>5. From(r, rows, row)
    BY <2>3, Zenon DEF From
  <2> QED  BY <2>1, <2>2, <2>4, <2>5
<1>2. CASE ~(row.id # None /\ HasRow(rows, row.id))
  <2> DEFINE all == Append(rows, row)
             tail == Tail(all)
  <2>1. AppendRow(rows, row) = IF Len(all) > MaxRows THEN tail ELSE all
    BY <1>2 DEF AppendRow
  <2>2. /\ all \in Seq(Row) /\ Len(all) = Len(rows) + 1 /\ DOMAIN all = 1 .. Len(rows) + 1
        /\ \A i \in 1 .. Len(rows) : all[i] = rows[i]
        /\ all[Len(rows) + 1] = row
    OBVIOUS
  <2>3. /\ tail \in Seq(Row) /\ Len(tail) = Len(rows) /\ DOMAIN tail = 1 .. Len(rows)
        /\ \A i \in 1 .. Len(rows) : tail[i] = all[i + 1]
    BY <1>0, <2>2
  <2> HIDE DEF all, tail
  <2>4. \A i \in DOMAIN all : i = Len(rows) + 1 \/ i \in DOMAIN rows
    BY <1>0, <2>2
  <2>5. From(all, rows, row)
    <3> SUFFICES ASSUME NEW i \in DOMAIN all
                 PROVE  all[i] = row \/ \E j \in DOMAIN rows : all[i] = rows[j]
      BY DEF From
    <3> QED  BY <1>0, <2>2, <2>4
  <2>6. Unique(all)
    <3> SUFFICES ASSUME NEW i \in DOMAIN all, NEW j \in DOMAIN all, all[i].id = all[j].id, all[i].id # None
                 PROVE  i = j
      BY DEF Unique
    <3>1. CASE i \in DOMAIN rows /\ j \in DOMAIN rows
      BY <1>0, <2>2, <3>1 DEF Unique
    <3>2. CASE i \in DOMAIN rows /\ j = Len(rows) + 1
      BY <1>0, <1>2, <2>2, <3>2 DEF HasRow
    <3>3. CASE i = Len(rows) + 1 /\ j \in DOMAIN rows
      BY <1>0, <1>2, <2>2, <3>3 DEF HasRow
    <3> QED  BY <2>4, <3>1, <3>2, <3>3
  <2>7. From(tail, rows, row)
    <3> SUFFICES ASSUME NEW i \in DOMAIN tail
                 PROVE  tail[i] = row \/ \E j \in DOMAIN rows : tail[i] = rows[j]
      BY DEF From
    <3>1. i + 1 \in DOMAIN all /\ tail[i] = all[i + 1]
      BY <1>0, <2>2, <2>3
    <3> QED  BY <2>5, <3>1 DEF From
  <2>8. Unique(tail)
    <3> SUFFICES ASSUME NEW i \in DOMAIN tail, NEW j \in DOMAIN tail, tail[i].id = tail[j].id, tail[i].id # None
                 PROVE  i = j
      BY DEF Unique
    <3>1. /\ i + 1 \in DOMAIN all /\ tail[i] = all[i + 1]
          /\ j + 1 \in DOMAIN all /\ tail[j] = all[j + 1]
          /\ i \in Nat /\ j \in Nat
      BY <1>0, <2>2, <2>3
    <3>2. i + 1 = j + 1
      BY <2>6, <3>1 DEF Unique
    <3> QED  BY <3>1, <3>2
  <2> QED  BY <2>1, <2>2, <2>3, <2>5, <2>6, <2>7, <2>8
<1> QED  BY <1>1, <1>2

\* prependRows keeps rows of the page and of the model.
LEMMA PrependRowsLemma ==
    ASSUME NEW rows \in Seq(Row), Unique(rows), NEW page \in Seq(Row), Unique(page),
           \A i \in DOMAIN page : \A j \in DOMAIN rows : page[i].id # rows[j].id
    PROVE  /\ PrependRows(rows, page) \in Seq(Row)
           /\ Unique(PrependRows(rows, page))
           /\ \A i \in DOMAIN PrependRows(rows, page) :
                 \/ \E j \in DOMAIN page : PrependRows(rows, page)[i] = page[j]
                 \/ \E j \in DOMAIN rows : PrependRows(rows, page)[i] = rows[j]
<1> DEFINE m == IF Len(page) > MaxRows THEN Len(page) - MaxRows + 1 ELSE 1
           incoming == SubSeq(page, m, Len(page))
           all == incoming \o rows
           n == IF Len(all) > MaxRows THEN MaxRows ELSE Len(all)
           r == SubSeq(all, 1, n)
<1>1. PrependRows(rows, page) = r
  BY DEF PrependRows
<1>2. Len(page) \in Nat /\ Len(rows) \in Nat /\ MaxRows \in Nat /\ MaxRows # 0
  BY ConversationsAssumption
<1>3. m \in Nat \ {0} /\ m <= Len(page) + 1
  BY <1>2
<1> HIDE DEF m
<1>4. incoming \in Seq(Row) /\ Part(incoming, page)
  BY <1>2, <1>3, SubSeqPart
<1>5. Unique(incoming)
  BY <1>4, PartUnique, Zenon
<1>6. \A i \in DOMAIN incoming : \E j \in DOMAIN page : incoming[i] = page[j]
  <2>1. PICK e \in [1 .. Len(incoming) -> 1 .. Len(page)] : \A j \in 1 .. Len(incoming) : incoming[j] = page[e[j]]
    BY <1>4 DEF Part
  <2>2. DOMAIN incoming = 1 .. Len(incoming) /\ DOMAIN page = 1 .. Len(page)
    BY <1>4
  <2> HIDE DEF incoming
  <2> QED  BY <2>1, <2>2
<1> HIDE DEF incoming
<1>7. /\ all \in Seq(Row) /\ Len(all) = Len(incoming) + Len(rows) /\ Len(incoming) \in Nat
      /\ DOMAIN all = 1 .. Len(all) /\ DOMAIN incoming = 1 .. Len(incoming) /\ DOMAIN rows = 1 .. Len(rows)
      /\ \A i \in 1 .. Len(incoming) : all[i] = incoming[i]
      /\ \A i \in 1 .. Len(rows) : all[Len(incoming) + i] = rows[i]
  BY <1>4
<1> HIDE DEF all
<1>8. \A i \in DOMAIN all : \/ i \in DOMAIN incoming /\ all[i] = incoming[i]
                            \/ i - Len(incoming) \in DOMAIN rows /\ all[i] = rows[i - Len(incoming)]
  <2> TAKE i \in DOMAIN all
  <2>1. CASE i <= Len(incoming)
    BY <1>7, <2>1
  <2>2. CASE i > Len(incoming)
    <3>1. i - Len(incoming) \in 1 .. Len(rows) /\ i = Len(incoming) + (i - Len(incoming))
      BY <1>2, <1>7, <2>2
    <3> QED  BY <1>7, <3>1
  <2> QED  BY <1>7, <2>1, <2>2
<1>9. Unique(all)
  <2> SUFFICES ASSUME NEW i \in DOMAIN all, NEW j \in DOMAIN all, all[i].id = all[j].id, all[i].id # None
               PROVE  i = j
    BY DEF Unique
  <2>1. CASE i \in DOMAIN incoming /\ all[i] = incoming[i] /\ j \in DOMAIN incoming /\ all[j] = incoming[j]
    BY <1>5, <2>1 DEF Unique
  <2>2. CASE /\ i \in DOMAIN incoming /\ all[i] = incoming[i]
             /\ j - Len(incoming) \in DOMAIN rows /\ all[j] = rows[j - Len(incoming)]
    <3>1. PICK k \in DOMAIN page : incoming[i] = page[k]
      BY <1>6, <2>2
    <3> QED  BY <2>2, <3>1
  <2>3. CASE /\ j \in DOMAIN incoming /\ all[j] = incoming[j]
             /\ i - Len(incoming) \in DOMAIN rows /\ all[i] = rows[i - Len(incoming)]
    <3>1. PICK k \in DOMAIN page : incoming[j] = page[k]
      BY <1>6, <2>3
    <3> QED  BY <2>3, <3>1
  <2>4. CASE /\ i - Len(incoming) \in DOMAIN rows /\ all[i] = rows[i - Len(incoming)]
             /\ j - Len(incoming) \in DOMAIN rows /\ all[j] = rows[j - Len(incoming)]
    <3>1. i - Len(incoming) = j - Len(incoming)
      BY <2>4 DEF Unique
    <3>2. i \in Nat /\ j \in Nat
      BY <1>7
    <3> QED  BY <1>7, <3>1, <3>2
  <2> QED  BY <1>8, <2>1, <2>2, <2>3, <2>4
<1>10. n \in Nat /\ n <= Len(all)
  BY <1>2, <1>7
<1> HIDE DEF n
<1>11. /\ r \in Seq(Row) /\ Len(r) = n - 1 + 1 /\ \A j \in 1 .. Len(r) : r[j] = all[j + 1 - 1]
       /\ Part(r, all)
  BY <1>7, <1>10, SubSeqPart
<1> HIDE DEF r
<1>12. Unique(r)
  BY <1>7, <1>9, <1>11, PartUnique
<1>13. \A i \in DOMAIN r : i \in DOMAIN all /\ r[i] = all[i]
  BY <1>7, <1>10, <1>11
<1>14. \A i \in DOMAIN r : (\E j \in DOMAIN page : r[i] = page[j]) \/ (\E j \in DOMAIN rows : r[i] = rows[j])
  <2> TAKE i \in DOMAIN r
  <2>1. i \in DOMAIN all /\ r[i] = all[i]
    BY <1>13
  <2>2. CASE i \in DOMAIN incoming /\ all[i] = incoming[i]
    BY <1>6, <2>1, <2>2
  <2>3. CASE i - Len(incoming) \in DOMAIN rows /\ all[i] = rows[i - Len(incoming)]
    BY <2>1, <2>3
  <2> QED  BY <1>8, <2>1, <2>2, <2>3
<1> QED  BY <1>1, <1>11, <1>12, <1>14

\* The rows of a page are messages that have no row in the model yet.
LEMMA NewRowsLemma ==
    ASSUME NEW page \in Seq(Messages), \A i, j \in DOMAIN page : page[i] = page[j] => i = j
    PROVE  /\ NewRows(page) \in Seq(Row)
           /\ Unique(NewRows(page))
           /\ \A i \in DOMAIN NewRows(page) :
                 /\ NewRows(page)[i].state = "sent"
                 /\ ~HasRow(c.models[c.shown], NewRows(page)[i].id)
<1> DEFINE S == {id \in Messages : ~HasRow(c.models[c.shown], id)}
           ids == Keep(page, S)
           r == [i \in DOMAIN ids |-> [id |-> ids[i], state |-> "sent"]]
<1>1. NewRows(page) = r
  BY DEF NewRows
<1>2. ids \in Seq(S) /\ Part(ids, page)
  BY KeepFacts
<1>3. \A i \in DOMAIN ids : ids[i] \in Messages /\ ~HasRow(c.models[c.shown], ids[i])
  <2>1. \A i \in DOMAIN ids : ids[i] \in S
    <3> HIDE DEF ids, S
    <3> QED  BY <1>2
  <2> HIDE DEF ids
  <2> QED  BY <2>1
<1>4. Len(ids) \in Nat /\ DOMAIN ids = 1 .. Len(ids)
  BY <1>2
<1>5. PICK e \in [1 .. Len(ids) -> 1 .. Len(page)] :
        /\ \A j \in 1 .. Len(ids) : ids[j] = page[e[j]]
        /\ \A j, k \in 1 .. Len(ids) : e[j] = e[k] => j = k
  BY <1>2, Zenon DEF Part
<1> HIDE DEF ids
<1>6. \A i, j \in DOMAIN ids : ids[i] = ids[j] => i = j
  <2> TAKE i, j \in DOMAIN ids
  <2> HAVE ids[i] = ids[j]
  <2>1. e[i] \in DOMAIN page /\ e[j] \in DOMAIN page /\ page[e[i]] = page[e[j]]
    BY <1>4, <1>5
  <2>2. e[i] = e[j]
    BY <2>1
  <2> QED  BY <1>4, <1>5, <2>2
<1>7. DOMAIN r = DOMAIN ids /\ \A i \in DOMAIN ids : r[i].id = ids[i] /\ r[i].state = "sent" /\ r[i] \in Row
  BY <1>3 DEF Row
<1>8. r \in Seq(Row)
  <2>1. r \in [1 .. Len(ids) -> Row]
    BY <1>4, <1>7
  <2> QED  BY <1>4, <2>1
<1> HIDE DEF r
<1>9. Unique(r)
  BY <1>6, <1>7, Zenon DEF Unique
<1>10. \A i \in DOMAIN r : r[i].state = "sent" /\ ~HasRow(c.models[c.shown], r[i].id)
  BY <1>3, <1>7, Zenon
<1> QED  BY <1>1, <1>8, <1>9, <1>10

(***************************************************************************)
(* The controller                                                          *)
(***************************************************************************)

\* The rows that wait in n waited in m, or are of messages in X.
OnlyWaits(n, m, X) == \A id \in Ids : Waits(n, id) => Waits(m, id) \/ id \in X

\* The parts of the controller other than the cache.
Rest(d, e) ==
    /\ Names \subseteq DOMAIN e
    /\ e.connected = d.connected /\ e.reconnecting = d.reconnecting /\ e.loading = d.loading
    /\ e.searching = d.searching /\ e.joined = d.joined /\ e.active = d.active
    /\ e.listed = d.listed /\ e.unread = d.unread

\* The controller with other rows in its models.
LEMMA ModelsLemma ==
    ASSUME NEW d, NEW m, Whole(d), DOMAIN m = DOMAIN d.models, IsModels(m)
    PROVE  /\ Whole([d EXCEPT !.models = m])
           /\ [d EXCEPT !.models = m].models = m
           /\ Rest(d, [d EXCEPT !.models = m])
<1> DEFINE e == [d EXCEPT !.models = m]
<1>1. Names \subseteq DOMAIN d
  BY DEF Whole, Cached
<1>2. e.models = m /\ e.used = d.used /\ e.shown = d.shown /\ Rest(d, e)
  BY <1>1 DEF Names, Rest
<1> HIDE DEF e
<1> QED  BY <1>1, <1>2 DEF Whole, Cached, Rest, e

\* A state that is not queued leaves no row of the message that waits.
LEMMA UpdateRowsLemma ==
    ASSUME NEW d, Whole(d), NEW id \in Ids, NEW state \in {"none", "sent", "failed"}
    PROVE  /\ Whole(UpdateRows(d, id, state))
           /\ UpdateRows(d, id, state).active = d.active
           /\ OnlyWaits(UpdateRows(d, id, state).models, d.models, {})
           /\ ~Waits(UpdateRows(d, id, state).models, id)
<1> DEFINE m == [k \in DOMAIN d.models |->
                  [i \in DOMAIN d.models[k] |-> UpdateRow(d.models[k][i], id, state)]]
<1>1. UpdateRows(d, id, state) = [d EXCEPT !.models = m]
  BY DEF UpdateRows
<1>2. DOMAIN m = DOMAIN d.models
  OBVIOUS
<1>3. ASSUME NEW k \in DOMAIN d.models
      PROVE  /\ k \in Keys /\ m[k] \in Seq(Row) /\ Unique(m[k])
             /\ DOMAIN m[k] = DOMAIN d.models[k]
             /\ \A i \in DOMAIN m[k] : m[k][i].state = "queued" =>
                   m[k][i] = d.models[k][i] /\ m[k][i].id # id
  <2> DEFINE rows == d.models[k]
             r == [i \in DOMAIN rows |-> UpdateRow(rows[i], id, state)]
  <2>1. k \in Keys /\ rows \in Seq(Row) /\ Unique(rows)
    BY DEF Whole, Cached, IsModels
  <2>2. m[k] = r
    OBVIOUS
  <2> HIDE DEF m, rows
  <2>3. Len(rows) \in Nat /\ DOMAIN rows = 1 .. Len(rows) /\ \A i \in DOMAIN rows : rows[i] \in Row
    BY <2>1
  <2>4. \A i \in DOMAIN rows : /\ UpdateRow(rows[i], id, state) \in Row
                               /\ UpdateRow(rows[i], id, state).id = rows[i].id
                               /\ UpdateRow(rows[i], id, state).state = "queued" =>
                                    UpdateRow(rows[i], id, state) = rows[i] /\ rows[i].id # id
    BY <2>3 DEF UpdateRow, Row, Ids
  <2>5. DOMAIN r = DOMAIN rows /\ \A i \in DOMAIN rows : r[i] = UpdateRow(rows[i], id, state)
    OBVIOUS
  <2>6. r \in Seq(Row)
    <3>1. r \in [1 .. Len(rows) -> Row]
      BY <2>3, <2>4
    <3> QED  BY <2>3, <3>1
  <2> HIDE DEF r
  <2>7. Unique(r)
    BY <2>1, <2>4, <2>5, ZenonT(40) DEF Unique
  <2> QED  BY <2>1, <2>2, <2>4, <2>5, <2>6, <2>7 DEF rows
<1> HIDE DEF m
<1>4. IsModels(m)
  BY <1>2, <1>3 DEF IsModels
<1>5. ASSUME NEW x, Waits(m, x)
      PROVE  Waits(d.models, x) /\ x # id
  <2>1. PICK k \in DOMAIN m : \E i \in DOMAIN m[k] : m[k][i].id = x /\ m[k][i].state = "queued"
    BY <1>5 DEF Waits
  <2>2. PICK i \in DOMAIN m[k] : m[k][i].id = x /\ m[k][i].state = "queued"
    BY <2>1
  <2>3. k \in DOMAIN d.models /\ i \in DOMAIN d.models[k] /\ m[k][i] = d.models[k][i] /\ x # id
    BY <1>2, <1>3, <2>2
  <2> QED  BY <2>2, <2>3, Zenon DEF Waits
<1>6. OnlyWaits(m, d.models, {}) /\ ~Waits(m, id)
  BY <1>5, Zenon DEF OnlyWaits
<1> QED  BY <1>1, <1>2, <1>4, <1>6, ModelsLemma DEF Rest

\* Removing rows.
LEMMA RemoveRowsLemma ==
    ASSUME NEW d, Whole(d), NEW id
    PROVE  /\ Whole(RemoveRows(d, id))
           /\ RemoveRows(d, id).active = d.active
           /\ OnlyWaits(RemoveRows(d, id).models, d.models, {})
<1> DEFINE S == {row \in Row : row.id # id}
           m == [k \in DOMAIN d.models |-> Keep(d.models[k], S)]
<1>1. RemoveRows(d, id) = [d EXCEPT !.models = m]
  BY DEF RemoveRows
<1>2. DOMAIN m = DOMAIN d.models
  OBVIOUS
<1> HIDE DEF S
<1>3. ASSUME NEW k \in DOMAIN d.models
      PROVE  /\ k \in Keys /\ m[k] \in Seq(Row) /\ Unique(m[k])
             /\ \A i \in DOMAIN m[k] : \E j \in DOMAIN d.models[k] : m[k][i] = d.models[k][j]
  <2> DEFINE rows == d.models[k]
             r == Keep(rows, S)
  <2>1. k \in Keys /\ rows \in Seq(Row) /\ Unique(rows)
    BY DEF Whole, Cached, IsModels
  <2>2. m[k] = r
    OBVIOUS
  <2> HIDE DEF m, rows
  <2>3. r \in Seq(Row) /\ Part(r, rows)
    BY <2>1, KeepFacts
  <2> HIDE DEF r
  <2>4. Unique(r)
    BY <2>1, <2>3, PartUnique
  <2>5. PICK e \in [1 .. Len(r) -> 1 .. Len(rows)] : \A j \in 1 .. Len(r) : r[j] = rows[e[j]]
    BY <2>3 DEF Part
  <2>6. DOMAIN r = 1 .. Len(r) /\ DOMAIN rows = 1 .. Len(rows)
    BY <2>1, <2>3
  <2>7. \A i \in DOMAIN r : \E j \in DOMAIN rows : r[i] = rows[j]
    BY <2>5, <2>6
  <2> QED  BY <2>1, <2>2, <2>3, <2>4, <2>7 DEF rows
<1> HIDE DEF m
<1>4. IsModels(m)
  BY <1>2, <1>3 DEF IsModels
<1>5. ASSUME NEW x, Waits(m, x)
      PROVE  Waits(d.models, x)
  <2>1. PICK k \in DOMAIN m : \E i \in DOMAIN m[k] : m[k][i].id = x /\ m[k][i].state = "queued"
    BY <1>5 DEF Waits
  <2>2. PICK i \in DOMAIN m[k] : m[k][i].id = x /\ m[k][i].state = "queued"
    BY <2>1
  <2>3. k \in DOMAIN d.models /\ \E j \in DOMAIN d.models[k] : m[k][i] = d.models[k][j]
    BY <1>2, <1>3, <2>2
  <2> QED  BY <2>2, <2>3, Zenon DEF Waits
<1>6. OnlyWaits(m, d.models, {})
  BY <1>5, Zenon DEF OnlyWaits
<1> QED  BY <1>1, <1>2, <1>4, <1>6, ModelsLemma DEF Rest

(***************************************************************************)
(* The cache of models                                                     *)
(***************************************************************************)

\* What Keep leaves in a list of conversations.
LEMMA KeepRange ==
    ASSUME NEW q \in Seq(Keys), NEW S
    PROVE  Range(Keep(q, S)) = Range(q) \cap S
<1> DEFINE r == Keep(q, S)
<1>0. r \in Seq(S) /\ Part(r, q)
  BY KeepFacts, SMTT(10), ZenonT(40)
<1>1. \A i \in 1 .. Len(q) : q[i] \in S => \E j \in 1 .. Len(r) : r[j] = q[i]
  BY KeepFacts, SMTT(10), ZenonT(40)
<1> HIDE DEF r
<1>2. DOMAIN r = 1 .. Len(r) /\ DOMAIN q = 1 .. Len(q) /\ \A j \in DOMAIN r : r[j] \in S
  BY <1>0
<1>3. PICK e \in [1 .. Len(r) -> 1 .. Len(q)] : \A j \in 1 .. Len(r) : r[j] = q[e[j]]
  BY <1>0 DEF Part
<1>4. \A x \in Range(r) : x \in Range(q) /\ x \in S
  BY <1>2, <1>3 DEF Range
<1>5. \A x \in Range(q) : x \in S => x \in Range(r)
  BY <1>1, <1>2 DEF Range
<1> QED  BY <1>4, <1>5 DEF r

\* An element of a list of conversations, and the list with one more.
LEMMA RangeFacts ==
    ASSUME NEW q \in Seq(Keys), NEW k \in Keys
    PROVE  /\ Append(q, k) \in Seq(Keys)
           /\ Range(Append(q, k)) = Range(q) \cup {k}
           /\ q # <<>> => Head(q) \in Range(q)
           /\ q = <<>> => Range(q) = {}
<1>1. /\ Append(q, k) \in Seq(Keys) /\ DOMAIN q = 1 .. Len(q) /\ DOMAIN Append(q, k) = 1 .. Len(q) + 1
      /\ \A i \in 1 .. Len(q) : Append(q, k)[i] = q[i]
      /\ Append(q, k)[Len(q) + 1] = k /\ Len(q) \in Nat
  OBVIOUS
<1> DEFINE r == Append(q, k)
<1>2. \A x \in Range(r) : x \in Range(q) \/ x = k
  <2> HIDE DEF r
  <2> TAKE x \in Range(r)
  <2>1. PICK i \in DOMAIN r : x = r[i]
    BY DEF Range
  <2>2. CASE i = Len(q) + 1
    BY <1>1, <2>1, <2>2 DEF r
  <2>3. CASE i # Len(q) + 1
    <3>1. i \in 1 .. Len(q)
      BY <1>1, <2>1, <2>3 DEF r
    <3> QED  BY <1>1, <2>1, <3>1 DEF r, Range
  <2> QED  BY <2>2, <2>3
<1>3. \A x \in Range(q) : x \in Range(r)
  <2> TAKE x \in Range(q)
  <2>1. PICK i \in 1 .. Len(q) : x = q[i]
    BY <1>1 DEF Range
  <2>2. i \in DOMAIN r /\ r[i] = x
    BY <1>1, <2>1
  <2> HIDE DEF r
  <2> QED  BY <2>2 DEF Range
<1>4. k \in Range(r)
  <2>1. Len(q) + 1 \in DOMAIN r /\ r[Len(q) + 1] = k
    BY <1>1
  <2> HIDE DEF r
  <2> QED  BY <2>1 DEF Range
<1> HIDE DEF r
<1>5. q # <<>> => Head(q) \in Range(q)
  <2> SUFFICES ASSUME q # <<>> PROVE Head(q) \in Range(q)
    OBVIOUS
  <2>1. 1 \in DOMAIN q /\ Head(q) = q[1]
    BY <1>1
  <2> QED  BY <2>1 DEF Range
<1>6. q = <<>> => Range(q) = {}
  BY DEF Range
<1> QED  BY <1>1, <1>2, <1>3, <1>4, <1>5, <1>6 DEF r

\* More than two conversations are not all protected.
LEMMA ThirdElement ==
    ASSUME NEW D, IsFiniteSet(D), Cardinality(D) > 2, NEW x, NEW y
    PROVE  \E z \in D : z \notin {x, y}
<1> SUFFICES ASSUME D \subseteq {x} \cup {y} PROVE FALSE
  OBVIOUS
<1>1. IsFiniteSet({x}) /\ Cardinality({x}) = 1
  BY FS_Singleton, Zenon
<1>2. IsFiniteSet({x} \cup {y}) /\ (Cardinality({x} \cup {y}) = 1 \/ Cardinality({x} \cup {y}) = 2)
  BY <1>1, FS_AddElement
<1>3. D \in SUBSET ({x} \cup {y})
  OBVIOUS
<1>4. Cardinality(D) <= Cardinality({x} \cup {y})
  BY <1>2, <1>3, FS_Subset
<1>5. Cardinality(D) \in Nat
  BY FS_CardinalityType
<1> QED  BY <1>2, <1>4, <1>5

\* What ensureConversationModel promises: the conversation has a model, the
\* cache is within its limit, and the active model was not the price for it.
Ensured(d, e, k) ==
    /\ Cached(e) /\ Rest(d, e)
    /\ k \in DOMAIN e.models
    /\ d.active \in DOMAIN d.models => d.active \in DOMAIN e.models
    /\ d.shown = d.active => e.shown = d.shown
    /\ \A x \in DOMAIN e.models : e.models[x] = IF x \in DOMAIN d.models THEN d.models[x] ELSE <<>>

\* The controller that has one model too many, before trimming.
LEMMA EnsureLemma ==
    ASSUME NEW d, Cached(d), NEW k \in Keys
    PROVE  Ensured(d, Ensure(d, k), k)
<1> DEFINE kept == Keep(d.used, Keys \ {k})
           used == Append(kept, k)
           models == [x \in DOMAIN d.models \cup {k} |-> IF x = k THEN <<>> ELSE d.models[x]]
           D == DOMAIN d.models
<1>1. /\ Names \subseteq DOMAIN d /\ IsModels(d.models) /\ IsFiniteSet(D) /\ Cardinality(D) <= MaxModels
      /\ d.used \in Seq(Keys) /\ Range(d.used) = D /\ d.active \in Keys /\ d.searching \in BOOLEAN
  BY DEF Cached
<1>2. D \subseteq Keys
  BY <1>1 DEF IsModels
<1>3. kept \in Seq(Keys) /\ Range(kept) = D \cap (Keys \ {k})
  BY <1>1, KeepFacts, KeepRange
<1> HIDE DEF kept
<1>4. used \in Seq(Keys) /\ Range(used) = D \cup {k}
  BY <1>2, <1>3, RangeFacts
<1> HIDE DEF used
<1>5. CASE k \in DOMAIN d.models
  <2> DEFINE e == [d EXCEPT !.used = used]
  <2>1. Ensure(d, k) = e
    BY <1>5 DEF Ensure, used, kept
  <2>2. /\ DOMAIN e = DOMAIN d /\ e.used = used /\ e.models = d.models /\ e.shown = d.shown
        /\ Rest(d, e)
    BY <1>1 DEF Names, Rest
  <2>3. D \cup {k} = D
    BY <1>5
  <2> HIDE DEF e
  <2>4. Cached(e)
    BY <1>1, <1>4, <2>2, <2>3, Zenon DEF Cached, Rest
  <2> QED  BY <1>5, <2>1, <2>2, <2>4 DEF Ensured
<1>6. CASE k \notin DOMAIN d.models
  <2> DEFINE f == [d EXCEPT !.used = used, !.models = models]
             E == D \cup {k}
  <2>1. Ensure(d, k) = Trim(f, k)
    BY <1>6 DEF Ensure, used, kept
  <2>2. /\ DOMAIN f = DOMAIN d /\ f.used = used /\ f.models = models /\ f.shown = d.shown
        /\ Rest(d, f)
    BY <1>1 DEF Names, Rest
  <2>3. /\ DOMAIN models = E
        /\ \A x \in E : models[x] = IF x \in D THEN d.models[x] ELSE <<>>
    BY <1>6
  <2>4. IsModels(models)
    <3> SUFFICES ASSUME NEW x \in E
                 PROVE  x \in Keys /\ models[x] \in Seq(Row) /\ Unique(models[x])
      BY <2>3, Zenon DEF IsModels
    <3>1. CASE x \in D
      <4>1. models[x] = d.models[x]
        BY <2>3, <3>1, Zenon
      <4> QED  BY <1>1, <3>1, <4>1 DEF IsModels
    <3>2. CASE x \notin D
      <4>1. models[x] = <<>> /\ x = k
        BY <2>3, <3>2
      <4>2. <<>> \in Seq(Row) /\ DOMAIN <<>> = {}
        OBVIOUS
      <4>3. Unique(<<>>)
        BY <4>2 DEF Unique
      <4> QED  BY <4>1, <4>2, <4>3
    <3> QED  BY <3>1, <3>2
  <2>5. IsFiniteSet(E) /\ Cardinality(E) = Cardinality(D) + 1 /\ Cardinality(D) \in Nat /\ MaxModels \in Nat \ {0, 1}
    BY <1>1, <1>6, FS_AddElement, FS_CardinalityType, ConversationsAssumption
  <2>6. E \subseteq Keys /\ k \in E
    BY <1>2
  <2> HIDE DEF f, models, E, D
  <2> DEFINE old == Keep(f.used, Keys \ Protected(f, k))
             gone == Head(old)
  <2>7. CASE Cardinality(E) <= MaxModels
    <3>1. Trim(f, k) = f
      BY <2>2, <2>3, <2>7 DEF Trim
    <3>2. Cached(f)
      BY <1>1, <1>4, <2>2, <2>3, <2>4, <2>5, <2>7 DEF Cached, Rest, E, D
    <3>3. Ensured(d, f, k)
      BY <2>2, <2>3, <2>6, <3>2 DEF Ensured, E, D
    <3> QED  BY <2>1, <3>1, <3>3
  <2>8. CASE ~(Cardinality(E) <= MaxModels)
    <3>1. Cardinality(E) = MaxModels + 1 /\ Cardinality(E) > 2
      BY <1>1, <2>5, <2>8 DEF D
    <3>2. PICK z \in E : z \notin {d.active, k}
      BY <2>5, <3>1, ThirdElement, Zenon
    <3>3. Protected(f, k) = {d.active, k}
      BY <2>2 DEF Protected, Rest
    <3>4. old \in Seq(Keys) /\ Range(old) = E \cap (Keys \ {d.active, k})
      BY <1>4, <2>2, <3>3, KeepFacts, KeepRange DEF E
    <3> HIDE DEF old
    <3>5. old # <<>> /\ gone \in E /\ gone \notin {d.active, k}
      BY <2>6, <3>2, <3>4, RangeFacts
    <3> HIDE DEF gone
    <3> DEFINE m == [x \in DOMAIN f.models \ {gone} |-> f.models[x]]
               u == Keep(f.used, Keys \ {gone})
               s == IF f.shown = gone THEN None ELSE f.shown
               e == [f EXCEPT !.models = m, !.used = u, !.shown = s]
    <3>6. Trim(f, k) = e
      BY <2>2, <2>3, <2>8, <3>5 DEF Trim, old, gone
    <3>7. u \in Seq(Keys) /\ Range(u) = E \ {gone}
      <4>1. u \in Seq(Keys) /\ Range(u) = E \cap (Keys \ {gone})
        BY <1>4, <2>2, KeepFacts, KeepRange, Zenon DEF E
      <4> QED  BY <2>6, <4>1, Zenon
    <3>8. DOMAIN m = E \ {gone} /\ \A x \in E \ {gone} : m[x] = IF x \in D THEN d.models[x] ELSE <<>>
      BY <2>2, <2>3
    <3>9. IsModels(m)
      <4>1. \A x \in E \ {gone} : m[x] = models[x]
        BY <2>2, <2>3
      <4> HIDE DEF m
      <4> QED  BY <2>3, <2>4, <3>8, <4>1 DEF IsModels
    <3>10. IsFiniteSet(E \ {gone}) /\ Cardinality(E \ {gone}) <= MaxModels
      <4>1. IsFiniteSet(E \ {gone}) /\ Cardinality(E \ {gone}) = Cardinality(E) - 1
        BY <2>5, <3>5, FS_RemoveElement
      <4> QED  BY <2>5, <3>1, <4>1
    <3> HIDE DEF m, u, s
    <3>11. /\ DOMAIN e = DOMAIN d /\ e.models = m /\ e.used = u /\ e.shown = s
           /\ Rest(f, e)
      BY <1>1, <2>2 DEF Names, Rest
    <3>12. Rest(d, e)
      BY <2>2, <3>11 DEF Rest
    <3> HIDE DEF e
    <3>13. Cached(e)
      BY <1>1, <3>7, <3>8, <3>9, <3>10, <3>11, <3>12 DEF Cached, Rest
    <3>14. d.shown = d.active => s = d.shown
      BY <2>2, <3>5 DEF s
    <3>15. d.active \in DOMAIN d.models => d.active \in E \ {gone}
      BY <3>5 DEF E, D
    <3>16. k \in E \ {gone}
      BY <2>6, <3>5
    <3>17. Ensured(d, e, k)
      BY <3>8, <3>11, <3>12, <3>13, <3>14, <3>15, <3>16 DEF Ensured, D
    <3> QED  BY <2>1, <3>6, <3>17
  <2> QED  BY <2>7, <2>8
<1> QED  BY <1>5, <1>6

(***************************************************************************)
(* The operators of the handlers                                           *)
(***************************************************************************)

\* A handler takes d to e: the rows that wait then waited before, or are of X.
Keeps(d, e, X) == Whole(e) /\ OnlyWaits(e.models, d.models, X)

\* The fields that the invariant is about are those of d.
SameView(d, e) ==
    /\ Names \subseteq DOMAIN e
    /\ e.models = d.models /\ e.used = d.used /\ e.active = d.active /\ e.shown = d.shown
    /\ e.unread = d.unread /\ e.searching \in BOOLEAN

\* Other fields do not matter.
LEMMA SameViewLemma ==
    ASSUME NEW d, NEW e, SameView(d, e), Whole(d)
    PROVE  Keeps(d, e, {})
BY DEF SameView, Keeps, Whole, Cached, OnlyWaits

\* Two operators one after the other.
LEMMA KeepsTwice ==
    ASSUME NEW d, NEW e, NEW f, NEW X, Keeps(d, e, X), Keeps(e, f, {})
    PROVE  Keeps(d, f, X)
BY Zenon DEF Keeps, OnlyWaits

WithRows(d, k, r) == [d EXCEPT !.models[k] = r]

\* One of the models gets other rows.
LEMMA WithRowsLemma ==
    ASSUME NEW d, Whole(d), NEW k \in DOMAIN d.models, NEW r \in Seq(Row), Unique(r), NEW X,
           \A i \in DOMAIN r : r[i].state = "queued" =>
               r[i].id \in X \/ \E j \in DOMAIN d.models[k] : r[i] = d.models[k][j]
    PROVE  Keeps(d, WithRows(d, k, r), X) /\ Rest(d, WithRows(d, k, r))
<1> DEFINE m == [d.models EXCEPT ![k] = r]
<1>1. DOMAIN m = DOMAIN d.models /\ m[k] = r /\ \A x \in DOMAIN m : x # k => m[x] = d.models[x]
  OBVIOUS
<1>2. WithRows(d, k, r) = [d EXCEPT !.models = m]
  BY DEF WithRows
<1> HIDE DEF m
<1>3. IsModels(m)
  BY <1>1 DEF IsModels, Whole, Cached
<1>4. OnlyWaits(m, d.models, X)
  <2> SUFFICES ASSUME NEW id \in Ids, Waits(m, id), id \notin X
               PROVE  Waits(d.models, id)
    BY DEF OnlyWaits
  <2>1. PICK x \in DOMAIN m : \E i \in DOMAIN m[x] : m[x][i].id = id /\ m[x][i].state = "queued"
    BY DEF Waits
  <2>2. PICK i \in DOMAIN m[x] : m[x][i].id = id /\ m[x][i].state = "queued"
    BY <2>1
  <2>3. CASE x = k
    <3>1. \E j \in DOMAIN d.models[k] : r[i] = d.models[k][j]
      BY <1>1, <2>2, <2>3
    <3> QED  BY <1>1, <2>2, <2>3, <3>1, ZenonT(40) DEF Waits
  <2>4. CASE x # k
    <3>1. x \in DOMAIN d.models /\ m[x] = d.models[x]
      BY <1>1, <2>4
    <3> QED  BY <2>2, <3>1, Zenon DEF Waits
  <2> QED  BY <2>3, <2>4
<1> QED  BY <1>1, <1>2, <1>3, <1>4, ModelsLemma DEF Keeps

\* A row more in one of the models.
LEMMA MoreRowsLemma ==
    ASSUME NEW d, Whole(d), NEW k \in DOMAIN d.models, NEW row \in Row, NEW X, row.state = "queued" => row.id \in X
    PROVE  /\ Keeps(d, WithRows(d, k, AppendRow(d.models[k], row)), X)
           /\ Rest(d, WithRows(d, k, AppendRow(d.models[k], row)))
<1> DEFINE rows == d.models[k]
           r == AppendRow(rows, row)
<1>1. rows \in Seq(Row) /\ Unique(rows)
  BY DEF Whole, Cached, IsModels
<1> HIDE DEF rows
<1>2. r \in Seq(Row) /\ Unique(r) /\ From(r, rows, row)
  BY <1>1, AppendRowLemma
<1> HIDE DEF r
<1>3. \A i \in DOMAIN r : r[i].state = "queued" => r[i].id \in X \/ \E j \in DOMAIN rows : r[i] = rows[j]
  BY <1>2, Zenon DEF From
<1> QED  BY <1>2, <1>3, WithRowsLemma DEF rows, r

\* ensureConversationModel keeps the rows.
LEMMA EnsuredWaits ==
    ASSUME NEW d, NEW e, NEW k, Ensured(d, e, k)
    PROVE  OnlyWaits(e.models, d.models, {})
<1> SUFFICES ASSUME NEW id \in Ids, Waits(e.models, id)
             PROVE  Waits(d.models, id)
  BY DEF OnlyWaits
<1>1. PICK x \in DOMAIN e.models : \E i \in DOMAIN e.models[x] : e.models[x][i].id = id /\ e.models[x][i].state = "queued"
  BY DEF Waits
<1>2. PICK i \in DOMAIN e.models[x] : e.models[x][i].id = id /\ e.models[x][i].state = "queued"
  BY <1>1
<1>3. e.models[x] = IF x \in DOMAIN d.models THEN d.models[x] ELSE <<>>
  BY DEF Ensured
<1>4. x \in DOMAIN d.models /\ e.models[x] = d.models[x]
  BY <1>2, <1>3
<1> QED  BY <1>2, <1>4, Zenon DEF Waits

\* The row goes to its conversation, which may have to be cached first.
LEMMA AppendToLemma ==
    ASSUME NEW d, Whole(d), NEW k \in Keys, NEW row \in Row, NEW X, row.state = "queued" => row.id \in X
    PROVE  Keeps(d, AppendTo(d, k, row), X) /\ Rest(d, AppendTo(d, k, row))
<1> DEFINE e == Ensure(d, k)
           f == WithRows(e, k, AppendRow(e.models[k], row))
<1>1. AppendTo(d, k, row) = f
  BY DEF AppendTo, WithRows
<1>2. Ensured(d, e, k)
  BY EnsureLemma DEF Whole
<1> HIDE DEF e
<1>3. Whole(e) /\ Rest(d, e) /\ k \in DOMAIN e.models
  BY <1>2 DEF Whole, Ensured, Rest
<1>4. OnlyWaits(e.models, d.models, {})
  BY <1>2, EnsuredWaits
<1>5. Keeps(e, f, X) /\ Rest(e, f)
  BY <1>3, MoreRowsLemma
<1> HIDE DEF f
<1>6. Keeps(d, f, X)
  BY <1>4, <1>5, Zenon DEF Keeps, OnlyWaits
<1>7. Rest(d, f)
  BY <1>3, <1>5 DEF Rest
<1> QED  BY <1>1, <1>6, <1>7

\* A system message goes to the model that is shown.
LEMMA AppendSystemLemma ==
    ASSUME NEW d, Whole(d)
    PROVE  Keeps(d, AppendSystemMessage(d), {}) /\ Rest(d, AppendSystemMessage(d))
<1> DEFINE row == [id |-> None, state |-> "none"]
<1>1. row \in Row /\ row.state # "queued"
  BY DEF Row
<1>2. AppendSystemMessage(d) = WithRows(d, d.shown, AppendRow(d.models[d.shown], row))
  BY DEF AppendSystemMessage, WithRows
<1> HIDE DEF row
<1>3. d.shown \in DOMAIN d.models
  BY DEF Whole
<1> QED  BY <1>1, <1>2, <1>3, MoreRowsLemma

\* An unread message in another conversation.
LEMMA IncrementUnreadLemma ==
    ASSUME NEW d, Whole(d), NEW k \in Keys, k # d.active
    PROVE  Keeps(d, IncrementUnread(d, k), {}) /\ IncrementUnread(d, k).active = d.active
<1> DEFINE e == IncrementUnread(d, k)
<1>1. Names \subseteq DOMAIN d
  BY DEF Whole, Cached
<1>2. /\ Names \subseteq DOMAIN e /\ e.models = d.models /\ e.used = d.used /\ e.active = d.active
      /\ e.shown = d.shown /\ e.searching = d.searching /\ e.unread \subseteq d.unread \cup {k}
  BY <1>1 DEF IncrementUnread, Names
<1> HIDE DEF e
<1> QED  BY <1>2 DEF Keeps, Whole, Cached, OnlyWaits, e

\* Opening a conversation makes it the one that is shown, with no unread
\* messages.
LEMMA OpenLemma ==
    ASSUME NEW d, Whole(d), NEW k \in Keys
    PROVE  Keeps(d, Open(d, k), {}) /\ Open(d, k).active = k
<1> DEFINE e == Ensure(d, k)
           f == Open(d, k)
<1>1. Ensured(d, e, k)
  BY EnsureLemma DEF Whole
<1>2. f = [e EXCEPT !.searching = FALSE, !.shown = k, !.active = k, !.unread = e.unread \ {k}]
  BY DEF Open
<1> HIDE DEF e
<1>3. Names \subseteq DOMAIN e /\ Cached(e) /\ k \in DOMAIN e.models
  BY <1>1 DEF Ensured, Cached
<1>4. /\ Names \subseteq DOMAIN f /\ f.models = e.models /\ f.used = e.used /\ f.active = k /\ f.shown = k
      /\ f.searching = FALSE /\ f.unread = e.unread \ {k}
  BY <1>2, <1>3 DEF Names
<1> HIDE DEF f
<1>5. Whole(f)
  BY <1>3, <1>4, Zenon DEF Whole, Cached
<1>6. OnlyWaits(f.models, d.models, {})
  BY <1>1, <1>4, EnsuredWaits
<1> QED  BY <1>4, <1>5, <1>6 DEF Keeps, f

\* requestActiveHistory only remembers that it asks.
LEMMA RequestedLemma ==
    ASSUME NEW d, Whole(d)
    PROVE  /\ SameView(d, Requested(d)) /\ Keeps(d, Requested(d), {})
           /\ RequestCalls(d, d.searching) \in Seq(CallSet)
           /\ \A x \in BOOLEAN : RequestCalls(d, x) \in Seq(CallSet)
<1>1. Names \subseteq DOMAIN d /\ d.searching \in BOOLEAN /\ d.active \in Keys
  BY DEF Whole, Cached
<1>2. SameView(d, Requested(d))
  BY <1>1 DEF SameView, Requested, Names
<1>3. ASSUME NEW x \in BOOLEAN
      PROVE  RequestCalls(d, x) \in Seq(CallSet)
  <2>1. Call("history", None, d.active, x) \in CallSet
    BY <1>1 DEF CallSet, Call, Ids, Requests
  <2> QED  BY <2>1 DEF RequestCalls
<1> QED  BY <1>1, <1>2, <1>3, SameViewLemma

\* resetSessionData clears the models and shows the lobby, whether or not it is
\* in the cache.
LEMMA ResetLemma ==
    ASSUME NEW d, Whole(d)
    PROVE  Keeps(d, ResetSessionData(d), {})
<1> DEFINE m == [k \in DOMAIN d.models |-> <<>>]
           g == [d EXCEPT !.models = m, !.active = Lobby]
           e == Ensure(g, Lobby)
           f == ResetSessionData(d)
<1>0. Lobby \in Keys
  BY ConversationsAssumption DEF Keys
<1>1. Names \subseteq DOMAIN d /\ Cached(d)
  BY DEF Whole, Cached
<1>2. DOMAIN m = DOMAIN d.models /\ \A k \in DOMAIN m : m[k] = <<>>
  OBVIOUS
<1>3. f = [e EXCEPT !.listed = {Lobby}, !.unread = {}, !.joined = Lobby, !.shown = Lobby,
                    !.loading = FALSE, !.searching = FALSE]
  BY DEF ResetSessionData
<1> HIDE DEF m
<1>4. /\ DOMAIN g = DOMAIN d /\ g.models = m /\ g.used = d.used /\ g.active = Lobby /\ g.searching = d.searching
  BY <1>1 DEF Names
<1> HIDE DEF g
<1>5. IsModels(m)
  <2>1. <<>> \in Seq(Row) /\ DOMAIN <<>> = {}
    OBVIOUS
  <2>2. Unique(<<>>)
    BY <2>1 DEF Unique
  <2> QED  BY <1>1, <1>2, <2>1, <2>2, Zenon DEF IsModels, Cached
<1>6. Cached(g)
  BY <1>0, <1>1, <1>2, <1>4, <1>5 DEF Cached
<1>7. Ensured(g, e, Lobby)
  BY <1>0, <1>6, EnsureLemma
<1> HIDE DEF e
<1>8. /\ Names \subseteq DOMAIN e /\ Cached(e) /\ Lobby \in DOMAIN e.models /\ e.active = Lobby
  BY <1>4, <1>7 DEF Ensured, Cached, Rest
<1>9. /\ Names \subseteq DOMAIN f /\ f.models = e.models /\ f.used = e.used /\ f.active = Lobby /\ f.shown = Lobby
      /\ f.searching = FALSE /\ f.unread = {}
  BY <1>3, <1>8 DEF Names
<1> HIDE DEF f
<1>10. Whole(f)
  BY <1>8, <1>9, Zenon DEF Whole, Cached
<1>11. OnlyWaits(f.models, m, {})
  BY <1>4, <1>7, <1>9, EnsuredWaits
<1>12. \A id : ~Waits(m, id)
  BY <1>2 DEF Waits
<1> QED  BY <1>10, <1>11, <1>12 DEF Keeps, OnlyWaits, f

(***************************************************************************)
(* The bridge                                                              *)
(***************************************************************************)

\* What a handler changes is marked as dirty, or is not watched.
LEMMA AfterLemma ==
    ASSUME Whole(c), Serialized(b, c), NEW d, Whole(d), NEW opened \in BOOLEAN, opened \/ d.active = c.active
    PROVE  Serialized(After(d, opened), d)
<1> DEFINE kept == DOMAIN c.models \cap DOMAIN d.models
           gone == DOMAIN c.models \ DOMAIN d.models
           lists == IF <<c.listed, c.unread>> # <<d.listed, d.unread>> THEN {"lists"} ELSE {}
           changed == {k \in kept : c.models[k] # d.models[k]} \cup lists
           page == IF Fields(c) # Fields(d) THEN {"page"} ELSE {}
           new == IF opened THEN {d.shown} \ (b.watched \ gone) ELSE {}
           e == After(d, opened)
<1>1. e = [b EXCEPT !.watched = (b.watched \ gone) \cup new,
                    !.dirty = (b.dirty \ gone) \cup (changed \cap b.watched) \cup new,
                    !.timer = b.timer \/ opened \/ (changed \cap b.watched) \cup page # {},
                    !.fresh = b.fresh \ (gone \cup changed \cup page)]
  BY DEF After, MarkDirty
<1>2. gone \subseteq Keys /\ changed \subseteq Keys \cup {"lists"} /\ page \subseteq {"page"}
  BY DEF Whole, Cached, IsModels
<1>3. "lists" \notin Keys /\ "page" \notin Keys
  BY ConversationsAssumption
<1>4. ~opened => c.active \notin gone
  BY DEF Whole
<1>5. opened => (new = {d.active} \ (b.watched \ gone))
  BY DEF Whole
<1>6. ~opened => new = {}
  OBVIOUS
<1>7. d.active \in Keys
  BY DEF Whole, Cached
<1> HIDE DEF kept, gone, lists, changed, page, new
<1>8. {"watched", "dirty", "timer", "fresh", "pending"} \subseteq DOMAIN b
  BY DEF Serialized
<1>9. /\ DOMAIN e = DOMAIN b
      /\ e.watched = (b.watched \ gone) \cup new
      /\ e.dirty = (b.dirty \ gone) \cup (changed \cap b.watched) \cup new
      /\ e.fresh = b.fresh \ (gone \cup changed \cup page)
  BY <1>1, <1>8
<1>10. e.timer = (b.timer \/ opened \/ (changed \cap b.watched) \cup page # {})
  BY <1>1, <1>8
<1> HIDE DEF e
<1>11. {"lists", d.active} \subseteq e.watched
  <2>1. "lists" \in e.watched
    BY <1>2, <1>3, <1>9 DEF Serialized
  <2>2. CASE opened
    BY <1>5, <1>9, <2>1, <2>2
  <2>3. CASE ~opened
    BY <1>4, <1>9, <2>1, <2>3 DEF Serialized
  <2> QED  BY <2>1, <2>2, <2>3
<1>12. "page" \notin e.watched
  BY <1>3, <1>5, <1>6, <1>7, <1>9 DEF Serialized
<1>13. e.watched \subseteq e.fresh \cup e.dirty
  <2> SUFFICES ASSUME NEW x \in e.watched, x \notin e.dirty
               PROVE  x \in e.fresh
    OBVIOUS
  <2>1. x \in b.watched /\ x \notin gone /\ x \notin b.dirty /\ x \notin changed
    BY <1>9
  <2>2. x \in b.fresh
    BY <2>1 DEF Serialized
  <2>3. x # "page"
    BY <1>12
  <2> QED  BY <1>2, <1>9, <2>1, <2>2, <2>3, Zenon
<1>14. ASSUME ~e.timer
       PROVE  e.dirty = {} /\ "page" \in e.fresh
  <2>1. ~b.timer /\ ~opened /\ changed \cap b.watched = {} /\ page = {}
    BY <1>10, <1>14, Zenon
  <2>2. b.dirty = {} /\ "page" \in b.fresh
    BY <2>1 DEF Serialized
  <2>3. "page" \notin gone \cup changed
    BY <1>2, <1>3
  <2> QED  BY <1>6, <1>9, <2>1, <2>2, <2>3
<1> QED  BY <1>8, <1>9, <1>11, <1>12, <1>13, <1>14 DEF Serialized, e

\* The commands that are pending do not matter, and a snapshot more is no harm.
LEMMA PendingLemma ==
    ASSUME NEW e, NEW d, Serialized(e, d), NEW X
    PROVE  /\ Serialized([e EXCEPT !.pending = X], d)
           /\ Serialized([e EXCEPT !.pending = X, !.timer = TRUE], d)
BY DEF Serialized

(***************************************************************************)
(* The queues                                                              *)
(***************************************************************************)

\* What is in a queue stays there when something is added.
LEMMA HasConcat ==
    ASSUME NEW S, NEW q \in Seq(S), NEW r \in Seq(S), NEW type, NEW id
    PROVE  /\ q \o r \in Seq(S)
           /\ Has(q, type, id) => Has(q \o r, type, id)
           /\ Has(r, type, id) => Has(q \o r, type, id)
<1> DEFINE p == q \o r
<1>1. /\ p \in Seq(S) /\ DOMAIN q = 1 .. Len(q) /\ DOMAIN r = 1 .. Len(r) /\ DOMAIN p = 1 .. Len(q) + Len(r)
      /\ Len(q) \in Nat /\ Len(r) \in Nat
      /\ \A i \in 1 .. Len(q) : p[i] = q[i]
      /\ \A i \in 1 .. Len(r) : p[Len(q) + i] = r[i]
  OBVIOUS
<1> HIDE DEF p
<1>2. ASSUME Has(q, type, id) PROVE Has(p, type, id)
  <2>1. PICK j \in DOMAIN q : q[j].type = type /\ q[j].id = id
    BY <1>2 DEF Has
  <2>2. j \in DOMAIN p /\ p[j] = q[j]
    BY <1>1, <2>1
  <2> QED  BY <2>1, <2>2 DEF Has
<1>3. ASSUME Has(r, type, id) PROVE Has(p, type, id)
  <2>1. PICK j \in DOMAIN r : r[j].type = type /\ r[j].id = id
    BY <1>3 DEF Has
  <2>2. Len(q) + j \in DOMAIN p /\ p[Len(q) + j] = r[j]
    BY <1>1, <2>1
  <2> QED  BY <2>1, <2>2 DEF Has
<1> QED  BY <1>1, <1>2, <1>3 DEF p

\* The same for one element.
LEMMA HasAppend ==
    ASSUME NEW S, NEW q \in Seq(S), NEW e \in S
    PROVE  /\ Append(q, e) \in Seq(S)
           /\ \A type, id : Has(q, type, id) => Has(Append(q, e), type, id)
           /\ Has(Append(q, e), e.type, e.id)
           /\ <<e>> \in Seq(S) /\ Has(<<e>>, e.type, e.id)
<1> DEFINE p == Append(q, e)
<1>1. /\ p \in Seq(S) /\ DOMAIN q = 1 .. Len(q) /\ DOMAIN p = 1 .. Len(q) + 1 /\ Len(q) \in Nat
      /\ \A i \in 1 .. Len(q) : p[i] = q[i]
      /\ p[Len(q) + 1] = e
  OBVIOUS
<1> HIDE DEF p
<1>2. ASSUME NEW type, NEW id, Has(q, type, id) PROVE Has(p, type, id)
  <2>1. PICK j \in DOMAIN q : q[j].type = type /\ q[j].id = id
    BY <1>2 DEF Has
  <2>2. j \in DOMAIN p /\ p[j] = q[j]
    BY <1>1, <2>1
  <2> QED  BY <2>1, <2>2 DEF Has
<1>3. Has(p, e.type, e.id)
  <2>1. Len(q) + 1 \in DOMAIN p
    BY <1>1
  <2> QED  BY <1>1, <2>1, Zenon DEF Has
<1>4. <<e>> \in Seq(S) /\ Has(<<e>>, e.type, e.id)
  <2>1. <<e>> \in Seq(S) /\ 1 \in DOMAIN <<e>> /\ <<e>>[1] = e
    OBVIOUS
  <2> QED  BY <2>1, Zenon DEF Has
<1> QED  BY <1>1, <1>2, <1>3, <1>4 DEF p

\* Only the head leaves a queue.
LEMMA HasTail ==
    ASSUME NEW S, NEW q \in Seq(S), q # <<>>
    PROVE  /\ Tail(q) \in Seq(S) /\ Head(q) \in S
           /\ \A type, id : Has(q, type, id) => Has(Tail(q), type, id) \/ (Head(q).type = type /\ Head(q).id = id)
<1> DEFINE p == Tail(q)
<1>1. /\ p \in Seq(S) /\ Head(q) \in S /\ Head(q) = q[1]
      /\ DOMAIN q = 1 .. Len(q) /\ DOMAIN p = 1 .. Len(q) - 1 /\ Len(q) \in Nat
      /\ \A i \in 1 .. Len(q) - 1 : p[i] = q[i + 1]
  OBVIOUS
<1> HIDE DEF p
<1>2. ASSUME NEW type, NEW id, Has(q, type, id), ~(Head(q).type = type /\ Head(q).id = id)
      PROVE  Has(p, type, id)
  <2>1. PICK j \in DOMAIN q : q[j].type = type /\ q[j].id = id
    BY <1>2 DEF Has
  <2>2. j - 1 \in DOMAIN p /\ p[j - 1] = q[j]
    <3>1. j # 1
      BY <1>1, <1>2, <2>1
    <3>2. j - 1 \in 1 .. Len(q) - 1 /\ (j - 1) + 1 = j
      BY <1>1, <2>1, <3>1
    <3> QED  BY <1>1, <3>2
  <2> QED  BY <2>1, <2>2 DEF Has
<1> QED  BY <1>1, <1>2 DEF p

(***************************************************************************)
(* Steps of the controller                                                 *)
(***************************************************************************)

\* A handler takes the controller to d, and sends the messages that wait.
Sends(d, out) == Whole(d) /\ \A id \in Ids : Waits(d.models, id) => Waits(c.models, id) \/ Has(out, "send", id)

\* Most handlers send nothing.
LEMMA SendsNothing ==
    ASSUME NEW d, Keeps(c, d, {}), NEW out
    PROVE  Sends(d, out)
BY DEF Keeps, OnlyWaits, Sends

\* A step of the controller: it handles a signal or not, and makes calls.
LEMMA ControllerStep ==
    ASSUME IInv, NEW d, NEW out, c' = d, Sends(d, out), Serialized(b', d),
           calls' \in Seq(CallSet),
           \A id : (Has(calls, "send", id) \/ Has(out, "send", id)) => Has(calls', "send", id),
           \/ signals' = signals
           \/ /\ signals # <<>> /\ signals' = Tail(signals)
              /\ Head(signals).type = "state" => ~Waits(d.models, Head(signals).id),
           UNCHANGED <<link, log>>
    PROVE  IInv'
<1>0. signals \in Seq(SignalSet)
  BY DEF IInv, Traffic
<1>1. /\ signals' \in Seq(SignalSet)
      /\ \A id : (Has(signals, "state", id) /\ Waits(d.models, id)) => Has(signals', "state", id)
  <2>1. CASE signals' = signals
    BY <1>0, <2>1
  <2>2. CASE /\ signals # <<>> /\ signals' = Tail(signals)
             /\ Head(signals).type = "state" => ~Waits(d.models, Head(signals).id)
    <3>1. /\ Tail(signals) \in Seq(SignalSet)
          /\ \A id : Has(signals, "state", id) =>
                Has(Tail(signals), "state", id) \/ (Head(signals).type = "state" /\ Head(signals).id = id)
      BY <1>0, <2>2, HasTail
    <3> QED  BY <2>2, <3>1, Zenon
  <2> QED  BY <2>1, <2>2
<1>2. Traffic'
  BY <1>1 DEF IInv, Traffic
<1>3. ASSUME NEW id \in Ids, Waits(d.models, id)
      PROVE  UnderWay(id)'
  <2>1. CASE Has(out, "send", id)
    BY <2>1 DEF UnderWay
  <2>2. CASE ~Has(out, "send", id)
    <3>1. UnderWay(id)
      BY <1>3, <2>2 DEF Sends, IInv, Owed
    <3>2. Has(signals, "state", id) => Has(signals', "state", id)
      BY <1>1, <1>3
    <3> QED  BY <3>1, <3>2 DEF UnderWay
  <2> QED  BY <2>1, <2>2
<1>4. Owed'
  BY <1>3 DEF Owed
<1> QED  BY <1>2, <1>4 DEF IInv, Sends

\* A handler in which the active conversation stays the same.
LEMMA ClosedLemma ==
    ASSUME Whole(c), Serialized(b, c), NEW d, Whole(d), d.active = c.active
    PROVE  Serialized(After(d, FALSE), d)
<1>1. FALSE \in BOOLEAN /\ (FALSE \/ d.active = c.active)
  OBVIOUS
<1> QED  BY <1>1, AfterLemma, Zenon

\* A handler that opens a conversation.
LEMMA OpenedLemma ==
    ASSUME Whole(c), Serialized(b, c), NEW d, Whole(d)
    PROVE  Serialized(After(d, TRUE), d)
<1>1. TRUE \in BOOLEAN /\ (TRUE \/ d.active = c.active)
  OBVIOUS
<1> QED  BY <1>1, AfterLemma, Zenon

\* A handler makes the calls in out.
LEMMA BecomesInv ==
    ASSUME IInv, NEW d, NEW out \in Seq(CallSet), Sends(d, out),
           \/ Becomes(d, TRUE, out)
           \/ Becomes(d, FALSE, out) /\ d.active = c.active,
           \/ signals' = signals
           \/ /\ signals # <<>> /\ signals' = Tail(signals)
              /\ Head(signals).type = "state" => ~Waits(d.models, Head(signals).id),
           UNCHANGED <<link, log>>
    PROVE  IInv'
<1>1. Whole(c) /\ Serialized(b, c) /\ Whole(d)
  BY DEF IInv, Sends
<1>2. c' = d /\ calls' = calls \o out
  BY Zenon DEF Becomes
<1>3. calls \in Seq(CallSet)
  BY DEF IInv, Traffic
<1>4. /\ calls \o out \in Seq(CallSet)
      /\ \A id : (Has(calls, "send", id) \/ Has(out, "send", id)) => Has(calls \o out, "send", id)
  BY <1>3, HasConcat
<1>5. \A id : (Has(calls, "send", id) \/ Has(out, "send", id)) => Has(calls', "send", id)
  BY <1>2, <1>4
<1>6. Serialized(b', d)
  <2>1. CASE Becomes(d, TRUE, out)
    BY <1>1, <2>1, OpenedLemma, Zenon DEF Becomes
  <2>2. CASE Becomes(d, FALSE, out) /\ d.active = c.active
    BY <1>1, <2>2, ClosedLemma, Zenon DEF Becomes
  <2> QED  BY <2>1, <2>2, Zenon
<1>7. calls' \in Seq(CallSet)
  BY <1>2, <1>4
<1> QED  BY <1>2, <1>5, <1>6, <1>7, ControllerStep

\* The calls of the controller.
LEMMA CallsTyped ==
    /\ <<>> \in Seq(CallSet)
    /\ <<Call("connect", None, None, FALSE)>> \in Seq(CallSet)
    /\ <<Call("disconnect", None, None, FALSE)>> \in Seq(CallSet)
    /\ <<Call("scheduleReconnect", None, None, FALSE)>> \in Seq(CallSet)
    /\ \A r \in Rooms : <<Call("join", None, r, FALSE)>> \in Seq(CallSet)
    /\ \A m \in Messages : Call("recall", m, None, FALSE) \in CallSet
    /\ \A m \in Messages, k \in Keys : /\ <<Call("send", m, k, FALSE)>> \in Seq(CallSet)
                                       /\ Has(<<Call("send", m, k, FALSE)>>, "send", m)
<1>1. /\ Call("connect", None, None, FALSE) \in CallSet
      /\ Call("disconnect", None, None, FALSE) \in CallSet
      /\ Call("scheduleReconnect", None, None, FALSE) \in CallSet
  BY DEF Call, CallSet, Ids, Requests
<1>2. \A r \in Rooms : Call("join", None, r, FALSE) \in CallSet
  BY DEF Call, CallSet, Ids, Requests, Keys
<1>3. \A m \in Messages : Call("recall", m, None, FALSE) \in CallSet
  BY DEF Call, CallSet, Ids, Requests
<1>4. ASSUME NEW m \in Messages, NEW k \in Keys
      PROVE  /\ <<Call("send", m, k, FALSE)>> \in Seq(CallSet)
             /\ Has(<<Call("send", m, k, FALSE)>>, "send", m)
  <2> DEFINE e == Call("send", m, k, FALSE)
  <2>1. e \in CallSet
    BY DEF Call, CallSet, Ids, Requests
  <2>2. e.type = "send" /\ e.id = m
    BY DEF Call
  <2> HIDE DEF e
  <2>3. <<>> \in Seq(CallSet)
    OBVIOUS
  <2>4. <<e>> \in Seq(CallSet) /\ Has(<<e>>, e.type, e.id)
    BY <2>1, <2>3, HasAppend, Zenon
  <2> QED  BY <2>2, <2>4, Zenon DEF e
<1>5. <<>> \in Seq(CallSet) /\ \A e \in CallSet : <<e>> \in Seq(CallSet)
  OBVIOUS
<1> QED  BY <1>1, <1>2, <1>3, <1>4, <1>5, Zenon

\* A command that only changes other fields.
LEMMA PlainInv ==
    ASSUME IInv, NEW d, SameView(c, d), NEW out \in Seq(CallSet), Becomes(d, FALSE, out), UNCHANGED <<link, log>>,
           \/ signals' = signals
           \/ signals # <<>> /\ signals' = Tail(signals) /\ Head(signals).type # "state"
    PROVE  IInv'
<1>1. Keeps(c, d, {}) /\ d.active = c.active
  BY SameViewLemma DEF IInv, SameView
<1>2. Sends(d, out)
  BY <1>1, SendsNothing
<1>3. \/ signals' = signals
      \/ /\ signals # <<>> /\ signals' = Tail(signals)
         /\ Head(signals).type = "state" => ~Waits(d.models, Head(signals).id)
  OBVIOUS
<1> QED  BY <1>1, <1>2, <1>3, BecomesInv, Zenon

\* connectToServer and disconnectFromServer.
LEMMA ConnectInv ==
    ASSUME IInv, ConnectToServer \/ DisconnectFromServer
    PROVE  IInv'
<1>0. Names \subseteq DOMAIN c /\ c.searching \in BOOLEAN
  BY DEF IInv, Whole, Cached
<1>1. CASE ConnectToServer
  <2>1. SameView(c, c)
    BY <1>0 DEF SameView
  <2>2. /\ Becomes(c, FALSE, <<Call("connect", None, None, FALSE)>>)
        /\ UNCHANGED <<link, log>> /\ signals' = signals
    BY <1>1, Zenon DEF ConnectToServer, Does
  <2> QED  BY <2>1, <2>2, CallsTyped, PlainInv, Zenon
<1>2. CASE DisconnectFromServer
  <2> DEFINE d == [c EXCEPT !.connected = FALSE]
  <2>1. SameView(c, d)
    BY <1>0 DEF SameView, Names
  <2>2. /\ Becomes(d, FALSE, <<Call("disconnect", None, None, FALSE)>>)
        /\ UNCHANGED <<link, log>> /\ signals' = signals
    BY <1>2, Zenon DEF DisconnectFromServer, Does
  <2> HIDE DEF d
  <2> QED  BY <2>1, <2>2, CallsTyped, PlainInv, Zenon
<1> QED  BY <1>1, <1>2

\* A conversation is opened, and its history asked for.
LEMMA OpenInv ==
    ASSUME IInv, NEW e, SameView(c, e), NEW k \in Keys, NEW d, SameView(Open(e, k), d),
           NEW out \in Seq(CallSet), Becomes(d, TRUE, out), UNCHANGED <<signals, link, log>>
    PROVE  IInv'
<1>1. Keeps(c, e, {})
  BY SameViewLemma DEF IInv
<1>2. Keeps(e, Open(e, k), {})
  BY <1>1, OpenLemma DEF Keeps
<1>3. Keeps(Open(e, k), d, {})
  BY <1>2, SameViewLemma DEF Keeps
<1>4. Keeps(c, d, {})
  BY <1>1, <1>2, <1>3, KeepsTwice
<1>5. Sends(d, out)
  BY <1>4, SendsNothing
<1>6. signals' = signals /\ UNCHANGED <<link, log>>
  OBVIOUS
<1> QED  BY <1>4, <1>5, <1>6, BecomesInv, Zenon

\* selectRoom, selectDirectMessage and openPrivateChat.
LEMMA SelectInv ==
    ASSUME IInv,
           \/ \E r \in Rooms : SelectRoom(r)
           \/ \E p \in Peers : SelectDirectMessage(p) \/ OpenPrivateChat(p)
    PROVE  IInv'
<1>0. Names \subseteq DOMAIN c /\ c.searching \in BOOLEAN
  BY DEF IInv, Whole, Cached
<1>1. SameView(c, c)
  BY <1>0 DEF SameView
<1>2. ASSUME NEW r \in Rooms, SelectRoom(r) PROVE IInv'
  <2> DEFINE e == Open(c, r)
             f == Requested(e)
             d == [f EXCEPT !.joined = IF c.connected THEN r ELSE f.joined, !.reconnecting = FALSE]
             join == IF c.connected /\ c.joined # r THEN <<Call("join", None, r, FALSE)>> ELSE <<>>
             out == join \o RequestCalls(e, FALSE)
  <2>1. r \in Keys
    BY DEF Keys
  <2>2. Whole(e)
    BY <2>1, OpenLemma DEF IInv, Keeps
  <2>3. Becomes(d, TRUE, out) /\ UNCHANGED <<signals, link, log>>
    BY <1>2, Zenon DEF SelectRoom, Does
  <2> HIDE DEF e
  <2>4. SameView(e, f) /\ RequestCalls(e, FALSE) \in Seq(CallSet)
    BY <2>2, RequestedLemma, Zenon
  <2>5. join \in Seq(CallSet)
    BY CallsTyped, Zenon
  <2> HIDE DEF join
  <2>6. out \in Seq(CallSet)
    BY <2>4, <2>5, HasConcat, Zenon
  <2> HIDE DEF f, out
  <2>7. SameView(e, d)
    BY <2>4 DEF SameView, Names
  <2> HIDE DEF d
  <2> QED  BY <1>1, <2>1, <2>3, <2>6, <2>7, OpenInv, Zenon DEF e
<1>3. ASSUME NEW p \in Peers, SelectDirectMessage(p) PROVE IInv'
  <2> DEFINE e == Open(c, p)
  <2>1. p \in Keys
    BY DEF Keys
  <2>2. Whole(e)
    BY <2>1, OpenLemma DEF IInv, Keeps
  <2>3. Becomes(Requested(e), TRUE, RequestCalls(e, FALSE)) /\ UNCHANGED <<signals, link, log>>
    BY <1>3, Zenon DEF SelectDirectMessage, Does
  <2> HIDE DEF e
  <2>4. SameView(e, Requested(e)) /\ RequestCalls(e, FALSE) \in Seq(CallSet)
    BY <2>2, RequestedLemma, Zenon
  <2> QED  BY <1>1, <2>1, <2>3, <2>4, OpenInv, Zenon DEF e
<1>4. ASSUME NEW p \in Peers, OpenPrivateChat(p) PROVE IInv'
  <2> DEFINE g == [c EXCEPT !.listed = c.listed \cup {p}]
             e == Open(g, p)
  <2>1. p \in Keys
    BY DEF Keys
  <2>2. SameView(c, g)
    BY <1>0 DEF SameView, Names
  <2>3. Becomes(Requested(e), TRUE, RequestCalls(e, FALSE)) /\ UNCHANGED <<signals, link, log>>
    BY <1>4, Zenon DEF OpenPrivateChat, Does
  <2> HIDE DEF g
  <2>4. Whole(e)
    BY <2>1, <2>2, SameViewLemma, OpenLemma DEF IInv, Keeps
  <2> HIDE DEF e
  <2>5. SameView(e, Requested(e)) /\ RequestCalls(e, FALSE) \in Seq(CallSet)
    BY <2>4, RequestedLemma, Zenon
  <2> QED  BY <2>1, <2>2, <2>3, <2>5, OpenInv, Zenon DEF e
<1> QED  BY <1>2, <1>3, <1>4

\* searchActiveHistory.
LEMMA SearchInv ==
    ASSUME IInv, SearchActiveHistory
    PROVE  IInv'
<1> DEFINE e == [c EXCEPT !.searching = TRUE]
<1>0. Names \subseteq DOMAIN c
  BY DEF IInv, Whole, Cached
<1>1. SameView(c, e)
  BY <1>0 DEF SameView, Names
<1>2. Becomes(Requested(e), FALSE, RequestCalls(e, TRUE)) /\ UNCHANGED <<link, log>> /\ signals' = signals
  BY Zenon DEF SearchActiveHistory, Does
<1> HIDE DEF e
<1>3. Whole(e)
  BY <1>1, SameViewLemma DEF IInv, Keeps
<1>4. SameView(e, Requested(e)) /\ RequestCalls(e, TRUE) \in Seq(CallSet)
  BY <1>3, RequestedLemma, Zenon
<1>5. SameView(c, Requested(e))
  BY <1>1, <1>4 DEF SameView
<1> QED  BY <1>2, <1>4, <1>5, PlainInv, Zenon

\* A row more, of a message that is sent.
LEMMA SendsOne ==
    ASSUME NEW d, NEW m \in Messages, NEW k \in Keys, Keeps(c, d, {m})
    PROVE  Sends(d, <<Call("send", m, k, FALSE)>>)
<1>1. Has(<<Call("send", m, k, FALSE)>>, "send", m)
  BY CallsTyped, Zenon
<1> QED  BY <1>1, Zenon DEF Keeps, OnlyWaits, Sends

\* sendRoomMessage, sendPrivateMessage and retryMessage.
LEMMA SendInv ==
    ASSUME IInv, NEW m \in Messages, SendMessage(m) \/ \E k \in Keys : RetryMessage(m, k)
    PROVE  IInv'
<1> DEFINE row == [id |-> m, state |-> "queued"]
<1>1. row \in Row /\ (row.state = "queued" => row.id \in {m})
  BY DEF Row
<1>2. CASE SendMessage(m)
  <2> DEFINE k == Home[m]
             d == AppendTo(c, k, row)
  <2>1. k \in Keys
    BY ConversationsAssumption
  <2>2. Becomes(d, FALSE, <<Call("send", m, k, FALSE)>>) /\ UNCHANGED <<link, log>> /\ signals' = signals
    BY <1>2, Zenon DEF SendMessage, Does
  <2> HIDE DEF row, k
  <2>3. Keeps(c, d, {m}) /\ Rest(c, d)
    BY <1>1, <2>1, AppendToLemma DEF IInv
  <2> HIDE DEF d
  <2>4. d.active = c.active
    BY <2>3 DEF Rest
  <2>5. Sends(d, <<Call("send", m, k, FALSE)>>) /\ <<Call("send", m, k, FALSE)>> \in Seq(CallSet)
    BY <2>1, <2>3, SendsOne, CallsTyped, Zenon
  <2> QED  BY <2>2, <2>4, <2>5, BecomesInv, Zenon
<1>3. ASSUME NEW k \in Keys, RetryMessage(m, k)
      PROVE  IInv'
  <2> DEFINE d == WithRows(c, k, AppendRow(c.models[k], row))
  <2>1. k \in DOMAIN c.models
    BY <1>3 DEF RetryMessage
  <2>2. Becomes(d, FALSE, <<Call("send", m, k, FALSE)>>) /\ UNCHANGED <<link, log>> /\ signals' = signals
    BY <1>3, Zenon DEF RetryMessage, WithRows
  <2> HIDE DEF row
  <2>3. Keeps(c, d, {m}) /\ Rest(c, d)
    BY <1>1, <2>1, MoreRowsLemma DEF IInv
  <2> HIDE DEF d
  <2>4. d.active = c.active
    BY <2>3 DEF Rest
  <2>5. Sends(d, <<Call("send", m, k, FALSE)>>) /\ <<Call("send", m, k, FALSE)>> \in Seq(CallSet)
    BY <2>3, SendsOne, CallsTyped, Zenon
  <2> QED  BY <2>2, <2>4, <2>5, BecomesInv, Zenon
<1> QED  BY <1>2, <1>3

\* removeLocalMessage.
LEMMA RemoveInv ==
    ASSUME IInv, NEW m \in Messages, RemoveLocalMessage(m)
    PROVE  IInv'
<1> DEFINE d == RemoveRows(c, m)
<1>1. Becomes(d, FALSE, <<>>) /\ UNCHANGED <<link, log>> /\ signals' = signals
  BY Zenon DEF RemoveLocalMessage, Does
<1>2. Keeps(c, d, {}) /\ d.active = c.active
  BY RemoveRowsLemma DEF IInv, Keeps
<1> HIDE DEF d
<1>3. Sends(d, <<>>) /\ <<>> \in Seq(CallSet)
  BY <1>2, SendsNothing, CallsTyped
<1> QED  BY <1>1, <1>2, <1>3, BecomesInv, Zenon

\* recallMessage.
LEMMA RecallInv ==
    ASSUME IInv, NEW m \in Messages, RecallMessage(m)
    PROVE  IInv'
<1> DEFINE e == Call("recall", m, None, FALSE)
<1>1. Serialized(b', c)
  <2>1. b' = [b EXCEPT !.pending = b.pending \cup {m}, !.timer = TRUE]
    BY DEF RecallMessage
  <2> QED  BY <2>1, PendingLemma, Zenon DEF IInv
<1>2. calls' = Append(calls, e) /\ c' = c /\ signals' = signals /\ UNCHANGED <<link, log>>
  BY DEF RecallMessage
<1>3. calls \in Seq(CallSet) /\ e \in CallSet
  BY CallsTyped, Zenon DEF IInv, Traffic
<1> HIDE DEF e
<1>4. calls' \in Seq(CallSet) /\ \A id : Has(calls, "send", id) => Has(calls', "send", id)
  BY <1>2, <1>3, HasAppend, Zenon
<1>5. Sends(c, calls)
  BY DEF IInv, Sends
<1> QED  BY <1>1, <1>2, <1>4, <1>5, ControllerStep

\* The user's commands.
LEMMA UserInv ==
    ASSUME IInv, User
    PROVE  IInv'
BY ConnectInv, SelectInv, SearchInv, SendInv, RemoveInv, RecallInv DEF User

(***************************************************************************)
(* Signals and news                                                        *)
(***************************************************************************)

\* The signal that is handled.
LEMMA HeadLemma ==
    ASSUME IInv, NEW type, Handles(type)
    PROVE  /\ Head(signals) \in SignalSet /\ Head(signals).type = type
           /\ signals # <<>> /\ signals' = Tail(signals) /\ UNCHANGED <<link, log>>
<1>1. signals \in Seq(SignalSet) /\ signals # <<>>
  BY DEF IInv, Traffic, Handles
<1>2. Head(signals) \in SignalSet
  BY <1>1, HasTail
<1> QED  BY <1>1, <1>2 DEF Handles

\* A connection, new or again.
LEMMA HandleConnectedInv ==
    ASSUME IInv, HandleConnected
    PROVE  IInv'
<1> DEFINE e == IF c.reconnecting THEN c ELSE ResetSessionData(c)
           d == [e EXCEPT !.reconnecting = FALSE, !.connected = TRUE]
           out == RequestCalls(d, FALSE)
<1>1. Becomes(Requested(d), ~c.reconnecting, out) /\ Handles("connected")
  BY Zenon DEF HandleConnected
<1>2. signals # <<>> /\ signals' = Tail(signals) /\ Head(signals).type # "state" /\ UNCHANGED <<link, log>>
  BY <1>1, HeadLemma
<1>3. Whole(c)
  BY DEF IInv
<1>4. Keeps(c, c, {})
  BY <1>3, Zenon DEF Keeps, OnlyWaits
<1>5. Keeps(c, e, {})
  BY <1>3, <1>4, ResetLemma
<1>6. c.reconnecting => e.active = c.active
  OBVIOUS
<1> HIDE DEF e
<1>7. SameView(e, d)
  BY <1>5 DEF Keeps, Whole, Cached, SameView, Names
<1> HIDE DEF d
<1>8. Keeps(c, d, {})
  BY <1>5, <1>7, SameViewLemma, KeepsTwice DEF Keeps
<1>9. SameView(d, Requested(d)) /\ Keeps(d, Requested(d), {}) /\ out \in Seq(CallSet)
  BY <1>8, RequestedLemma, Zenon DEF Keeps
<1>10. Keeps(c, Requested(d), {})
  BY <1>8, <1>9, KeepsTwice
<1> HIDE DEF out
<1>11. Sends(Requested(d), out)
  BY <1>10, SendsNothing
<1>12. \/ Becomes(Requested(d), TRUE, out)
       \/ Becomes(Requested(d), FALSE, out) /\ Requested(d).active = c.active
  <2>1. CASE c.reconnecting
    <3>1. Requested(d).active = c.active
      BY <1>6, <1>7, <1>9, <2>1 DEF SameView
    <3>2. (~c.reconnecting) = FALSE
      BY <2>1
    <3> QED  BY <1>1, <3>1, <3>2, Zenon
  <2>2. CASE ~c.reconnecting
    <3>1. (~c.reconnecting) = TRUE
      BY <2>2
    <3> QED  BY <1>1, <3>1, Zenon
  <2> QED  BY <2>1, <2>2, Zenon
<1>13. \/ signals' = signals
       \/ /\ signals # <<>> /\ signals' = Tail(signals)
          /\ Head(signals).type = "state" => ~Waits(Requested(d).models, Head(signals).id)
  BY <1>2
<1> QED  BY <1>2, <1>9, <1>11, <1>12, <1>13, BecomesInv, Zenon

\* A handler that opens no conversation, for a signal other than a state.
LEMMA HandlerInv ==
    ASSUME IInv, NEW type, type # "state", Handles(type), NEW d, Keeps(c, d, {}), d.active = c.active,
           NEW out \in Seq(CallSet), Becomes(d, FALSE, out)
    PROVE  IInv'
<1>1. signals # <<>> /\ signals' = Tail(signals) /\ Head(signals).type # "state" /\ UNCHANGED <<link, log>>
  BY HeadLemma
<1>2. Sends(d, out)
  BY SendsNothing
<1>3. \/ signals' = signals
      \/ /\ signals # <<>> /\ signals' = Tail(signals)
         /\ Head(signals).type = "state" => ~Waits(d.models, Head(signals).id)
  BY <1>1
<1> QED  BY <1>1, <1>2, <1>3, BecomesInv, Zenon

\* No connection, or no longer.
LEMMA HandleLostInv ==
    ASSUME IInv, HandleConnectionFailed \/ HandleConnectionLost
    PROVE  IInv'
<1>0. Whole(c) /\ Names \subseteq DOMAIN c /\ c.searching \in BOOLEAN
  BY DEF IInv, Whole, Cached
<1>1. CASE HandleConnectionFailed
  <2> DEFINE e == [c EXCEPT !.connected = FALSE]
             d == AppendSystemMessage(e)
  <2>1. Handles("connectionFailed") /\ Becomes(d, FALSE, <<>>)
    BY <1>1, Zenon DEF HandleConnectionFailed
  <2>2. SameView(c, e)
    BY <1>0 DEF SameView, Names
  <2> HIDE DEF e
  <2>3. Keeps(c, e, {}) /\ Whole(e)
    BY <1>0, <2>2, SameViewLemma DEF Keeps
  <2>4. Keeps(e, d, {}) /\ Rest(e, d)
    BY <2>3, AppendSystemLemma
  <2> HIDE DEF d
  <2>5. Keeps(c, d, {}) /\ d.active = c.active
    BY <2>2, <2>3, <2>4, KeepsTwice DEF SameView, Rest
  <2>6. <<>> \in Seq(CallSet) /\ "connectionFailed" # "state"
    OBVIOUS
  <2> QED  BY <2>1, <2>5, <2>6, HandlerInv, Zenon
<1>2. CASE HandleConnectionLost
  <2> DEFINE d == [c EXCEPT !.connected = FALSE, !.reconnecting = TRUE]
             out == <<Call("scheduleReconnect", None, None, FALSE)>>
  <2>1. Handles("connectionLost") /\ Becomes(d, FALSE, out)
    BY <1>2, Zenon DEF HandleConnectionLost
  <2>2. SameView(c, d)
    BY <1>0 DEF SameView, Names
  <2>3. out \in Seq(CallSet)
    BY CallsTyped, Zenon
  <2> HIDE DEF d, out
  <2>4. Keeps(c, d, {}) /\ d.active = c.active
    BY <1>0, <2>2, SameViewLemma DEF SameView
  <2>5. "connectionLost" # "state"
    OBVIOUS
  <2> QED  BY <2>1, <2>3, <2>4, <2>5, HandlerInv, Zenon
<1> QED  BY <1>1, <1>2

\* A message for any conversation.
LEMMA HandleChatInv ==
    ASSUME IInv, HandleChat
    PROVE  IInv'
<1> DEFINE e == Head(signals)
           row == [id |-> e.id, state |-> e.state]
           f == AppendTo(c, e.key, row)
           d == IF e.id \in Mine \/ IsActive(e.key) THEN f ELSE IncrementUnread(f, e.key)
<1>1. Handles("chat") /\ Becomes(d, FALSE, <<>>)
  BY Zenon DEF HandleChat
<1>2. e \in SignalSet /\ e.type = "chat"
  BY <1>1, HeadLemma
<1> HIDE DEF e
<1>3. e.key \in Keys /\ row \in Row /\ row.state # "queued"
  BY <1>2 DEF SignalSet, Row, Ids
<1> HIDE DEF row
<1>4. Keeps(c, f, {}) /\ Rest(c, f)
  BY <1>3, AppendToLemma DEF IInv
<1> HIDE DEF f
<1>5. Whole(f) /\ f.active = c.active
  BY <1>4 DEF Keeps, Rest
<1>6. Keeps(c, d, {}) /\ d.active = c.active
  <2>1. CASE e.id \in Mine \/ IsActive(e.key)
    BY <1>4, <1>5, <2>1
  <2>2. CASE ~(e.id \in Mine \/ IsActive(e.key))
    <3>1. e.key # f.active
      BY <1>5, <2>2 DEF IsActive
    <3>2. Keeps(f, IncrementUnread(f, e.key), {}) /\ IncrementUnread(f, e.key).active = f.active
      BY <1>3, <1>5, <3>1, IncrementUnreadLemma
    <3>3. Keeps(c, IncrementUnread(f, e.key), {})
      BY <1>4, <3>2, KeepsTwice
    <3> QED  BY <1>5, <2>2, <3>2, <3>3
  <2> QED  BY <2>1, <2>2
<1> HIDE DEF d
<1>7. <<>> \in Seq(CallSet) /\ "chat" # "state"
  OBVIOUS
<1> QED  BY <1>1, <1>6, <1>7, HandlerInv, Zenon

\* The fate of a message: no row of it waits any longer.
LEMMA HandleStateInv ==
    ASSUME IInv, HandleState
    PROVE  IInv'
<1> DEFINE e == Head(signals)
           d == UpdateRows(c, e.id, e.state)
<1>1. Handles("state") /\ Becomes(d, FALSE, <<>>)
  BY Zenon DEF HandleState
<1>2. e \in SignalSet /\ signals # <<>> /\ signals' = Tail(signals) /\ UNCHANGED <<link, log>>
  BY <1>1, HeadLemma
<1> HIDE DEF e
<1>3. e.id \in Ids /\ e.state \in {"none", "sent", "failed"}
  BY <1>2 DEF SignalSet
<1>4. Keeps(c, d, {}) /\ d.active = c.active /\ ~Waits(d.models, e.id)
  BY <1>3, UpdateRowsLemma, Zenon DEF IInv, Keeps
<1> HIDE DEF d
<1>5. Sends(d, <<>>) /\ <<>> \in Seq(CallSet)
  BY <1>4, SendsNothing, CallsTyped
<1>6. Head(signals).type = "state" => ~Waits(d.models, Head(signals).id)
  BY <1>4 DEF e
<1> QED  BY <1>1, <1>2, <1>4, <1>5, <1>6, BecomesInv, Zenon

\* The answers to a recall also complete the command.
LEMMA HandleRecallInv ==
    ASSUME IInv, HandleRecalled \/ HandleRecallRefused
    PROVE  IInv'
<1> DEFINE e == Head(signals)
<1>0. Whole(c) /\ Serialized(b, c) /\ calls \in Seq(CallSet)
  BY DEF IInv, Traffic
<1>1. ASSUME NEW d, NEW type, type # "state", Handles(type), Keeps(c, d, {}), d.active = c.active, c' = d,
             b' = Completed(After(d, FALSE)), calls' = calls
      PROVE  IInv'
  <2>1. Serialized(After(d, FALSE), d)
    BY <1>0, <1>1, ClosedLemma, Zenon DEF Keeps
  <2>2. Serialized(b', d)
    <3> DEFINE f == After(d, FALSE)
    <3> HIDE DEF f
    <3>1. Serialized([f EXCEPT !.pending = f.pending \ {Head(signals).id}], d)
      BY <2>1, PendingLemma, Zenon DEF f
    <3>2. b' = [f EXCEPT !.pending = f.pending \ {Head(signals).id}]
      BY <1>1 DEF Completed, f
    <3> QED  BY <3>1, <3>2
  <2>3. signals # <<>> /\ signals' = Tail(signals) /\ Head(signals).type # "state" /\ UNCHANGED <<link, log>>
    BY <1>1, HeadLemma
  <2>4. Sends(d, calls)
    BY <1>1, SendsNothing
  <2>5. calls' \in Seq(CallSet) /\ \A id : Has(calls, "send", id) => Has(calls', "send", id)
    BY <1>0, <1>1
  <2>6. \/ signals' = signals
        \/ /\ signals # <<>> /\ signals' = Tail(signals)
           /\ Head(signals).type = "state" => ~Waits(d.models, Head(signals).id)
    BY <2>3
  <2> QED  BY <1>1, <2>2, <2>3, <2>4, <2>5, <2>6, ControllerStep, Zenon
<1>2. CASE HandleRecalled
  <2> DEFINE d == RemoveRows(c, e.id)
  <2>1. Handles("recalled") /\ c' = d /\ b' = Completed(After(d, FALSE)) /\ calls' = calls
    BY <1>2 DEF HandleRecalled
  <2>2. Keeps(c, d, {}) /\ d.active = c.active
    BY <1>0, RemoveRowsLemma DEF Keeps
  <2> HIDE DEF d
  <2>3. "recalled" # "state"
    OBVIOUS
  <2> QED  BY <1>1, <2>1, <2>2, <2>3, Zenon
<1>3. CASE HandleRecallRefused
  <2> DEFINE d == UpdateRows(c, e.id, "failed")
  <2>1. Handles("recallRefused") /\ c' = d /\ b' = Completed(After(d, FALSE)) /\ calls' = calls
    BY <1>3 DEF HandleRecallRefused
  <2>2. e.id \in Ids
    BY <2>1, HeadLemma DEF SignalSet
  <2>3. Keeps(c, d, {}) /\ d.active = c.active
    BY <1>0, <2>2, UpdateRowsLemma DEF Keeps
  <2> HIDE DEF d
  <2>4. "recallRefused" # "state"
    OBVIOUS
  <2> QED  BY <1>1, <2>1, <2>3, <2>4, Zenon
<1> QED  BY <1>2, <1>3

\* A page of history.
LEMMA HandleHistoryInv ==
    ASSUME IInv, HandleHistory
    PROVE  IInv'
<1> DEFINE e == Head(signals)
           f == [c EXCEPT !.loading = FALSE]
<1>0. Whole(c) /\ Names \subseteq DOMAIN c /\ c.searching \in BOOLEAN
  BY DEF IInv, Whole, Cached
<1>1. Handles("history") /\ "history" # "state"
  BY DEF HandleHistory
<1>2. e \in SignalSet
  BY <1>1, HeadLemma
<1>3. SameView(c, f) /\ f.models = c.models
  BY <1>0 DEF SameView, Names
<1>4. \/ Becomes(f, FALSE, <<>>)
      \/ Becomes(Requested(f), FALSE, RequestCalls(f, c.searching))
      \/ Becomes(WithRows(f, c.shown, PrependRows(c.models[c.shown], NewRows(e.page))), FALSE, <<>>)
  BY Zenon DEF HandleHistory, WithRows
<1> HIDE DEF e, f
<1>5. Keeps(c, f, {}) /\ Whole(f) /\ f.active = c.active
  BY <1>0, <1>3, SameViewLemma DEF Keeps, SameView
<1>6. <<>> \in Seq(CallSet)
  OBVIOUS
<1>7. CASE Becomes(f, FALSE, <<>>)
  BY <1>1, <1>5, <1>6, <1>7, HandlerInv, Zenon
<1>8. CASE Becomes(Requested(f), FALSE, RequestCalls(f, c.searching))
  <2>1. /\ SameView(f, Requested(f)) /\ Keeps(f, Requested(f), {}) /\ RequestCalls(f, c.searching) \in Seq(CallSet)
    BY <1>0, <1>5, RequestedLemma
  <2>2. Keeps(c, Requested(f), {}) /\ Requested(f).active = c.active
    BY <1>5, <2>1, KeepsTwice DEF SameView
  <2> QED  BY <1>1, <1>8, <2>1, <2>2, HandlerInv, Zenon
<1>9. CASE Becomes(WithRows(f, c.shown, PrependRows(c.models[c.shown], NewRows(e.page))), FALSE, <<>>)
  <2> DEFINE rows == c.models[c.shown]
             page == NewRows(e.page)
             r == PrependRows(rows, page)
             d == WithRows(f, c.shown, r)
  <2>1. c.shown \in DOMAIN f.models /\ f.models[c.shown] = rows
    BY <1>0, <1>3 DEF Whole
  <2>2. rows \in Seq(Row) /\ Unique(rows)
    BY <1>0 DEF Whole, Cached, IsModels
  <2>3. e.page \in Seq(Messages) /\ \A i, j \in DOMAIN e.page : e.page[i] = e.page[j] => i = j
    BY <1>2 DEF SignalSet
  <2>4. /\ page \in Seq(Row) /\ Unique(page)
        /\ \A i \in DOMAIN page : page[i].state = "sent" /\ ~HasRow(rows, page[i].id)
    BY <2>3, NewRowsLemma
  <2> HIDE DEF page, rows
  <2>5. \A i \in DOMAIN page : \A j \in DOMAIN rows : page[i].id # rows[j].id
    BY <2>4 DEF HasRow
  <2>6. /\ r \in Seq(Row) /\ Unique(r)
        /\ \A i \in DOMAIN r : (\E j \in DOMAIN page : r[i] = page[j]) \/ (\E j \in DOMAIN rows : r[i] = rows[j])
    BY <2>2, <2>4, <2>5, PrependRowsLemma
  <2> HIDE DEF r
  <2>7. \A i \in DOMAIN r : r[i].state = "queued" =>
            r[i].id \in {} \/ \E j \in DOMAIN f.models[c.shown] : r[i] = f.models[c.shown][j]
    <3> TAKE i \in DOMAIN r
    <3> HAVE r[i].state = "queued"
    <3>1. CASE \E j \in DOMAIN page : r[i] = page[j]
      BY <2>4, <3>1
    <3>2. CASE \E j \in DOMAIN rows : r[i] = rows[j]
      BY <2>1, <3>2
    <3> QED  BY <2>6, <3>1, <3>2
  <2>8. Keeps(f, d, {}) /\ Rest(f, d)
    BY <1>5, <2>1, <2>6, <2>7, WithRowsLemma
  <2>9. Becomes(d, FALSE, <<>>)
    BY <1>9, Zenon DEF page, rows, r
  <2> HIDE DEF d
  <2>10. Keeps(c, d, {}) /\ d.active = c.active
    BY <1>5, <2>8, KeepsTwice DEF Rest
  <2> QED  BY <1>1, <1>6, <2>9, <2>10, HandlerInv, Zenon
<1> QED  BY <1>4, <1>7, <1>8, <1>9, Zenon

\* News from the server.
LEMMA ComesInv ==
    ASSUME IInv, NEW d, Comes(d), Keeps(c, d, {}), d.active = c.active
    PROVE  IInv'
<1>1. /\ c' = d /\ b' = After(d, FALSE) /\ calls' = calls /\ signals' = signals /\ UNCHANGED <<link, log>>
  BY DEF Comes
<1>2. Serialized(b', d)
  BY <1>1, ClosedLemma, Zenon DEF IInv, Keeps
<1>3. Sends(d, calls)
  BY SendsNothing
<1>4. calls' \in Seq(CallSet) /\ \A id : Has(calls, "send", id) => Has(calls', "send", id)
  BY <1>1 DEF IInv, Traffic
<1> QED  BY <1>1, <1>2, <1>3, <1>4, ControllerStep, Zenon

\* Lists and system messages.
LEMMA NewsInv ==
    ASSUME IInv, HandleUsersResponse \/ HandleRoomsResponse \/ HandleSystem
    PROVE  IInv'
<1>0. Whole(c) /\ Names \subseteq DOMAIN c /\ c.searching \in BOOLEAN
  BY DEF IInv, Whole, Cached
<1>1. CASE HandleUsersResponse
  <2>1. PICK online \in SUBSET Peers :
          Comes([c EXCEPT !.listed = (c.listed \cap Rooms) \cup online,
                          !.unread = c.unread \cap ((c.listed \cap Rooms) \cup online)])
    BY <1>1, Zenon DEF HandleUsersResponse
  <2> DEFINE listed == (c.listed \cap Rooms) \cup online
             d == [c EXCEPT !.listed = listed, !.unread = c.unread \cap listed]
  <2>2. /\ Names \subseteq DOMAIN d /\ d.models = c.models /\ d.used = c.used /\ d.active = c.active
        /\ d.shown = c.shown /\ d.searching = c.searching /\ d.unread \subseteq c.unread
    BY <1>0 DEF Names
  <2>3. Comes(d)
    BY <2>1
  <2> HIDE DEF d
  <2>4. Keeps(c, d, {})
    BY <1>0, <2>2 DEF Keeps, Whole, Cached, OnlyWaits
  <2> QED  BY <2>2, <2>3, <2>4, ComesInv
<1>2. CASE HandleRoomsResponse
  <2> DEFINE d == [c EXCEPT !.listed = c.listed \cup Rooms]
  <2>1. SameView(c, d)
    BY <1>0 DEF SameView, Names
  <2>2. Comes(d)
    BY <1>2 DEF HandleRoomsResponse
  <2> HIDE DEF d
  <2>3. Keeps(c, d, {}) /\ d.active = c.active
    BY <1>0, <2>1, SameViewLemma DEF SameView
  <2> QED  BY <2>2, <2>3, ComesInv
<1>3. CASE HandleSystem
  <2> DEFINE row == [id |-> None, state |-> "none"]
             d == AppendTo(c, link.room, row)
  <2>1. row \in Row /\ row.state # "queued"
    BY DEF Row
  <2>2. link.room \in Keys
    BY DEF IInv, Traffic, Keys
  <2>3. Comes(d)
    BY <1>3 DEF HandleSystem
  <2> HIDE DEF row
  <2>4. Keeps(c, d, {}) /\ Rest(c, d)
    BY <1>0, <2>1, <2>2, AppendToLemma
  <2> HIDE DEF d
  <2>5. d.active = c.active
    BY <2>4 DEF Rest
  <2> QED  BY <2>3, <2>4, <2>5, ComesInv
<1> QED  BY <1>1, <1>2, <1>3

\* The controller's handlers.
LEMMA ControllerInv ==
    ASSUME IInv, Controller
    PROVE  IInv'
BY HandleConnectedInv, HandleLostInv, HandleChatInv, HandleStateInv, HandleRecallInv, HandleHistoryInv, NewsInv
   DEF Controller

\* The snapshot is published.
LEMMA PublishInv ==
    ASSUME IInv, PublishState
    PROVE  IInv'
<1>1. UNCHANGED <<c, calls, signals, link, log>>
  BY DEF PublishState
<1>2. b' = [b EXCEPT !.timer = FALSE, !.dirty = {}, !.fresh = b.fresh \cup b.dirty \cup {"page"}]
  BY DEF PublishState
<1>3. Serialized(b', c)
  BY <1>2 DEF IInv, Serialized
<1> QED  BY <1>1, <1>3 DEF IInv, Traffic, Owed, UnderWay

(***************************************************************************)
(* The worker, the connection and the server                               *)
(***************************************************************************)

\* A step that leaves the controller and the bridge alone.
LEMMA OutsideStep ==
    ASSUME IInv, UNCHANGED <<c, b>>, Traffic', \A id : UnderWay(id) => UnderWay(id)'
    PROVE  IInv'
<1>1. Owed'
  BY DEF IInv, Owed
<1> QED  BY <1>1 DEF IInv

\* The call that the worker takes.
LEMMA TakesLemma ==
    ASSUME IInv, NEW type, Takes(type)
    PROVE  /\ Head(calls) \in CallSet /\ Head(calls).type = type
           /\ calls' \in Seq(CallSet) /\ UNCHANGED <<c, b>>
           /\ \A id : Has(calls, "send", id) => Has(calls', "send", id) \/ (type = "send" /\ Head(calls).id = id)
<1>1. calls \in Seq(CallSet) /\ calls # <<>>
  BY DEF IInv, Traffic, Takes
<1>2. /\ Tail(calls) \in Seq(CallSet) /\ Head(calls) \in CallSet
      /\ \A id : Has(calls, "send", id) =>
            Has(Tail(calls), "send", id) \/ (Head(calls).type = "send" /\ Head(calls).id = id)
  BY <1>1, HasTail
<1> QED  BY <1>2 DEF Takes

\* What the worker and the server signal.
LEMMA SignalTyped ==
    ASSUME NEW type \in {"connected", "connectionFailed", "connectionLost", "state", "recalled", "recallRefused"},
           NEW id \in Ids, NEW state \in {"none", "sent", "failed"}
    PROVE  /\ Signal(type, id, None, state) \in SignalSet
           /\ Signal(type, id, None, state).type = type /\ Signal(type, id, None, state).id = id
<1>1. <<>> \in Seq(Messages) /\ DOMAIN <<>> = {}
  OBVIOUS
<1> QED  BY <1>1 DEF Signal, SignalSet

\* The echo of a message, and a message of another user.
LEMMA ChatTyped ==
    ASSUME NEW m \in Messages, NEW key \in Keys
    PROVE  Signal("chat", m, key, "sent") \in SignalSet
<1>1. <<>> \in Seq(Messages) /\ DOMAIN <<>> = {}
  OBVIOUS
<1> QED  BY <1>1 DEF Signal, SignalSet, Ids

LinkSet == [state : {"up", "down"}, room : Rooms, explicit : BOOLEAN, lost : SUBSET Messages]

\* The worker takes a call other than a message and signals something.
LEMMA SignalsOne ==
    ASSUME IInv, NEW type, type # "send", Takes(type), NEW e \in SignalSet, signals' = Append(signals, e),
           link' \in LinkSet, link'.lost = link.lost, UNCHANGED log
    PROVE  IInv'
<1>1. /\ calls' \in Seq(CallSet) /\ UNCHANGED <<c, b>>
      /\ \A id : Has(calls, "send", id) => Has(calls', "send", id)
  BY TakesLemma
<1>2. signals \in Seq(SignalSet)
  BY DEF IInv, Traffic
<1>3. signals' \in Seq(SignalSet) /\ \A id : Has(signals, "state", id) => Has(signals', "state", id)
  BY <1>2, HasAppend, Zenon
<1>4. Traffic'
  BY <1>1, <1>3 DEF IInv, Traffic, LinkSet
<1>5. \A id : UnderWay(id) => UnderWay(id)'
  BY <1>1, <1>3 DEF UnderWay
<1> QED  BY <1>1, <1>4, <1>5, OutsideStep

\* It takes such a call and signals nothing.
LEMMA SignalsNothing ==
    ASSUME IInv, NEW type, type # "send", Takes(type), link' \in LinkSet, link'.lost = link.lost,
           UNCHANGED <<signals, log>>
    PROVE  IInv'
<1>1. /\ calls' \in Seq(CallSet) /\ UNCHANGED <<c, b>>
      /\ \A id : Has(calls, "send", id) => Has(calls', "send", id)
  BY TakesLemma
<1>2. Traffic'
  BY <1>1 DEF IInv, Traffic, LinkSet
<1>3. \A id : UnderWay(id) => UnderWay(id)'
  BY <1>1 DEF UnderWay
<1> QED  BY <1>1, <1>2, <1>3, OutsideStep

\* Connecting and disconnecting.
LEMMA LinkInv ==
    ASSUME IInv, Connects \/ StaysDisconnected \/ ConnectFails \/ Disconnects
    PROVE  IInv'
<1>0. link \in LinkSet /\ Lobby \in Rooms /\ None \in Ids
  BY ConversationsAssumption DEF IInv, Traffic, LinkSet, Ids
<1>1. CASE Connects
  <2> DEFINE e == Signal("connected", None, None, "none")
  <2>1. e \in SignalSet
    BY <1>0, SignalTyped
  <2>2. link' \in LinkSet /\ link'.lost = link.lost
    BY <1>0, <1>1, Zenon DEF Connects, LinkSet
  <2>3. signals' = Append(signals, e) /\ UNCHANGED log
    BY <1>1 DEF Connects
  <2>4. Takes("connect") \/ Takes("scheduleReconnect")
    BY <1>1 DEF Connects
  <2>5. "connect" # "send" /\ "scheduleReconnect" # "send"
    OBVIOUS
  <2> HIDE DEF e
  <2> QED  BY <2>1, <2>2, <2>3, <2>4, <2>5, SignalsOne
<1>2. CASE StaysDisconnected
  <2>1. Takes("scheduleReconnect") /\ UNCHANGED <<signals, log>> /\ link' = link /\ "scheduleReconnect" # "send"
    BY <1>2 DEF StaysDisconnected
  <2> QED  BY <1>0, <2>1, SignalsNothing
<1>3. CASE ConnectFails
  <2> DEFINE e == Signal("connectionFailed", None, None, "none")
  <2>1. e \in SignalSet
    BY <1>0, SignalTyped
  <2>2. link' \in LinkSet /\ link'.lost = link.lost
    BY <1>0, <1>3, Zenon DEF ConnectFails, LinkSet
  <2>3. signals' = Append(signals, e) /\ UNCHANGED log /\ Takes("connect") /\ "connect" # "send"
    BY <1>3 DEF ConnectFails
  <2> HIDE DEF e
  <2> QED  BY <2>1, <2>2, <2>3, SignalsOne
<1>4. CASE Disconnects
  <2>1. link' \in LinkSet /\ link'.lost = link.lost
    BY <1>0, <1>4, Zenon DEF Disconnects, LinkSet
  <2>2. Takes("disconnect") /\ UNCHANGED <<signals, log>> /\ "disconnect" # "send"
    BY <1>4 DEF Disconnects
  <2> QED  BY <2>1, <2>2, SignalsNothing
<1> QED  BY <1>1, <1>2, <1>3, <1>4

\* A message leaves the calls, and its fate is signalled.
LEMMA Answered ==
    ASSUME IInv, Takes("send"), signals' \in Seq(SignalSet),
           \A id : Has(signals, "state", id) => Has(signals', "state", id),
           Has(signals', "state", Head(calls).id), log' \in Seq(Entry),
           \A i, j \in DOMAIN log' : log'[i].id = log'[j].id => i = j,
           UNCHANGED link
    PROVE  IInv'
<1>1. /\ calls' \in Seq(CallSet) /\ UNCHANGED <<c, b>>
      /\ \A id : Has(calls, "send", id) => Has(calls', "send", id) \/ Head(calls).id = id
  BY TakesLemma
<1>2. Traffic'
  BY <1>1 DEF IInv, Traffic
<1>3. \A id : UnderWay(id) => UnderWay(id)'
  BY <1>1 DEF UnderWay
<1> QED  BY <1>1, <1>2, <1>3, OutsideStep

\* The log with a message that it did not have.
LEMMA LogLemma ==
    ASSUME log \in Seq(Entry), \A i, j \in DOMAIN log : log[i].id = log[j].id => i = j,
           NEW e \in Entry, ~Posted(e.id)
    PROVE  /\ Append(log, e) \in Seq(Entry)
           /\ \A i, j \in DOMAIN Append(log, e) : Append(log, e)[i].id = Append(log, e)[j].id => i = j
<1> DEFINE p == Append(log, e)
<1>1. /\ p \in Seq(Entry) /\ DOMAIN log = 1 .. Len(log) /\ DOMAIN p = 1 .. Len(log) + 1 /\ Len(log) \in Nat
      /\ \A i \in 1 .. Len(log) : p[i] = log[i]
      /\ p[Len(log) + 1] = e
  OBVIOUS
<1>2. \A i \in DOMAIN log : log[i].id # e.id
  BY DEF Posted
<1> HIDE DEF p
<1>3. \A i \in DOMAIN p : (i \in DOMAIN log /\ p[i] = log[i]) \/ (i = Len(log) + 1 /\ p[i] = e)
  BY <1>1, SMTT(10), ZenonT(40)
<1>4. \A i, j \in DOMAIN p : p[i].id = p[j].id => i = j
  BY <1>2, <1>3
<1> QED  BY <1>1, <1>4 DEF p

\* Messages reach the server, or the worker reports that they do not.
LEMMA SendsInv ==
    ASSUME IInv, ServeSend \/ RefuseSend
    PROVE  IInv'
<1> DEFINE call == Head(calls)
           m == call.id
<1>0. /\ signals \in Seq(SignalSet) /\ log \in Seq(Entry) /\ link.room \in Rooms
      /\ \A i, j \in DOMAIN log : log[i].id = log[j].id => i = j
  BY DEF IInv, Traffic
<1>1. Takes("send")
  BY DEF ServeSend, RefuseSend
<1>2. m \in Messages /\ call.key \in Keys
  BY <1>1, TakesLemma, Zenon DEF CallSet
<1>3. m \in Ids
  BY <1>2 DEF Ids
<1>4. CASE RefuseSend
  <2> DEFINE e == Signal("state", m, None, "failed")
  <2>1. e \in SignalSet /\ e.type = "state" /\ e.id = m
    BY <1>3, SignalTyped
  <2>2. signals' = Append(signals, e) /\ UNCHANGED <<link, log>>
    BY <1>4 DEF RefuseSend
  <2> HIDE DEF e, m
  <2>3. /\ signals' \in Seq(SignalSet) /\ Has(signals', "state", m)
        /\ \A id : Has(signals, "state", id) => Has(signals', "state", id)
    BY <1>0, <2>1, <2>2, HasAppend, Zenon
  <2>4. log' \in Seq(Entry) /\ \A i, j \in DOMAIN log' : log'[i].id = log'[j].id => i = j
    BY <1>0, <2>2
  <2> QED  BY <1>1, <2>2, <2>3, <2>4, Answered DEF m
<1>5. CASE ServeSend
  <2> DEFINE key == IF call.key \in Rooms THEN link.room ELSE call.key
             echo == IF Posted(m) THEN <<>> ELSE <<Signal("chat", m, key, "sent")>>
             e == Signal("state", m, None, "sent")
             entry == [id |-> m, key |-> key]
  <2>1. key \in Keys
    BY <1>0, <1>2 DEF Keys
  <2>2. e \in SignalSet /\ e.type = "state" /\ e.id = m
    BY <1>3, SignalTyped, SMTT(10), ZenonT(40)
  <2>3. /\ signals' = (signals \o echo) \o <<e>> /\ UNCHANGED link
        /\ log' = IF Posted(m) THEN log ELSE Append(log, entry)
    BY <1>5 DEF ServeSend
  <2> HIDE DEF m, key
  <2>4. echo \in Seq(SignalSet)
    BY <1>2, <2>1, ChatTyped
  <2> HIDE DEF e, echo
  <2>5. <<e>> \in Seq(SignalSet) /\ Has(<<e>>, "state", m)
    BY <1>0, <2>2, HasAppend
  <2>6. /\ signals \o echo \in Seq(SignalSet)
        /\ \A id : Has(signals, "state", id) => Has(signals \o echo, "state", id)
    BY <1>0, <2>4, HasConcat
  <2> DEFINE p == signals \o echo
  <2> HIDE DEF p
  <2>7. /\ p \o <<e>> \in Seq(SignalSet) /\ Has(p \o <<e>>, "state", m)
        /\ \A id : Has(p, "state", id) => Has(p \o <<e>>, "state", id)
    BY <2>5, <2>6, HasConcat, Zenon DEF p
  <2>8. /\ signals' \in Seq(SignalSet) /\ Has(signals', "state", m)
        /\ \A id : Has(signals, "state", id) => Has(signals', "state", id)
    BY <2>3, <2>6, <2>7 DEF p
  <2>9. entry \in Entry /\ entry.id = m
    BY <1>2, <2>1 DEF Entry
  <2> HIDE DEF entry
  <2>10. log' \in Seq(Entry) /\ \A i, j \in DOMAIN log' : log'[i].id = log'[j].id => i = j
    <3>1. CASE Posted(m)
      BY <1>0, <2>3, <3>1
    <3>2. CASE ~Posted(m)
      <4>1. log' = Append(log, entry)
        BY <2>3, <3>2
      <4>2. /\ Append(log, entry) \in Seq(Entry)
            /\ \A i, j \in DOMAIN Append(log, entry) :
                  Append(log, entry)[i].id = Append(log, entry)[j].id => i = j
        BY <1>0, <2>9, <3>2, LogLemma
      <4> QED  BY <4>1, <4>2, Zenon
    <3> QED  BY <3>1, <3>2
  <2> QED  BY <1>1, <2>3, <2>8, <2>10, Answered DEF m
<1> QED  BY <1>4, <1>5

\* A call finds no connection.
LEMMA DropInv ==
    ASSUME IInv, DropCall
    PROVE  IInv'
<1> DEFINE call == Head(calls)
<1>0. /\ signals \in Seq(SignalSet) /\ log \in Seq(Entry) /\ link \in LinkSet
      /\ \A i, j \in DOMAIN log : log[i].id = log[j].id => i = j
  BY DEF IInv, Traffic, LinkSet
<1>1. PICK type \in Requests : Takes(type)
  BY DEF DropCall
<1>2. call \in CallSet /\ call.type = type
  BY <1>1, TakesLemma
<1>3. signals' = signals \o NotReady(call) /\ UNCHANGED <<link, log>>
  BY DEF DropCall
<1>4. CASE type = "send"
  <2> DEFINE e == Signal("state", call.id, None, "failed")
  <2>1. call.id \in Ids
    BY <1>2 DEF CallSet
  <2>2. e \in SignalSet /\ e.type = "state" /\ e.id = call.id
    BY <2>1, SignalTyped, SMTT(10), ZenonT(40)
  <2>3. NotReady(call) = <<e>>
    BY <1>2, <1>4 DEF NotReady
  <2> HIDE DEF e
  <2>4. <<e>> \in Seq(SignalSet) /\ Has(<<e>>, "state", call.id)
    BY <1>0, <2>2, HasAppend
  <2>5. /\ signals \o <<e>> \in Seq(SignalSet) /\ Has(signals \o <<e>>, "state", call.id)
        /\ \A id : Has(signals, "state", id) => Has(signals \o <<e>>, "state", id)
    BY <1>0, <2>4, HasConcat, Zenon
  <2>6. log' \in Seq(Entry) /\ \A i, j \in DOMAIN log' : log'[i].id = log'[j].id => i = j
    BY <1>0, <1>3
  <2> QED  BY <1>1, <1>3, <1>4, <2>3, <2>5, <2>6, Answered, Zenon
<1>5. CASE type # "send"
  <2>1. NotReady(call) = <<>>
    BY <1>2, <1>5 DEF NotReady
  <2>2. signals' = signals
    BY <1>0, <1>3, <2>1
  <2> QED  BY <1>0, <1>1, <1>3, <1>5, <2>2, SignalsNothing
<1> QED  BY <1>4, <1>5

\* A page has each message of the log at most once.
LEMMA PageLemma ==
    ASSUME log \in Seq(Entry), \A i, j \in DOMAIN log : log[i].id = log[j].id => i = j, NEW key, NEW search
    PROVE  /\ HistoryPage(key, search) \in Seq(Messages)
           /\ \A i, j \in DOMAIN HistoryPage(key, search) :
                 HistoryPage(key, search)[i] = HistoryPage(key, search)[j] => i = j
<1> DEFINE S == {e \in Entry : e.key = key /\ (search => e.id \in Matching)}
           r == Keep(log, S)
           p == [i \in DOMAIN r |-> r[i].id]
<1>1. HistoryPage(key, search) = p
  BY DEF HistoryPage
<1> HIDE DEF S
<1>2. r \in Seq(Entry) /\ Part(r, log)
  BY KeepFacts
<1> HIDE DEF r
<1>3. PICK e \in [1 .. Len(r) -> 1 .. Len(log)] :
        /\ \A j \in 1 .. Len(r) : r[j] = log[e[j]]
        /\ \A j, k \in 1 .. Len(r) : e[j] = e[k] => j = k
  BY <1>2 DEF Part
<1>4. Len(r) \in Nat /\ DOMAIN r = 1 .. Len(r) /\ DOMAIN log = 1 .. Len(log) /\ \A i \in DOMAIN r : r[i].id \in Messages
  <2>1. Len(r) \in Nat /\ DOMAIN r = 1 .. Len(r) /\ DOMAIN log = 1 .. Len(log) /\ \A i \in DOMAIN r : r[i] \in Entry
    BY <1>2
  <2> QED  BY <2>1 DEF Entry
<1>5. p \in Seq(Messages)
  <2>1. p \in [1 .. Len(r) -> Messages]
    BY <1>4
  <2> QED  BY <1>4, <2>1
<1>6. \A i, j \in DOMAIN p : p[i] = p[j] => i = j
  <2> SUFFICES ASSUME NEW i \in 1 .. Len(r), NEW j \in 1 .. Len(r), r[i].id = r[j].id
               PROVE  i = j
    BY <1>4
  <2>1. e[i] \in DOMAIN log /\ e[j] \in DOMAIN log /\ log[e[i]].id = log[e[j]].id
    BY <1>3, <1>4
  <2>2. e[i] = e[j]
    BY <2>1
  <2> QED  BY <1>3, <2>2
<1> HIDE DEF p
<1> QED  BY <1>1, <1>5, <1>6

\* The other requests.
LEMMA ServeInv ==
    ASSUME IInv, ServeJoin \/ ServeHistory \/ RefuseRequest \/ ServeRecall
    PROVE  IInv'
<1> DEFINE call == Head(calls)
<1>0. /\ link \in LinkSet /\ log \in Seq(Entry)
      /\ \A i, j \in DOMAIN log : log[i].id = log[j].id => i = j
  BY DEF IInv, Traffic, LinkSet
<1>1. CASE ServeJoin
  <2>1. Takes("join") /\ "join" # "send" /\ UNCHANGED <<signals, log>>
    BY <1>1 DEF ServeJoin
  <2>2. call.key \in Rooms
    BY <2>1, TakesLemma, Zenon DEF CallSet
  <2>3. link' = [link EXCEPT !.room = call.key]
    BY <1>1 DEF ServeJoin
  <2>4. link' \in LinkSet /\ link'.lost = link.lost
    BY <1>0, <2>2, <2>3 DEF LinkSet
  <2> QED  BY <2>1, <2>4, SignalsNothing
<1>2. CASE ServeHistory
  <2> DEFINE page == HistoryPage(call.key, call.search)
             e == [type |-> "history", id |-> None, key |-> call.key, state |-> "none", search |-> call.search,
                   page |-> page]
  <2>1. Takes("history") /\ "history" # "send" /\ UNCHANGED <<link, log>>
    BY <1>2 DEF ServeHistory
  <2>2. signals' = Append(signals, e)
    BY <1>2 DEF ServeHistory
  <2>3. call.key \in Keys \cup {None} /\ call.search \in BOOLEAN
    BY <2>1, TakesLemma, Zenon DEF CallSet
  <2>4. page \in Seq(Messages) /\ \A i, j \in DOMAIN page : page[i] = page[j] => i = j
    BY <1>0, PageLemma
  <2> HIDE DEF page
  <2>5. e \in SignalSet
    BY <2>3, <2>4 DEF SignalSet, Ids
  <2> HIDE DEF e
  <2> QED  BY <1>0, <2>1, <2>2, <2>5, SignalsOne
<1>3. CASE RefuseRequest
  <2>1. PICK type \in {"join", "history"} : Takes(type)
    BY <1>3 DEF RefuseRequest
  <2>2. type # "send" /\ UNCHANGED <<signals, link, log>>
    BY <1>3 DEF RefuseRequest
  <2> QED  BY <1>0, <2>1, <2>2, SignalsNothing
<1>4. CASE ServeRecall
  <2> DEFINE m == call.id
             may == Posted(m) /\ m \notin recalled
             type == IF may THEN "recalled" ELSE "recallRefused"
             e == Signal(type, m, None, "none")
  <2>1. Takes("recall") /\ "recall" # "send" /\ UNCHANGED <<link, log>>
    BY <1>4 DEF ServeRecall
  <2>2. signals' = Append(signals, e)
    BY <1>4 DEF ServeRecall
  <2>3. m \in Ids
    BY <2>1, TakesLemma, Zenon DEF CallSet
  <2>4. type \in {"connected", "connectionFailed", "connectionLost", "state", "recalled", "recallRefused"}
    OBVIOUS
  <2> HIDE DEF type, m
  <2>5. e \in SignalSet
    BY <2>3, <2>4, SignalTyped
  <2> HIDE DEF e
  <2> QED  BY <1>0, <2>1, <2>2, <2>5, SignalsOne
<1> QED  BY <1>1, <1>2, <1>3, <1>4

\* The worker and the server.
LEMMA WorkerInv ==
    ASSUME IInv, WorkerAndServer
    PROVE  IInv'
BY LinkInv, DropInv, SendsInv, ServeInv DEF WorkerAndServer

\* A message of another user.
LEMMA PeerPostsInv ==
    ASSUME IInv, NEW m \in Messages, PeerPosts(m)
    PROVE  IInv'
<1> DEFINE entry == [id |-> m, key |-> Home[m]]
           e == Signal("chat", m, Home[m], "sent")
<1>0. /\ signals \in Seq(SignalSet) /\ log \in Seq(Entry) /\ Home[m] \in Keys
      /\ \A i, j \in DOMAIN log : log[i].id = log[j].id => i = j
  BY ConversationsAssumption DEF IInv, Traffic
<1>1. /\ ~Posted(m) /\ log' = Append(log, entry) /\ UNCHANGED <<c, b, calls, link>>
      /\ signals' = Append(signals, e) \/ signals' = signals
  BY DEF PeerPosts
<1>2. e \in SignalSet
  BY <1>0, ChatTyped
<1>3. entry \in Entry /\ entry.id = m
  BY <1>0 DEF Entry
<1> HIDE DEF e, entry
<1>4. signals' \in Seq(SignalSet) /\ \A id : Has(signals, "state", id) => Has(signals', "state", id)
  BY <1>0, <1>1, <1>2, HasAppend, Zenon
<1>5. log' \in Seq(Entry) /\ \A i, j \in DOMAIN log' : log'[i].id = log'[j].id => i = j
  <2>1. /\ Append(log, entry) \in Seq(Entry)
        /\ \A i, j \in DOMAIN Append(log, entry) :
              Append(log, entry)[i].id = Append(log, entry)[j].id => i = j
    BY <1>0, <1>1, <1>3, LogLemma
  <2> QED  BY <1>1, <2>1, Zenon
<1>6. Traffic'
  BY <1>1, <1>4, <1>5 DEF IInv, Traffic
<1>7. \A id : UnderWay(id) => UnderWay(id)'
  BY <1>1, <1>4 DEF UnderWay
<1> QED  BY <1>1, <1>6, <1>7, OutsideStep

\* The connection breaks: messages that were written are lost with it.
LEMMA BreakInv ==
    ASSUME IInv, Break
    PROVE  IInv'
<1> DEFINE e == Signal("connectionLost", None, None, "none")
<1>0. /\ signals \in Seq(SignalSet) /\ calls \in Seq(CallSet) /\ link \in LinkSet /\ Len(calls) \in Nat
      /\ DOMAIN calls = 1 .. Len(calls)
  BY DEF IInv, Traffic, LinkSet
<1>1. e \in SignalSet
  BY SignalTyped DEF Ids
<1>2. signals' = Append(signals, e) /\ UNCHANGED <<c, b, log>>
  BY DEF Break
<1>3. PICK n \in 0 .. Len(calls) :
          /\ calls' = SubSeq(calls, n + 1, Len(calls))
          /\ link' = [link EXCEPT !.state = "down",
                                  !.lost = link.lost \cup ({calls[i].id : i \in 1 .. n} \ {None})]
  BY Zenon DEF Break
<1> DEFINE ids == {calls[i].id : i \in 1 .. n} \ {None}
<1>4. \A i \in DOMAIN calls : calls[i] \in CallSet
  BY <1>0
<1>5. ids \subseteq Messages
  BY <1>0, <1>4 DEF CallSet, Ids
<1>6. \A i \in 1 .. n : calls[i].type = "send" => calls[i].id \in ids
  BY <1>0, <1>4, ConversationsAssumption, SMTT(10), ZenonT(40) DEF CallSet
<1> HIDE DEF ids, e
<1>7. link' \in LinkSet /\ link'.lost = link.lost \cup ids
  BY <1>0, <1>3, <1>5, Zenon DEF LinkSet, ids
<1>8. n + 1 \in Nat \ {0} /\ n + 1 <= Len(calls) + 1 /\ Len(calls) <= Len(calls)
  BY <1>0
<1>9. /\ calls' \in Seq(CallSet) /\ Len(calls') = Len(calls) - (n + 1) + 1
      /\ \A j \in 1 .. Len(calls') : calls'[j] = calls[j + (n + 1) - 1]
  BY <1>0, <1>3, <1>8, SubSeqPart
<1>10. ASSUME NEW id, Has(calls, "send", id)
       PROVE  Has(calls', "send", id) \/ id \in ids
  <2>1. PICK j \in DOMAIN calls : calls[j].type = "send" /\ calls[j].id = id
    BY <1>10 DEF Has
  <2>2. CASE j <= n
    <3>1. j \in 1 .. n
      BY <1>0, <2>1, <2>2
    <3> QED  BY <1>6, <2>1, <3>1
  <2>3. CASE j > n
    <3>1. j - n \in 1 .. Len(calls') /\ (j - n) + (n + 1) - 1 = j
      BY <1>0, <1>9, <2>1, <2>3
    <3>2. j - n \in DOMAIN calls' /\ calls'[j - n] = calls[j]
      BY <1>9, <3>1
    <3> QED  BY <2>1, <3>2, Zenon DEF Has
  <2> QED  BY <1>0, <2>2, <2>3
<1>11. signals' \in Seq(SignalSet) /\ \A id : Has(signals, "state", id) => Has(signals', "state", id)
  BY <1>0, <1>1, <1>2, HasAppend, Zenon
<1>12. Traffic'
  BY <1>2, <1>7, <1>9, <1>11 DEF IInv, Traffic, LinkSet
<1>13. \A id : UnderWay(id) => UnderWay(id)'
  BY <1>7, <1>10, <1>11 DEF UnderWay
<1> QED  BY <1>2, <1>12, <1>13, OutsideStep

(***************************************************************************)
(* The theorems                                                            *)
(***************************************************************************)

\* The client starts in the invariant.
LEMMA InitInv == Init => IInv
<1> SUFFICES ASSUME Init PROVE IInv
  OBVIOUS
<1>0. Lobby \in Rooms /\ Lobby \in Keys /\ MaxModels \in Nat \ {0, 1} /\ Keys \cap {"lists", "page"} = {}
  BY ConversationsAssumption DEF Keys
<1> DEFINE m == [k \in {Lobby} |-> <<>>]
<1>1. /\ Names \subseteq DOMAIN c /\ c.models = m /\ c.used = <<Lobby>> /\ c.active = Lobby /\ c.shown = Lobby
      /\ c.unread = {} /\ c.searching = FALSE
  BY Zenon DEF Init, Names
<1>2. DOMAIN m = {Lobby} /\ m[Lobby] = <<>>
  OBVIOUS
<1> HIDE DEF m
<1>3. IsModels(m)
  <2>1. <<>> \in Seq(Row) /\ DOMAIN <<>> = {}
    OBVIOUS
  <2>2. Unique(<<>>)
    BY <2>1 DEF Unique
  <2> QED  BY <1>0, <1>2, <2>1, <2>2 DEF IsModels
<1>4. IsFiniteSet({Lobby}) /\ Cardinality({Lobby}) <= MaxModels
  BY <1>0, FS_Singleton
<1>5. <<Lobby>> \in Seq(Keys) /\ Range(<<Lobby>>) = {Lobby}
  BY <1>0 DEF Range
<1>6. Whole(c)
  BY <1>0, <1>1, <1>2, <1>3, <1>4, <1>5, Zenon DEF Whole, Cached
<1>7. Serialized(b, c)
  BY <1>0, <1>1, Zenon DEF Init, Serialized
<1>8. Traffic
  <2>1. link \in [state : {"up", "down"}, room : Rooms, explicit : BOOLEAN, lost : SUBSET Messages]
    BY <1>0, Zenon DEF Init
  <2>2. calls = <<>> /\ signals = <<>> /\ log = <<>>
    BY Zenon DEF Init
  <2>3. calls \in Seq(CallSet) /\ signals \in Seq(SignalSet) /\ log \in Seq(Entry) /\ DOMAIN log = {}
    BY <2>2
  <2> QED  BY <2>1, <2>3, Zenon DEF Traffic
<1>9. Owed
  BY <1>1, <1>2 DEF Owed, Waits
<1> QED  BY <1>6, <1>7, <1>8, <1>9 DEF IInv

\* Every step keeps the invariant.
LEMMA StepInv ==
    ASSUME IInv, [Next]_vars
    PROVE  IInv'
<1>1. CASE UNCHANGED vars
  BY <1>1 DEF vars, IInv, Traffic, Owed, UnderWay
<1> QED  BY <1>1, UserInv, ControllerInv, PublishInv, WorkerInv, PeerPostsInv, BreakInv DEF Next, Network

\* The invariant holds in every state of every instance.
THEOREM Invariance == Spec => []IInv
BY InitInv, StepInv, PTL DEF Spec

\* messageModel_ points to the cached model of the active conversation and the
\* cache stays within kMaxCachedConversationModels, whatever fills it
\* (gui_chat_controller.cpp: ensureConversationModel and
\* trimConversationModelCache).
THEOREM ActiveModelIsCached == Spec => []ActiveIsCached
<1>1. IInv => ActiveIsCached
  BY Zenon DEF IInv, Whole, Cached, ActiveIsCached
<1> QED  BY <1>1, Invariance, PTL

\* A message has one row in a conversation, wherever its rows come from
\* (chat_model.cpp: appendRows; gui_chat_controller.cpp: the pages of history).
THEOREM RowsAreUnique == Spec => []UniqueRows
<1>1. IInv => UniqueRows
  BY Zenon DEF IInv, Whole, Cached, IsModels, Unique, UniqueRows
<1> QED  BY <1>1, Invariance, PTL

\* No change is left unpublished: when no snapshot is about to be published, the
\* page shows the lists and the active conversation as they are
\* (chat_bridge.cpp: connectModel, markDirty and publishState).
THEOREM SnapshotIsFresh == Spec => []FreshSnapshot
<1>1. IInv => FreshSnapshot
  BY DEF IInv, Serialized, FreshSnapshot
<1> QED  BY <1>1, Invariance, PTL

\* The active conversation has no unread messages (gui_chat_controller.cpp:
\* incrementUnreadForConversation and the commands that open a conversation).
THEOREM ActiveHasNoUnread == Spec => []ActiveIsRead
<1>1. IInv => ActiveIsRead
  BY Zenon DEF IInv, Whole, ActiveIsRead
<1> QED  BY <1>1, Invariance, PTL

\* A row that says queued is of a message that is under way, or was lost with a
\* connection (gui_chat_controller.cpp: sendRoomMessage, retryMessage and the
\* handlers of receipts and errors).
THEOREM QueuedRowsAreUnderWay == Spec => []QueuedIsUnderWay
<1>1. IInv => QueuedIsUnderWay
  <2> SUFFICES ASSUME IInv, NEW k \in DOMAIN c.models, NEW i \in DOMAIN c.models[k],
                      c.models[k][i].state = "queued"
               PROVE  UnderWay(c.models[k][i].id)
    BY Zenon DEF QueuedIsUnderWay, UnderWay, Has
  <2>1. c.models[k] \in Seq(Row)
    BY DEF IInv, Whole, Cached, IsModels
  <2>2. c.models[k][i].id \in Ids
    <3>1. c.models[k][i] \in Row
      BY <2>1
    <3> QED  BY <3>1 DEF Row, Ids
  <2>3. Waits(c.models, c.models[k][i].id)
    BY DEF Waits
  <2> QED  BY <2>2, <2>3 DEF IInv, Owed
<1> QED  BY <1>1, Invariance, PTL

=============================================================================
