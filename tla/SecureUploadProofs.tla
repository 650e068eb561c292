------------------------- MODULE SecureUploadProofs -------------------------
(***************************************************************************)
(* The exchange of messages implements FileExchange.                       *)
(***************************************************************************)
EXTENDS SecureUpload, FiniteSetTheorems, TLAPS

\* q is a sequence of anything.
Queue(q) == \E S : q \in Seq(S)

\* Appending adds one message to a queue.
LEMMA AppendQueue ==
    ASSUME NEW q, NEW e, Queue(q)
    PROVE  Queue(Append(q, e)) /\ Range(Append(q, e)) = Range(q) \cup {e}
<1>1. PICK S : q \in Seq(S)
  BY DEF Queue
<1> DEFINE T == S \cup {e}
<1>2. q \in Seq(T) /\ Append(q, e) \in Seq(T)
  BY <1>1
<1>3. Range(Append(q, e)) \subseteq Range(q) \cup {e}
  BY <1>2 DEF Range
<1>4. Range(q) \subseteq Range(Append(q, e))
  BY <1>2 DEF Range
<1>5. e \in Range(Append(q, e))
  <2>1. Append(q, e)[Len(q) + 1] = e /\ Len(q) + 1 \in 1 .. Len(Append(q, e))
    BY <1>2
  <2> QED
    BY <1>2, <2>1 DEF Range
<1> QED
  BY <1>2, <1>3, <1>4, <1>5 DEF Queue

\* A queue followed by another holds the messages of both.
LEMMA ConcatQueue ==
    ASSUME NEW q, NEW r, Queue(q), Queue(r)
    PROVE  Queue(q \o r) /\ Range(q \o r) = Range(q) \cup Range(r)
<1>1. PICK S : q \in Seq(S)
  BY DEF Queue
<1>2. PICK T : r \in Seq(T)
  BY DEF Queue
<1> DEFINE U == S \cup T
<1>3. q \in Seq(U) /\ r \in Seq(U)
  BY <1>1, <1>2
<1> HIDE DEF U
<1>4. q \o r \in Seq(U)
  BY <1>3
<1>5. Range(q \o r) \subseteq Range(q) \cup Range(r)
  <2> SUFFICES ASSUME NEW i \in 1 .. Len(q) + Len(r)
               PROVE  (q \o r)[i] \in Range(q) \cup Range(r)
    BY <1>3, <1>4 DEF Range
  <2>1. CASE i <= Len(q)
    BY <1>3, <2>1 DEF Range
  <2>2. CASE i > Len(q)
    <3>1. (q \o r)[i] = r[i - Len(q)] /\ i - Len(q) \in 1 .. Len(r)
      BY <1>3, <2>2
    <3> QED
      BY <1>3, <3>1 DEF Range
  <2> QED
    BY <1>3, <2>1, <2>2
<1>6. Range(q) \subseteq Range(q \o r)
  BY <1>3, <1>4 DEF Range
<1>7. Range(r) \subseteq Range(q \o r)
  <2> SUFFICES ASSUME NEW i \in 1 .. Len(r)
               PROVE  r[i] \in Range(q \o r)
    BY <1>3, SMTT(10), ZenonT(40) DEF Range
  <2>1. (q \o r)[i + Len(q)] = r[i] /\ i + Len(q) \in 1 .. Len(q \o r)
    BY <1>3
  <2> QED
    BY <1>4, <2>1 DEF Range
<1> QED
  BY <1>4, <1>5, <1>6, <1>7 DEF Queue

\* Taking the first message leaves a queue of some of the others.
LEMMA TailQueue ==
    ASSUME NEW q, Queue(q), q # <<>>
    PROVE  Queue(Tail(q)) /\ Head(q) \in Range(q) /\ Range(Tail(q)) \subseteq Range(q)
<1>1. PICK S : q \in Seq(S)
  BY DEF Queue
<1>2. Tail(q) \in Seq(S) /\ Len(q) > 0
  BY <1>1
<1>3. Head(q) \in Range(q)
  BY <1>1, <1>2 DEF Range
<1>4. \A i \in 1 .. Len(q) - 1 : Tail(q)[i] = q[i + 1] /\ i + 1 \in 1 .. Len(q)
  BY <1>1, <1>2
<1>5. Range(Tail(q)) \subseteq Range(q)
  BY <1>1, <1>2, <1>4 DEF Range
<1> QED
  BY <1>2, <1>3, <1>5 DEF Queue

\* The queues with no message and with one.
LEMMA SmallQueues ==
    /\ Queue(<<>>) /\ Range(<<>>) = {}
    /\ \A e : Queue(<<e>>) /\ Range(<<e>>) = {e}
<1>1. <<>> \in Seq({}) /\ Range(<<>>) = {}
  BY DEF Range
<1>2. ASSUME NEW e
      PROVE  <<e>> \in Seq({e}) /\ Range(<<e>>) = {e}
  BY DEF Range
<1> QED
  BY <1>1, <1>2 DEF Queue

\* A sequence given by its elements, and its beginnings
LEMMA ListQueue ==
    ASSUME NEW n \in Nat, NEW e, e = [k \in 1 .. n |-> e[k]]
    PROVE  /\ Queue(e) /\ Len(e) = n
           /\ Range(e) = {e[k] : k \in 1 .. n}
<1>1. e \in Seq({e[k] : k \in 1 .. n}) /\ Len(e) = n /\ DOMAIN e = 1 .. n
  <2> DEFINE S == {e[k] : k \in 1 .. n}
  <2>1. e \in [1 .. n -> S]
    OBVIOUS
  <2> HIDE DEF S
  <2>2. e \in Seq(S)
    BY <2>1
  <2> QED
    BY <2>1, <2>2 DEF S
<1> QED
  BY <1>1 DEF Queue, Range

\* The beginning of a queue is a queue of some of its messages.
LEMMA BeginQueue ==
    ASSUME NEW q, Queue(q), NEW k \in 0 .. Len(q)
    PROVE  Queue(SubSeq(q, 1, k)) /\ Range(SubSeq(q, 1, k)) \subseteq Range(q)
<1>1. PICK S : q \in Seq(S)
  BY DEF Queue
<1>2. SubSeq(q, 1, k) \in Seq(S) /\ Len(SubSeq(q, 1, k)) = k /\ \A j \in 1 .. k : SubSeq(q, 1, k)[j] = q[j]
  BY <1>1
<1>3. DOMAIN SubSeq(q, 1, k) = 1 .. k /\ 1 .. k \subseteq 1 .. Len(q) /\ DOMAIN q = 1 .. Len(q)
  BY <1>1, <1>2
<1> QED
  BY <1>2, <1>3 DEF Queue, Range

(***************************************************************************)
(* The inductive invariant                                                 *)
(***************************************************************************)

IsMessage(m) == "type" \in DOMAIN m /\ "ok" \in DOMAIN m

Queues ==
    /\ DOMAIN up = Clients /\ DOMAIN down = Clients
    /\ \A c \in Clients : Queue(up[c]) /\ Queue(down[c])
    /\ \A c \in Clients : \A m \in Range(up[c]) : IsMessage(m)

\* A manifest on its way, and the answer that makes the sender write one, come
\* after the commit; a member hears of the file after it was announced.  A
\* request for the commit comes after all chunks were stored, the
\* acknowledgement of a chunk after that chunk was.
Causes ==
    /\ \A m \in Range(up[0]) : m.type = "publish" => store.stored = Chunks
    /\ \A m \in Range(down[0]) : m.type = "chunk" /\ m.ok = TRUE => m.i \in store.stored
    /\ \A m \in Range(up[0]) : m.type = "chat" => store.committed
    /\ \A m \in Range(down[0]) : m.type = "publish" /\ m.ok = TRUE => store.committed
    /\ \A c \in Members : \A m \in Range(down[c]) : m.type = "chat" => store.announced

Stored == store \in [upload : BOOLEAN, stored : SUBSET Chunks, committed : BOOLEAN, announced : BOOLEAN]

\* A download has the chunks below the one it waits for, and was not begun
\* before the file was announced.
Downloading(v) ==
    /\ "manifest" \in DOMAIN v /\ "next" \in DOMAIN v /\ "part" \in DOMAIN v /\ "file" \in DOMAIN v
    /\ v.manifest \in BOOLEAN
    /\ v.manifest => store.announced
    /\ v.next \in Int
    /\ v.next # -1 => v.next >= 0 /\ store.announced /\ v.part = 0 .. v.next - 1

Downloads == DOMAIN t = Members /\ \A m \in Members : Downloading(t[m])

WindowFields == {"started", "setup", "init", "status", "registered", "chunks", "job", "next", "inFlight"}

\* No chunk was sent yet.
Idle(w) == w.job = FALSE /\ w.next = 0 /\ w.inFlight = 0 /\ w.registered = {} /\ w.chunks = {}

\* Of the chunks that were handed to the connection the server has all but the
\* registered ones, and those are counted as in flight.
Tight(w) ==
    /\ w.registered \subseteq 0 .. w.next - 1
    /\ (0 .. w.next - 1) \ w.registered \subseteq store.stored
    /\ Cardinality(w.registered) <= w.inFlight

\* The window of a job that is running is tight, or a resume has forgotten the
\* registered chunks, so that no acknowledgement is accepted any more.  A job
\* begins once, when nothing was sent yet.
Window(w) ==
    /\ WindowFields \subseteq DOMAIN w
    /\ {w.started, w.init, w.job} \subseteq BOOLEAN
    /\ w.setup \in Int /\ w.next \in Nat /\ w.inFlight \in Int
    /\ w.init => w.setup < 0 /\ w.started /\ w.status = "none"
    /\ w.setup >= 0 => w.started /\ w.status = "none"
    /\ ~w.started => w.status = "none"
    /\ w.status = "none" => Idle(w)
    /\ w.job /\ w.status = "uploading" => w.registered = {} \/ Tight(w)

\* The invariant without the window, and with it.
IInv == Queues /\ Causes /\ Stored /\ Downloads
Inv == IInv /\ Window(s)

\* The sender is a client and no member, and a file has chunks.
LEMMA Constants == 0 \in Clients /\ Members \subseteq Clients /\ 0 \notin Members /\ ChunkCount \in Nat \ {0}
BY UploadAssumption DEF Clients, Members

\* Nothing under way and nothing stored satisfies the invariant.
LEMMA InitInv == Init => IInv
<1> SUFFICES ASSUME Init
             PROVE  IInv
  OBVIOUS
<1>1. Queues
  BY SmallQueues DEF Init, Queues
<1>2. Causes
  BY SmallQueues, Constants DEF Init, Causes
<1>3. Stored
  BY DEF Init, Stored
<1>4. Downloads
  <2>1. \A m \in Members : t[m] = [epoch |-> 0, proposal |-> 0, gap |-> FALSE, manifest |-> FALSE,
                                  next |-> -1, part |-> {}, file |-> {}, downloads |-> 0]
    BY DEF Init
  <2>2. DOMAIN t = Members
    BY DEF Init
  <2>3. ASSUME NEW m \in Members
        PROVE  Downloading(t[m])
    <3>1. t[m].next = -1 /\ t[m].manifest = FALSE
      BY <2>1
    <3>2. /\ "manifest" \in DOMAIN t[m] /\ "next" \in DOMAIN t[m]
          /\ "part" \in DOMAIN t[m] /\ "file" \in DOMAIN t[m]
      BY <2>1
    <3>3. t[m].manifest \in BOOLEAN /\ (t[m].manifest => store.announced)
      BY <3>1, Zenon
    <3>4. -1 \in Int
      OBVIOUS
    <3>5. t[m].next \in Int
      BY <3>1, <3>4, Zenon
    <3> QED
      BY <3>1, <3>2, <3>3, <3>5, Zenon DEF Downloading
  <2> QED
    BY <2>2, <2>3 DEF Downloads
<1> QED
  BY <1>1, <1>2, <1>3, <1>4 DEF IInv

(***************************************************************************)
(* Steps that send, receive and deliver                                    *)
(***************************************************************************)

\* Requests that a step adds are neither manifests nor requests for the commit.
UpStep ==
    /\ DOMAIN up' = Clients
    /\ \A c \in Clients : Queue(up'[c])
    /\ \A c \in Clients : \A m \in Range(up'[c]) :
          m \in Range(up[c]) \/ (IsMessage(m) /\ m.type \notin {"chat", "publish"})

Harmless(c, m) == IF c = 0 THEN ~(m.type \in {"publish", "chunk"} /\ m.ok = TRUE) ELSE m.type # "chat"

\* Messages to the clients that a step adds promise nothing.
DownStep ==
    /\ DOMAIN down' = Clients
    /\ \A c \in Clients : Queue(down'[c])
    /\ \A c \in Clients : \A m \in Range(down'[c]) : m \in Range(down[c]) \/ Harmless(c, m)

Grows ==
    /\ store.committed => store'.committed
    /\ store.announced => store'.announced
    /\ store.stored \subseteq store'.stored

\* A step keeps the invariant if what it puts into the queues has its cause.
LEMMA StepLemma ==
    ASSUME IInv, UpStep, DownStep, Grows, Stored', Downloads'
    PROVE  IInv'
<1>1. Queues'
  BY DEF IInv, Queues, UpStep, DownStep
<1>2. Causes'
  <2>1. \A m \in Range(up'[0]) : m.type = "chat" => store'.committed
    BY Constants DEF IInv, Causes, UpStep, Grows
  <2>2. \A m \in Range(down'[0]) : m.type = "publish" /\ m.ok = TRUE => store'.committed
    BY Constants DEF IInv, Causes, DownStep, Grows, Harmless
  <2>3. \A c \in Members : \A m \in Range(down'[c]) : m.type = "chat" => store'.announced
    BY Constants DEF IInv, Causes, DownStep, Grows, Harmless
  <2>4. store.stored = Chunks => store'.stored = Chunks
    BY DEF Grows, Stored
  <2>5. \A m \in Range(up'[0]) : m.type = "publish" => store'.stored = Chunks
    BY <2>4, Constants DEF IInv, Causes, UpStep
  <2>6. \A m \in Range(down'[0]) : m.type = "chunk" /\ m.ok = TRUE => m.i \in store'.stored
    BY Constants DEF IInv, Causes, DownStep, Grows, Harmless
  <2> QED
    BY <2>1, <2>2, <2>3, <2>5, <2>6 DEF Causes
<1> QED
  BY <1>1, <1>2 DEF IInv

\* Sending nothing needs no cause.
LEMMA SameUp ==
    ASSUME IInv, up' = up
    PROVE  UpStep
BY DEF IInv, Queues, UpStep

\* Delivering nothing needs no cause.
LEMMA SameDown ==
    ASSUME IInv, down' = down
    PROVE  DownStep
BY DEF IInv, Queues, DownStep

\* A store that stays keeps its type and its promises.
LEMMA SameStore ==
    ASSUME IInv, store' = store
    PROVE  Grows /\ Stored'
BY DEF IInv, Grows, Stored

\* Members that stay as they are keep their downloads.
LEMMA SameMembers ==
    ASSUME IInv, t' = t, Grows
    PROVE  Downloads'
BY DEF IInv, Grows, Downloads, Downloading

\* A step that only receives and sends
LEMMA QuietLemma ==
    ASSUME IInv, UpStep, DownStep, store' = store, t' = t
    PROVE  IInv'
BY StepLemma, SameStore, SameMembers

\* A message has the type it was made with.
LEMMA MessageLemma ==
    ASSUME NEW type, NEW i, NEW epoch
    PROVE  IsMessage(Message(type, i, epoch)) /\ Message(type, i, epoch).type = type
BY DEF IsMessage, Message

\* The sender adds out to its queue, or nothing.
LEMMA SendsLemma ==
    ASSUME IInv, NEW out, Queue(out), \A m \in Range(out) : IsMessage(m) /\ m.type \notin {"chat", "publish"},
           up' \in {up, [up EXCEPT ![0] = @ \o out]}
    PROVE  UpStep
<1>1. CASE up' = up
  BY <1>1, SameUp
<1>2. CASE up' = [up EXCEPT ![0] = @ \o out]
  <2>1. Queue(up[0] \o out) /\ Range(up[0] \o out) = Range(up[0]) \cup Range(out)
    BY ConcatQueue, Constants DEF IInv, Queues
  <2>2. DOMAIN up' = Clients /\ up'[0] = up[0] \o out /\ \A c \in Clients : c # 0 => up'[c] = up[c]
    BY <1>2, Constants DEF IInv, Queues
  <2> QED
    BY <2>1, <2>2 DEF IInv, Queues, UpStep
<1> QED
  BY <1>1, <1>2

\* A client takes the first message that was sent to it.
LEMMA ReceivesLemma ==
    ASSUME IInv, NEW c \in Clients, down[c] # <<>>, down' = [down EXCEPT ![c] = Tail(@)]
    PROVE  DownStep
<1>1. Queue(Tail(down[c])) /\ Range(Tail(down[c])) \subseteq Range(down[c])
  BY TailQueue DEF IInv, Queues
<1>2. DOMAIN down' = Clients /\ down'[c] = Tail(down[c]) /\ \A d \in Clients : d # c => down'[d] = down[d]
  BY DEF IInv, Queues
<1> QED
  BY <1>1, <1>2 DEF IInv, Queues, DownStep

\* The server takes a request of c and sends messages[d] to each client d.
LEMMA TakesLemma ==
    ASSUME IInv, NEW c \in Clients, up[c] # <<>>, NEW messages, Delivers(c, messages),
           \A d \in Clients : Queue(messages[d])
    PROVE  /\ UpStep
           /\ \A d \in Clients : Range(up'[d]) \subseteq Range(up[d])
           /\ DOMAIN down' = Clients
           /\ \A d \in Clients : Queue(down'[d]) /\ Range(down'[d]) \subseteq Range(down[d]) \cup Range(messages[d])
<1>1. UpStep /\ \A d \in Clients : Range(up'[d]) \subseteq Range(up[d])
  <2>1. Queue(Tail(up[c])) /\ Range(Tail(up[c])) \subseteq Range(up[c])
    BY TailQueue DEF IInv, Queues
  <2>2. DOMAIN up' = Clients /\ up'[c] = Tail(up[c]) /\ \A d \in Clients : d # c => up'[d] = up[d]
    BY DEF IInv, Queues, Delivers
  <2> QED
    BY <2>1, <2>2 DEF IInv, Queues, UpStep
<1>2. ASSUME NEW d \in Clients
      PROVE  /\ Queue(down[d] \o messages[d])
             /\ Range(down[d] \o messages[d]) = Range(down[d]) \cup Range(messages[d])
  BY ConcatQueue DEF IInv, Queues
<1>3. DOMAIN down' = Clients /\ \A d \in Clients : down'[d] \in {down[d], down[d] \o messages[d]}
  BY DEF Delivers
<1>4. ASSUME NEW d \in Clients
      PROVE  Queue(down'[d]) /\ Range(down'[d]) \subseteq Range(down[d]) \cup Range(messages[d])
  <2>1. CASE down'[d] = down[d]
    BY <2>1 DEF IInv, Queues
  <2>2. CASE down'[d] = down[d] \o messages[d]
    BY <2>2, <1>2
  <2> QED
    BY <1>3, <2>1, <2>2
<1> QED
  BY <1>1, <1>3, <1>4

\* Delivering harmless messages gives none without a cause.
LEMMA DeliversLemma ==
    ASSUME IInv, NEW c \in Clients, up[c] # <<>>, NEW messages, Delivers(c, messages),
           \A d \in Clients : Queue(messages[d]),
           \A d \in Clients : \A m \in Range(messages[d]) : Harmless(d, m)
    PROVE  UpStep /\ DownStep
BY TakesLemma DEF DownStep

\* An answer to one client is harmless if it is for that client.
LEMMA OnlyLemma ==
    ASSUME NEW c \in Clients, NEW m, Harmless(c, m)
    PROVE  /\ \A d \in Clients : Queue(Only(c, m)[d])
           /\ \A d \in Clients : \A n \in Range(Only(c, m)[d]) : Harmless(d, n)
BY SmallQueues DEF Only

\* Neither a confirmation nor a manifest: harmless to everyone.
LEMMA OthersLemma ==
    ASSUME NEW set, NEW m, m.type \notin {"publish", "chunk", "chat"}
    PROVE  /\ \A d \in Clients : Queue(Others(set, m, m)[d])
           /\ \A d \in Clients : \A n \in Range(Others(set, m, m)[d]) : Harmless(d, n)
BY SmallQueues DEF Others, Harmless

(***************************************************************************)
(* The sender's window of chunks                                           *)
(***************************************************************************)

\* The fields that the window is about are the same.
SameWindow(w, v) ==
    /\ WindowFields \subseteq DOMAIN v
    /\ v.started = w.started /\ v.setup = w.setup /\ v.init = w.init /\ v.status = w.status
    /\ v.registered = w.registered /\ v.chunks = w.chunks /\ v.job = w.job
    /\ v.next = w.next /\ v.inFlight = w.inFlight

\* Other fields do not matter to the window.
LEMMA SameWindowLemma ==
    ASSUME NEW w, NEW v, Window(w), SameWindow(w, v)
    PROVE  Window(v)
BY DEF Window, SameWindow, Idle, Tight

\* The server's store only grows, which the window allows for.
LEMMA StoreWindow ==
    ASSUME Window(s), Grows, s' = s
    PROVE  Window(s)'
BY DEF Window, Grows, Idle, Tight

\* The transfer has begun.
Begun(w) ==
    /\ WindowFields \subseteq DOMAIN w
    /\ w.job \in BOOLEAN /\ w.next \in Nat /\ w.inFlight \in Int
    /\ w.started = TRUE /\ w.init = FALSE /\ w.setup \in Int /\ w.setup < 0 /\ w.status # "none"

\* What the window still says of a transfer that has begun.
LEMMA BegunLemma ==
    ASSUME NEW w, Begun(w),
           w.job = FALSE \/ w.status # "uploading" \/ w.registered = {} \/ Tight(w)
    PROVE  Window(w)
<1>1. WindowFields \subseteq DOMAIN w /\ {w.started, w.init, w.job} \subseteq BOOLEAN
  BY Zenon DEF Begun
<1> QED
  BY <1>1 DEF Begun, Window

\* A transfer with a status has begun.
LEMMA HasBegun ==
    ASSUME NEW w, Window(w), w.status # "none"
    PROVE  Begun(w)
BY DEF Begun, Window

\* An acknowledgement takes a stored chunk out of the window.
LEMMA AcknowledgedLemma ==
    ASSUME NEW w, Begun(w), Tight(w), NEW i \in w.registered, i \in store.stored,
           NEW v, v.registered = w.registered \ {i}, v.inFlight = w.inFlight - 1, v.next = w.next
    PROVE  /\ Tight(v)
           /\ v.next = ChunkCount /\ v.inFlight = 0 => Chunks \subseteq store.stored
<1>1. IsFiniteSet(w.registered)
  <2>1. IsFiniteSet(0 .. w.next - 1)
    BY FS_Interval DEF Begun
  <2> QED
    BY <2>1, FS_Subset DEF Tight
<1>2. IsFiniteSet(v.registered) /\ Cardinality(v.registered) = Cardinality(w.registered) - 1
  BY <1>1, FS_RemoveElement
<1>3. Cardinality(w.registered) \in Nat
  BY <1>1, FS_CardinalityType
<1>4. Cardinality(v.registered) <= v.inFlight
  BY <1>2, <1>3 DEF Begun, Tight
<1>5. Tight(v)
  BY <1>4 DEF Tight
<1>6. ASSUME v.next = ChunkCount, v.inFlight = 0
      PROVE  Chunks \subseteq store.stored
  <2>1. Cardinality(v.registered) = 0
    <3>1. Cardinality(v.registered) \in Nat
      BY <1>2, FS_CardinalityType
    <3> QED
      BY <1>4, <1>6, <3>1
  <2>2. v.registered = {}
    BY <1>2, <2>1, FS_EmptySet
  <2> QED
    BY <1>5, <1>6, <2>2 DEF Tight, Chunks
<1> QED
  BY <1>5, <1>6

\* The fields of the job after it has handed over the chunks below c.
LEMMA SentUpToFields ==
    ASSUME NEW w, Begun(w), NEW c \in Nat, NEW v, v = SentUpTo(w, c)
    PROVE  /\ DOMAIN v = DOMAIN w
           /\ v.started = w.started /\ v.setup = w.setup /\ v.init = w.init /\ v.status = w.status
           /\ v.job = w.job /\ v.next = c
           /\ v.registered = w.registered \cup (w.next .. c - 1)
           /\ v.inFlight = w.inFlight + Cardinality(w.next .. c - 1)
BY DEF SentUpTo, Begun, WindowFields

\* Handing over chunks keeps the window tight.
LEMMA SentUpToLemma ==
    ASSUME NEW w, Begun(w), NEW c \in Nat, NEW v, v = SentUpTo(w, c)
    PROVE  Begun(v) /\ (Tight(w) /\ w.next <= c => Tight(v))
<1> DEFINE new == w.next .. c - 1
<1>1. /\ DOMAIN v = DOMAIN w
      /\ v.started = w.started /\ v.setup = w.setup /\ v.init = w.init /\ v.status = w.status
      /\ v.job = w.job /\ v.next = c
      /\ v.registered = w.registered \cup new
      /\ v.inFlight = w.inFlight + Cardinality(new)
  BY SentUpToFields
<1>2. IsFiniteSet(new) /\ Cardinality(new) \in Nat
  <2>1. w.next \in Int /\ c - 1 \in Int
    BY DEF Begun
  <2> QED
    BY <2>1, FS_Interval, FS_CardinalityType, Zenon
<1>3. Begun(v)
  BY <1>1, <1>2 DEF Begun
<1>4. ASSUME Tight(w), w.next <= c
      PROVE  Tight(v)
  <2>1. IsFiniteSet(0 .. w.next - 1)
    <3>1. w.next - 1 \in Int /\ 0 \in Int
      BY DEF Begun
    <3> QED
      BY <3>1, FS_Interval, Zenon
  <2>2. IsFiniteSet(w.registered) /\ Cardinality(w.registered) \in Nat
    BY <1>4, <2>1, FS_Subset, FS_CardinalityType DEF Tight
  <2>3. Cardinality(w.registered \cup new) <= Cardinality(w.registered) + Cardinality(new)
    <3>1. /\ Cardinality(w.registered \cup new) = Cardinality(w.registered) + Cardinality(new)
                                                   - Cardinality(w.registered \cap new)
      BY <1>2, <2>2, FS_Union
    <3>2. Cardinality(w.registered \cap new) \in Nat
      BY <2>2, FS_Intersection, FS_CardinalityType
    <3> QED
      BY <1>2, <2>2, <3>1, <3>2
  <2>4. Cardinality(v.registered) <= v.inFlight
    <3>1. Cardinality(w.registered \cup new) \in Nat
      BY <1>2, <2>2, FS_Union, FS_CardinalityType
    <3> QED
      BY <1>1, <1>2, <1>4, <2>2, <2>3, <3>1 DEF Begun, Tight
  <2>5. v.registered \subseteq 0 .. v.next - 1
    BY <1>1, <1>4 DEF Begun, Tight
  <2>6. (0 .. v.next - 1) \ v.registered \subseteq store.stored
    BY <1>1, <1>4 DEF Begun, Tight
  <2> QED
    BY <2>4, <2>5, <2>6 DEF Tight
<1> QED
  BY <1>3, <1>4

\* A transfer that has failed is not uploading any more.
LEMMA FailsLemma ==
    ASSUME NEW w, Begun(w), NEW v, v = Tell(TransferFails(w), "error")
    PROVE  Begun(v) /\ v.status # "uploading" /\ v.next = w.next
BY DEF Begun, WindowFields, Tell, TransferFails

\* The window offers finitely many chunks.
LEMMA SendNowFinite ==
    ASSUME NEW w
    PROVE  Cardinality(SendNow(w)) \in Nat
<1>1. IsFiniteSet(Chunks)
  BY FS_Interval, Constants DEF Chunks
<1>2. IsFiniteSet(SendNow(w))
  BY <1>1, FS_Subset DEF SendNow
<1> QED
  BY <1>2, FS_CardinalityType

\* Filling a tight window leaves it tight, or the transfer has failed.
LEMMA ChunkWindow ==
    ASSUME NEW w, Begun(w), Tight(w), SendNextAttachmentChunk(w)
    PROVE  Window(s')
<1> DEFINE n == Cardinality(SendNow(w))
           unsent(c) == [SentUpTo(w, c + 1) EXCEPT !.chunks = @ \ {c}]
<1>1. n \in Nat
  BY SendNowFinite
<1>2. \/ s' = SentUpTo(w, w.next + n)
      \/ \E c \in SendNow(w) : s' = Tell(TransferFails(unsent(c)), "error")
      \/ \E k \in 0 .. n - 1 : s' = Tell(TransferFails([SentUpTo(w, w.next + k) EXCEPT !.job = FALSE]), "error")
  BY DEF SendNextAttachmentChunk, Ends
<1> HIDE DEF n
<1>3. CASE s' = SentUpTo(w, w.next + n)
  <2>1. w.next + n \in Nat /\ w.next <= w.next + n
    BY <1>1 DEF Begun
  <2> QED
    BY <1>3, <2>1, SentUpToLemma, BegunLemma
<1>4. ASSUME NEW c \in SendNow(w), s' = Tell(TransferFails(unsent(c)), "error")
      PROVE  Window(s')
  <2>1. c + 1 \in Nat
    BY Constants DEF SendNow, Chunks
  <2> DEFINE v == SentUpTo(w, c + 1)
             u == [v EXCEPT !.chunks = @ \ {c}]
  <2>2. Begun(v)
    BY <2>1, SentUpToLemma
  <2> HIDE DEF v
  <2>3. Begun(u)
    BY <2>2 DEF Begun, WindowFields
  <2>4. s' = Tell(TransferFails(u), "error")
    BY <1>4 DEF v
  <2> HIDE DEF u
  <2> QED
    BY <2>3, <2>4, FailsLemma, BegunLemma
<1>5. ASSUME NEW k \in 0 .. n - 1,
             s' = Tell(TransferFails([SentUpTo(w, w.next + k) EXCEPT !.job = FALSE]), "error")
      PROVE  Window(s')
  <2>1. w.next + k \in Nat
    BY <1>1 DEF Begun
  <2> DEFINE v == SentUpTo(w, w.next + k)
             u == [v EXCEPT !.job = FALSE]
  <2>2. Begun(v)
    BY <2>1, SentUpToLemma
  <2> HIDE DEF v
  <2>3. Begun(u)
    <3>1. /\ DOMAIN u = DOMAIN v /\ u.started = v.started /\ u.setup = v.setup /\ u.init = v.init
          /\ u.status = v.status /\ u.next = v.next /\ u.inFlight = v.inFlight
      BY <2>2 DEF Begun, WindowFields
    <3>2. u.job = FALSE
      BY <2>2 DEF Begun, WindowFields
    <3>3. u.job \in BOOLEAN
      BY <3>2, Zenon
    <3> QED
      BY <2>2, <3>1, <3>3 DEF Begun
  <2>4. s' = Tell(TransferFails(u), "error")
    BY <1>5 DEF v
  <2> HIDE DEF u
  <2> QED
    BY <2>3, <2>4, FailsLemma, BegunLemma
<1> QED
  BY <1>2, <1>3, <1>4, <1>5

\* The worker after it has counted the acknowledgement of chunk i.
Counted(i) ==
    LET w == [s EXCEPT !.chunks = @ \ {i}, !.registered = @ \ {i}]
    IN  [w EXCEPT !.received = @ \cup {i},
                  !.status = IF w.received \cup {i} = Chunks THEN "completed" ELSE @,
                  !.inFlight = IF w.job THEN @ - 1 ELSE @]

\* The chunk is stored, so that the window stays tight; it is empty at the end
\* of the file only if the server has the whole file.
LEMMA CountedLemma ==
    ASSUME Inv, down[0] # <<>>, Head(down[0]).type = "chunk", Head(down[0]).ok = TRUE,
           NEW i, i = Head(down[0]).i, i \in s.registered, s.status = "uploading", s.job = TRUE,
           NEW v, v = Counted(i)
    PROVE  Begun(v) /\ Tight(v) /\ (Finished(v) => store.stored = Chunks)
<1>1. i \in store.stored
  <2>1. Head(down[0]) \in Range(down[0])
    BY TailQueue, Constants DEF Inv, IInv, Queues
  <2> QED
    BY <2>1 DEF Inv, IInv, Causes
<1>2. Begun(s) /\ Tight(s)
  <2>1. Window(s)
    BY DEF Inv
  <2>2. Tight(s)
    BY <2>1 DEF Window
  <2> QED
    BY <2>1, <2>2, HasBegun
<1>3. /\ DOMAIN v = DOMAIN s
      /\ v.started = s.started /\ v.setup = s.setup /\ v.init = s.init /\ v.job = s.job
      /\ v.status \in {"uploading", "completed"}
      /\ v.next = s.next /\ v.registered = s.registered \ {i} /\ v.inFlight = s.inFlight - 1
  BY <1>2 DEF Counted, Begun, WindowFields
<1>4. Begun(v)
  BY <1>2, <1>3, SMTT(10), ZenonT(40) DEF Begun
<1>5. Tight(v) /\ (v.next = ChunkCount /\ v.inFlight = 0 => Chunks \subseteq store.stored)
  BY <1>1, <1>2, <1>3, AcknowledgedLemma, SMTT(10), ZenonT(40)
<1>6. Chunks \subseteq store.stored => store.stored = Chunks
  BY DEF Inv, IInv, Stored
<1> QED
  BY <1>4, <1>5, <1>6 DEF Finished

(***************************************************************************)
(* The sender                                                              *)
(***************************************************************************)

\* The sender may send anything but a manifest and a request for the commit.
LEMMA SendsOneLemma ==
    ASSUME IInv, NEW type, type \notin {"chat", "publish"}, NEW i, NEW epoch,
           up' \in {up, [up EXCEPT ![0] = @ \o <<Message(type, i, epoch)>>]}
    PROVE  UpStep
<1> DEFINE m == Message(type, i, epoch)
<1>1. IsMessage(m) /\ m.type \notin {"chat", "publish"}
  BY MessageLemma
<1> HIDE DEF m
<1>2. Queue(<<m>>) /\ Range(<<m>>) = {m}
  BY SmallQueues
<1>3. up' \in {up, [up EXCEPT ![0] = @ \o <<m>>]}
  BY DEF m
<1> QED
  BY <1>1, <1>2, <1>3, SendsLemma

\* The next step of the group setup sends no manifest.
LEMMA SetupLemma ==
    ASSUME IInv, NEW w, StartNextAttachmentMlsSetup(w)
    PROVE  UpStep
<1>1. \/ up' \in {up, [up EXCEPT ![0] = @ \o <<Message("init", 0, 0)>>]}
      \/ up' \in {up, [up EXCEPT ![0] = @ \o <<Message("fetch", w.setup + 1, 0)>>]}
  BY DEF StartNextAttachmentMlsSetup, Ends
<1> QED
  BY <1>1, SendsOneLemma

\* Adding a member sends no manifest.
LEMMA AddLemma ==
    ASSUME IInv, NEW w, NEW i, AddMlsMember(w, i)
    PROVE  UpStep
<1>1. up' \in {up, [up EXCEPT ![0] = @ \o <<Message("proposal", i, w.epoch + 1)>>]}
  BY DEF AddMlsMember, Ends
<1> QED
  BY <1>1, SendsOneLemma

\* Filling the window sends chunks only, also when it fails on the way.
LEMMA ChunkLemma ==
    ASSUME IInv, NEW w, SendNextAttachmentChunk(w)
    PROVE  UpStep
<1> DEFINE n == Cardinality(SendNow(w))
           out == [k \in 1 .. n |-> Message("chunk", w.next + k - 1, 0)]
<1>1. n \in Nat
  BY SendNowFinite
<1>2. \/ up' \in {up, [up EXCEPT ![0] = @ \o out]}
      \/ \E k \in 0 .. n - 1 : up' \in {up, [up EXCEPT ![0] = @ \o SubSeq(out, 1, k)]}
  BY DEF SendNextAttachmentChunk, Ends
<1>3. \A k \in 1 .. n : IsMessage(out[k]) /\ out[k].type \notin {"chat", "publish"}
  BY MessageLemma
<1>4. out = [k \in 1 .. n |-> out[k]]
  OBVIOUS
<1> HIDE DEF n, out
<1>5. Queue(out) /\ Len(out) = n /\ Range(out) = {out[k] : k \in 1 .. n}
  BY <1>1, <1>4, ListQueue
<1>6. \A m \in Range(out) : IsMessage(m) /\ m.type \notin {"chat", "publish"}
  BY <1>3, <1>5
<1>7. CASE up' \in {up, [up EXCEPT ![0] = @ \o out]}
  BY <1>5, <1>6, <1>7, SendsLemma
<1>8. ASSUME NEW k \in 0 .. n - 1, up' \in {up, [up EXCEPT ![0] = @ \o SubSeq(out, 1, k)]}
      PROVE  UpStep
  <2>1. k \in 0 .. Len(out)
    BY <1>1, <1>5
  <2>2. Queue(SubSeq(out, 1, k)) /\ Range(SubSeq(out, 1, k)) \subseteq Range(out)
    BY <1>5, <2>1, BeginQueue
  <2> QED
    BY <1>6, <1>8, <2>2, SendsLemma
<1> QED
  BY <1>2, <1>7, <1>8

\* A handler of the sender that sends nothing without a cause keeps the invariant.
LEMMA ReceivedLemma ==
    ASSUME IInv, down[0] # <<>>, down' = [down EXCEPT ![0] = Tail(@)], store' = store, t' = t, UpStep
    PROVE  IInv'
BY ReceivesLemma, QuietLemma, Constants

\* So does one that sends a manifest or a request for the commit with its cause.
LEMMA CausedLemma ==
    ASSUME IInv, down[0] # <<>>, down' = [down EXCEPT ![0] = Tail(@)], store' = store, t' = t,
           NEW out, Queue(out), \A m \in Range(out) : IsMessage(m),
           \A m \in Range(out) : m.type = "chat" => store.committed,
           \A m \in Range(out) : m.type = "publish" => store.stored = Chunks,
           up' \in {up, [up EXCEPT ![0] = @ \o out]}
    PROVE  IInv'
<1>1. Queue(up[0] \o out) /\ Range(up[0] \o out) = Range(up[0]) \cup Range(out)
  BY ConcatQueue, Constants DEF IInv, Queues
<1>2. /\ DOMAIN up' = Clients /\ up'[0] \in {up[0], up[0] \o out}
      /\ \A c \in Clients : c # 0 => up'[c] = up[c]
  BY Constants DEF IInv, Queues
<1>3. DownStep
  BY ReceivesLemma, Constants
<1>4. Queues'
  BY <1>1, <1>2, <1>3 DEF IInv, Queues, DownStep
<1>5. Causes'
  <2>1. \A m \in Range(up'[0]) : m \in Range(up[0]) \cup Range(out)
    BY <1>1, <1>2
  <2>2. \A m \in Range(up'[0]) : m.type = "chat" => store'.committed
    BY <2>1 DEF IInv, Causes
  <2>3. \A m \in Range(up'[0]) : m.type = "publish" => store'.stored = Chunks
    BY <2>1 DEF IInv, Causes
  <2>4. \A m \in Range(down'[0]) : m.type = "publish" /\ m.ok = TRUE => store'.committed
    BY <1>3, Constants DEF IInv, Causes, DownStep, Harmless
  <2>5. \A m \in Range(down'[0]) : m.type = "chunk" /\ m.ok = TRUE => m.i \in store'.stored
    BY <1>3, Constants DEF IInv, Causes, DownStep, Harmless
  <2>6. \A c \in Members : \A m \in Range(down'[c]) : m.type = "chat" => store'.announced
    BY <1>3, Constants DEF IInv, Causes, DownStep, Harmless
  <2> QED
    BY <2>2, <2>3, <2>4, <2>5, <2>6 DEF Causes
<1> QED
  BY <1>4, <1>5, SameStore, SameMembers DEF IInv

\* Every handler of the sender keeps the invariant.
LEMMA SenderLemma ==
    ASSUME IInv, Window(s), Sender
    PROVE  IInv' /\ store' = store /\ t' = t
<1>1. down[0] # <<>> /\ down' = [down EXCEPT ![0] = Tail(@)] /\ store' = store /\ t' = t
  BY DEF Sender, KeyPackageFetched, ProposalAccepted, CommitAccepted, WelcomeAccepted, MlsRefused, InitAccepted,
         InitRefused, ChunkAccepted, ChunkRefused, CommitConfirmed, CommitRefused, ResumeAnswered, ResumeRefused,
         Receives
<1>2. CASE KeyPackageFetched
  BY <1>1, <1>2, AddLemma, SameUp, ReceivedLemma DEF KeyPackageFetched
<1>3. CASE ProposalAccepted
  <2>1. up' \in {up, [up EXCEPT ![0] = @ \o <<Message("commit", Index, s.epoch + 1)>>]}
    BY <1>3 DEF ProposalAccepted, Ends
  <2> QED
    BY <1>1, <2>1, SendsOneLemma, ReceivedLemma
<1>4. CASE CommitAccepted
  <2>1. PICK epoch : up' \in {up, [up EXCEPT ![0] = @ \o <<Message("welcome", Index, epoch)>>]}
    BY <1>4 DEF CommitAccepted, Ends
  <2> QED
    BY <1>1, <2>1, SendsOneLemma, ReceivedLemma
<1>5. CASE WelcomeAccepted
  BY <1>1, <1>5, SetupLemma, SameUp, ReceivedLemma DEF WelcomeAccepted
<1>6. CASE MlsRefused \/ InitRefused \/ ChunkRefused \/ CommitRefused \/ ResumeAnswered \/ ResumeRefused
  <2>1. up' = up
    BY <1>6 DEF MlsRefused, InitRefused, ChunkRefused, CommitRefused, ResumeAnswered, ResumeRefused
  <2> QED
    BY <1>1, <2>1, SameUp, ReceivedLemma
<1>7. CASE InitAccepted
  BY <1>1, <1>7, ChunkLemma, SameUp, ReceivedLemma DEF InitAccepted
<1>8. CASE ChunkAccepted
  <2>1. CASE UpStep
    BY <1>1, <2>1, ReceivedLemma
  <2>2. CASE ~UpStep
    <3>1. /\ Head(down[0]).type = "chunk" /\ Head(down[0]).ok = TRUE
          /\ Index \in s.registered /\ s.status = "uploading" /\ s.job = TRUE /\ Finished(Counted(Index))
          /\ up' \in {up, [up EXCEPT ![0] = @ \o CommitRequest]}
      <4>1. s.job = TRUE \/ s.job = FALSE
        BY DEF Window
      <4> QED
        BY <1>8, <2>2, <4>1, ChunkLemma, SameUp DEF ChunkAccepted, Receives, Ends, Counted
    <3>2. store.stored = Chunks
      BY <1>1, <3>1, CountedLemma DEF Inv, Index
    <3>3. /\ Queue(CommitRequest)
          /\ \A m \in Range(CommitRequest) : IsMessage(m) /\ m.type = "publish"
      BY SmallQueues, MessageLemma DEF CommitRequest
    <3> QED
      BY <1>1, <3>1, <3>2, <3>3, CausedLemma
  <2> QED
    BY <2>1, <2>2
<1>9. CASE CommitConfirmed
  <2>1. store.committed
    <3>1. Head(down[0]) \in Range(down[0])
      BY <1>9, TailQueue, Constants DEF CommitConfirmed, Receives, IInv, Queues
    <3> QED
      BY <1>9, <3>1 DEF CommitConfirmed, Receives, IInv, Causes
  <2> DEFINE out == IF s.manifest THEN <<Message("chat", 0, s.epoch)>> ELSE <<>>
  <2>2. Queue(out) /\ \A m \in Range(out) : IsMessage(m) /\ m.type = "chat"
    BY SmallQueues, MessageLemma
  <2>3. up' \in {up, [up EXCEPT ![0] = @ \o out]}
    BY <1>9 DEF CommitConfirmed, Ends
  <2> HIDE DEF out
  <2> QED
    BY <1>1, <2>1, <2>2, <2>3, CausedLemma
<1> QED
  BY <1>1, <1>2, <1>3, <1>4, <1>5, <1>6, <1>7, <1>8, <1>9 DEF Sender

(***************************************************************************)
(* The server                                                              *)
(***************************************************************************)

\* The answer to one client, or to the sender and members of the group
LEMMA AnswerLemma ==
    ASSUME IInv, NEW c \in Clients, up[c] # <<>>, NEW m, Harmless(c, m), Delivers(c, Only(c, m))
    PROVE  UpStep /\ DownStep
<1>1. /\ \A d \in Clients : Queue(Only(c, m)[d])
      /\ \A d \in Clients : \A n \in Range(Only(c, m)[d]) : Harmless(d, n)
  BY OnlyLemma
<1> DEFINE messages == Only(c, m)
<1>2. Delivers(c, messages)
  OBVIOUS
<1> HIDE DEF messages
<1> QED
  BY <1>1, <1>2, DeliversLemma DEF messages

\* Relaying a control message of the group is harmless.
LEMMA ForwardLemma ==
    ASSUME IInv, up[0] # <<>>, NEW m, m.type \notin {"publish", "chunk", "chat"}, NEW set, Delivers(0, Others(set, m, m))
    PROVE  UpStep /\ DownStep
<1>1. /\ \A d \in Clients : Queue(Others(set, m, m)[d])
      /\ \A d \in Clients : \A n \in Range(Others(set, m, m)[d]) : Harmless(d, n)
  BY OthersLemma
<1> DEFINE messages == Others(set, m, m)
<1>2. Delivers(0, messages)
  OBVIOUS
<1> HIDE DEF messages
<1> QED
  BY <1>1, <1>2, DeliversLemma, Constants DEF messages

\* The request the server takes is a message that was sent.
LEMMA TakesMessage ==
    ASSUME IInv, NEW c \in Clients, up[c] # <<>>
    PROVE  Head(up[c]) \in Range(up[c]) /\ IsMessage(Head(up[c]))
BY TailQueue DEF IInv, Queues

\* What the server handles without storing anything
LEMMA ServerQuiet ==
    ASSUME IInv,
           \/ HandleFetch \/ HandleProposal \/ HandleCommit \/ HandleWelcome \/ HandleAttachmentResume
           \/ \E c \in Members : HandleWelcomeAccept(c) \/ HandleAttachmentDownload(c)
           \/ \E c \in Clients : Refuse(c)
    PROVE  IInv' /\ store' = store /\ t' = t
<1>1. store' = store /\ t' = t
  BY DEF HandleFetch, HandleProposal, HandleCommit, HandleWelcome, HandleAttachmentResume, HandleWelcomeAccept,
         HandleAttachmentDownload, Refuse, Delivers
<1>2. CASE HandleFetch
  <2>1. Harmless(0, Head(up[0]))
    BY <1>2 DEF HandleFetch, Takes, Harmless
  <2> QED
    BY <1>1, <1>2, <2>1, AnswerLemma, QuietLemma, Constants DEF HandleFetch, Takes
<1>3. CASE HandleProposal
  <2>1. Harmless(0, Head(up[0])) /\ Head(up[0]).type \notin {"publish", "chunk", "chat"}
    BY <1>3 DEF HandleProposal, Takes, Harmless
  <2> QED
    BY <1>1, <1>3, <2>1, AnswerLemma, ForwardLemma, QuietLemma, Constants DEF HandleProposal, Takes
<1>4. CASE HandleCommit
  <2>1. Harmless(0, Head(up[0])) /\ Head(up[0]).type \notin {"publish", "chunk", "chat"}
    BY <1>4 DEF HandleCommit, Takes, Harmless
  <2> QED
    BY <1>1, <1>4, <2>1, AnswerLemma, ForwardLemma, QuietLemma, Constants DEF HandleCommit, Takes
<1>5. CASE HandleWelcome
  <2>1. Head(up[0]).type \notin {"publish", "chunk", "chat"}
    BY <1>5 DEF HandleWelcome, Takes
  <2> QED
    BY <1>1, <1>5, <2>1, ForwardLemma, QuietLemma DEF HandleWelcome, Takes
<1>6. CASE HandleAttachmentResume
  <2> DEFINE m == [Head(up[0]) EXCEPT !.got = store.stored]
  <2>1. m.type = "resume"
    BY <1>6, TakesMessage, Constants DEF HandleAttachmentResume, Takes, IsMessage
  <2>2. up[0] # <<>> /\ Delivers(0, Only(0, m))
    BY <1>6 DEF HandleAttachmentResume, Takes
  <2> HIDE DEF m
  <2>3. Harmless(0, m)
    BY <2>1 DEF Harmless
  <2> QED
    BY <1>1, <2>2, <2>3, AnswerLemma, QuietLemma, Constants
<1>7. ASSUME NEW c \in Members, HandleWelcomeAccept(c)
      PROVE  IInv'
  <2> DEFINE messages == [d \in Clients |-> <<>>]
  <2>1. \A d \in Clients : Queue(messages[d]) /\ Range(messages[d]) = {}
    BY SmallQueues
  <2>2. up[c] # <<>> /\ Delivers(c, messages)
    BY <1>7 DEF HandleWelcomeAccept, Takes
  <2> HIDE DEF messages
  <2>3. \A d \in Clients : Queue(messages[d]) /\ \A m \in Range(messages[d]) : Harmless(d, m)
    BY <2>1
  <2> QED
    BY <1>1, <2>2, <2>3, DeliversLemma, QuietLemma, Constants
<1>8. ASSUME NEW c \in Members, HandleAttachmentDownload(c)
      PROVE  IInv'
  <2>1. Harmless(c, Head(up[c]))
    BY <1>8, Constants DEF HandleAttachmentDownload, Takes, Harmless
  <2> QED
    BY <1>1, <1>8, <2>1, AnswerLemma, QuietLemma, Constants DEF HandleAttachmentDownload, Takes
<1>9. ASSUME NEW c \in Clients, Refuse(c)
      PROVE  IInv'
  <2> DEFINE m == Error(Head(up[c]))
  <2>1. m.type # "chat" /\ m.ok = FALSE
    BY <1>9, TakesMessage DEF Refuse, IsMessage, Error
  <2>2. up[c] # <<>> /\ Delivers(c, Only(c, m))
    BY <1>9 DEF Refuse
  <2> HIDE DEF m
  <2>3. Harmless(c, m)
    BY <2>1, Zenon DEF Harmless
  <2> QED
    BY <1>1, <2>2, <2>3, AnswerLemma, QuietLemma
<1> QED
  BY <1>1, <1>2, <1>3, <1>4, <1>5, <1>6, <1>7, <1>8, <1>9

\* Beginning an upload keeps the invariant.
LEMMA StoreLemma ==
    ASSUME IInv, HandleAttachmentInit
    PROVE  IInv'
<1>1. Harmless(0, Head(up[0])) /\ up[0] # <<>> /\ Delivers(0, Only(0, Head(up[0])))
  BY DEF HandleAttachmentInit, Takes, Harmless
<1>2. UpStep /\ DownStep
  BY <1>1, AnswerLemma, Constants
<1>3. Grows /\ Stored'
  BY DEF HandleAttachmentInit, IInv, Stored, Grows
<1>4. Downloads'
  BY <1>1, <1>3, SameMembers DEF Delivers
<1> QED
  BY <1>2, <1>3, <1>4, StepLemma

\* An answer to the sender that has its cause in what the server now stores
LEMMA ConfirmLemma ==
    ASSUME IInv, up[0] # <<>>, Delivers(0, Only(0, Head(up[0]))), t' = t, Grows, Stored',
           Head(up[0]).type = "publish" => store'.committed,
           Head(up[0]).type = "chunk" => Head(up[0]).i \in store'.stored
    PROVE  IInv'
<1> DEFINE messages == Only(0, Head(up[0]))
<1>1. /\ Delivers(0, messages)
      /\ \A d \in Clients : Queue(messages[d])
      /\ \A d \in Members : Range(messages[d]) = {}
      /\ Range(messages[0]) = {Head(up[0])}
  BY SmallQueues, Constants DEF Only
<1> HIDE DEF messages
<1>2. /\ UpStep /\ DOMAIN down' = Clients
      /\ \A d \in Clients : Range(up'[d]) \subseteq Range(up[d])
      /\ \A d \in Clients : Queue(down'[d]) /\ Range(down'[d]) \subseteq Range(down[d]) \cup Range(messages[d])
  BY <1>1, TakesLemma, Constants
<1>3. Queues'
  BY <1>2 DEF IInv, Queues, UpStep
<1>4. Causes'
  <2>1. \A c \in Members : \A m \in Range(down'[c]) : m.type = "chat" => store'.announced
    BY <1>1, <1>2, Constants DEF IInv, Causes, Grows
  <2>2. \A m \in Range(up'[0]) : m.type = "chat" => store'.committed
    BY <1>2, Constants DEF IInv, Causes, Grows
  <2>3. \A m \in Range(up'[0]) : m.type = "publish" => store'.stored = Chunks
    BY <1>2, Constants DEF IInv, Causes, Grows, Stored
  <2>4. \A m \in Range(down'[0]) : m \in Range(down[0]) \/ m = Head(up[0])
    BY <1>1, <1>2, Constants
  <2>5. \A m \in Range(down'[0]) : m.type = "publish" /\ m.ok = TRUE => store'.committed
    BY <2>4 DEF IInv, Causes, Grows
  <2>6. \A m \in Range(down'[0]) : m.type = "chunk" /\ m.ok = TRUE => m.i \in store'.stored
    BY <2>4 DEF IInv, Causes, Grows
  <2> QED
    BY <2>1, <2>2, <2>3, <2>5, <2>6 DEF Causes
<1>5. Downloads'
  BY SameMembers
<1> QED
  BY <1>3, <1>4, <1>5 DEF IInv

\* The chunk that is acknowledged is stored.
LEMMA ChunkStored ==
    ASSUME IInv, HandleAttachmentChunk
    PROVE  IInv'
<1>1. /\ up[0] # <<>> /\ Delivers(0, Only(0, Head(up[0]))) /\ t' = t
      /\ Head(up[0]).type = "chunk" /\ Head(up[0]).i \in Chunks
  BY DEF HandleAttachmentChunk, Takes, Delivers
<1>2. Grows /\ Stored' /\ Head(up[0]).i \in store'.stored
  BY DEF HandleAttachmentChunk, IInv, Stored, Grows
<1> QED
  BY <1>1, <1>2, ConfirmLemma

\* What the server has committed stays so; the answer to the commit, which lets
\* the sender write the manifest, is its first sign.
LEMMA PublishLemma ==
    ASSUME IInv, HandleAttachmentCommit
    PROVE  IInv'
<1>1. /\ up[0] # <<>> /\ Delivers(0, Only(0, Head(up[0]))) /\ t' = t
      /\ Head(up[0]).type = "publish"
  BY DEF HandleAttachmentCommit, Takes, Delivers
<1>2. Grows /\ Stored' /\ store'.committed
  BY DEF HandleAttachmentCommit, IInv, Stored, Grows
<1> QED
  BY <1>1, <1>2, ConfirmLemma

\* Relaying the manifest announces a committed attachment.
LEMMA AnnounceLemma ==
    ASSUME IInv, HandleChat
    PROVE  IInv' /\ store.committed
<1> DEFINE messages == [d \in Clients |-> IF d = 0 THEN <<>> ELSE <<Head(up[0])>>]
<1>1. /\ up[0] # <<>> /\ Delivers(0, messages)
      /\ \A d \in Clients : Queue(messages[d])
      /\ Range(messages[0]) = {}
  BY SmallQueues, Constants DEF HandleChat, Takes
<1>2. t' = t
  BY DEF HandleChat, Delivers
<1> HIDE DEF messages
<1>3. /\ UpStep /\ DOMAIN down' = Clients
      /\ \A d \in Clients : Range(up'[d]) \subseteq Range(up[d])
      /\ \A d \in Clients : Queue(down'[d]) /\ Range(down'[d]) \subseteq Range(down[d]) \cup Range(messages[d])
  BY <1>1, TakesLemma, Constants
<1>4. Grows /\ Stored' /\ store'.announced
  BY DEF HandleChat, IInv, Stored, Grows
<1>5. Queues'
  BY <1>3 DEF IInv, Queues, UpStep
<1>6. Causes'
  <2>1. \A m \in Range(up'[0]) : m.type = "chat" => store'.committed
    BY <1>3, <1>4, Constants DEF IInv, Causes, Grows
  <2>2. \A m \in Range(down'[0]) : m.type = "publish" /\ m.ok = TRUE => store'.committed
    BY <1>1, <1>3, <1>4, Constants DEF IInv, Causes, Grows
  <2>3. \A m \in Range(up'[0]) : m.type = "publish" => store'.stored = Chunks
    BY <1>3, <1>4, Constants DEF IInv, Causes, Grows, Stored
  <2>4. \A m \in Range(down'[0]) : m.type = "chunk" /\ m.ok = TRUE => m.i \in store'.stored
    BY <1>1, <1>3, <1>4, Constants DEF IInv, Causes, Grows
  <2> QED
    BY <1>4, <2>1, <2>2, <2>3, <2>4 DEF Causes
<1>7. Downloads'
  BY <1>2, <1>4, SameMembers
<1>8. store.committed
  <2>1. Head(up[0]) \in Range(up[0])
    BY <1>1, TakesMessage, Constants
  <2> QED
    BY <2>1 DEF HandleChat, Takes, IInv, Causes
<1> QED
  BY <1>4, <1>5, <1>6, <1>7, <1>8 DEF IInv

(***************************************************************************)
(* The members                                                             *)
(***************************************************************************)

\* A member may send anything but a manifest.
LEMMA MemberSendsLemma ==
    ASSUME IInv, NEW m \in Members, NEW type, type \notin {"chat", "publish"}, NEW i, NEW epoch,
           MemberSends(m, Message(type, i, epoch))
    PROVE  UpStep
<1> DEFINE out == Message(type, i, epoch)
<1>1. IsMessage(out) /\ out.type \notin {"chat", "publish"}
  BY MessageLemma
<1>2. up' \in {up, [up EXCEPT ![m] = Append(@, out)]}
  BY DEF MemberSends
<1> HIDE DEF out
<1>3. CASE up' = up
  BY <1>3, SameUp
<1>4. CASE up' = [up EXCEPT ![m] = Append(@, out)]
  <2>1. Queue(Append(up[m], out)) /\ Range(Append(up[m], out)) = Range(up[m]) \cup {out}
    BY AppendQueue, Constants DEF IInv, Queues
  <2> DEFINE q == Append(up[m], out)
  <2>2. DOMAIN up' = Clients /\ up'[m] = q /\ \A c \in Clients : c # m => up'[c] = up[c]
    BY <1>4, Constants DEF IInv, Queues
  <2>3. Queue(q) /\ Range(q) = Range(up[m]) \cup {out}
    BY <2>1
  <2> HIDE DEF q
  <2> QED
    BY <1>1, <2>2, <2>3 DEF IInv, Queues, UpStep
<1> QED
  BY <1>2, <1>3, <1>4

\* A member's step is correct when its new state is.
LEMMA MemberLemma ==
    ASSUME IInv, NEW m \in Members, UpStep, DownStep, store' = store,
           NEW v, t' = [t EXCEPT ![m] = v], Downloading(v)
    PROVE  IInv'
<1>1. DOMAIN t' = Members /\ t'[m] = v /\ \A n \in Members : n # m => t'[n] = t[n]
  BY DEF IInv, Downloads
<1>2. Downloads'
  BY <1>1 DEF IInv, Downloads, Downloading
<1> QED
  BY <1>2, SameStore, StepLemma

\* The group's part of a member's state does not matter to a download.
LEMMA GroupLemma ==
    ASSUME IInv, NEW m \in Members, NEW x
    PROVE  /\ Downloading([t[m] EXCEPT !.epoch = x]) /\ [t[m] EXCEPT !.epoch = x].file = t[m].file
           /\ Downloading([t[m] EXCEPT !.proposal = x]) /\ [t[m] EXCEPT !.proposal = x].file = t[m].file
           /\ Downloading([t[m] EXCEPT !.gap = x]) /\ [t[m] EXCEPT !.gap = x].file = t[m].file
BY DEF IInv, Downloads, Downloading

\* A member learns of a file that was announced.
LEMMA AnnouncedLemma ==
    ASSUME IInv, NEW m \in Members, store.announced
    PROVE  /\ Downloading([t[m] EXCEPT !.manifest = TRUE])
           /\ [t[m] EXCEPT !.manifest = TRUE].file = t[m].file
<1> DEFINE v == [t[m] EXCEPT !.manifest = TRUE]
<1>1. /\ "manifest" \in DOMAIN v /\ "next" \in DOMAIN v /\ "part" \in DOMAIN v /\ "file" \in DOMAIN v
      /\ v.next = t[m].next /\ v.part = t[m].part /\ v.file = t[m].file
  BY DEF IInv, Downloads, Downloading
<1>2. v.manifest = TRUE
  BY DEF IInv, Downloads, Downloading
<1> HIDE DEF v
<1>3. v.manifest \in BOOLEAN
  BY <1>2, Zenon
<1>4. Downloading(v)
  BY <1>1, <1>3 DEF IInv, Downloads, Downloading
<1> QED
  BY <1>1, <1>4 DEF v

\* Replacing the output file does not touch the download.
LEMMA FileLemma ==
    ASSUME NEW v, Downloading(v), NEW f, NEW z, z = [v EXCEPT !.file = f]
    PROVE  Downloading(z) /\ z.file = f
<1>1. /\ DOMAIN z = DOMAIN v /\ z.file = f
      /\ z.next = v.next /\ z.manifest = v.manifest /\ z.part = v.part
  BY DEF Downloading
<1>2. Downloading(z)
  BY <1>1 DEF Downloading
<1> QED
  BY <1>1, <1>2

\* A download that ends keeps the output file.
LEMMA ClosedLemma ==
    ASSUME IInv, NEW m \in Members, NEW x, NEW v, v = [[t[m] EXCEPT !.next = -1] EXCEPT !.part = x]
    PROVE  Downloading(v) /\ v.file = t[m].file
<1>1. /\ "manifest" \in DOMAIN v /\ "next" \in DOMAIN v /\ "part" \in DOMAIN v /\ "file" \in DOMAIN v
      /\ v.next = -1 /\ v.manifest = t[m].manifest /\ v.file = t[m].file
  BY DEF IInv, Downloads, Downloading
<1>2. v.next \in Int
  BY <1>1
<1>3. Downloading(v)
  BY <1>1, <1>2 DEF IInv, Downloads, Downloading
<1> QED
  BY <1>1, <1>3, Zenon

\* A download that waits for chunk n has the chunks below n.
LEMMA OpenLemma ==
    ASSUME IInv, NEW m \in Members, store.announced, NEW n \in Nat,
           NEW v, v = [[t[m] EXCEPT !.next = n] EXCEPT !.part = 0 .. n - 1]
    PROVE  Downloading(v) /\ v.file = t[m].file
<1>1. /\ "manifest" \in DOMAIN v /\ "next" \in DOMAIN v /\ "part" \in DOMAIN v /\ "file" \in DOMAIN v
      /\ v.next = n /\ v.part = 0 .. n - 1 /\ v.manifest = t[m].manifest /\ v.file = t[m].file
  BY DEF IInv, Downloads, Downloading
<1>2. Downloading(v)
  BY <1>1 DEF IInv, Downloads, Downloading
<1> QED
  BY <1>1, <1>2

\* Counting downloads does not touch them.
LEMMA CountLemma ==
    ASSUME NEW v, Downloading(v), NEW x, NEW z, z = [v EXCEPT !.downloads = x]
    PROVE  Downloading(z) /\ z.file = v.file
<1>1. /\ DOMAIN z = DOMAIN v /\ z.file = v.file
      /\ z.next = v.next /\ z.manifest = v.manifest /\ z.part = v.part
  BY DEF Downloading
<1>2. Downloading(z)
  BY <1>1 DEF Downloading
<1> QED
  BY <1>1, <1>2

\* No output file changes.
SameFiles == \A n \in Members : t'[n].file = t[n].file

\* A member whose file stays leaves all files as they are.
LEMMA FilesLemma ==
    ASSUME IInv, NEW m \in Members, NEW v, t' = [t EXCEPT ![m] = v], v.file = t[m].file
    PROVE  SameFiles
BY DEF IInv, Downloads, SameFiles

\* The file of m is replaced as a whole, or lost.
Saves(m) ==
    /\ store.announced
    /\ t'[m].file \in {Chunks, {}}
    /\ \A n \in Members : n # m => t'[n].file = t[n].file

\* A member that takes a message and does not finish a download
LEMMA MemberStep ==
    ASSUME IInv, NEW m \in Members, down[m] # <<>>, down' = [down EXCEPT ![m] = Tail(@)], store' = store, UpStep,
           NEW v, t' = [t EXCEPT ![m] = v], Downloading(v)
    PROVE  IInv'
<1>1. m \in Clients
  BY Constants
<1>2. DownStep
  BY <1>1, ReceivesLemma, Zenon
<1> QED
  BY <1>2, MemberLemma, Zenon

\* A message that a member ignores changes no file.
LEMMA MemberIdle ==
    ASSUME IInv, NEW m \in Members, down[m] # <<>>, down' = [down EXCEPT ![m] = Tail(@)], store' = store, UpStep,
           t' = t
    PROVE  IInv' /\ SameFiles
<1>1. m \in Clients
  BY Constants
<1>2. DownStep
  BY <1>1, ReceivesLemma, Zenon
<1> QED
  BY <1>2, QuietLemma DEF SameFiles

\* A chunk that is accepted is the next one; with the last the whole file is saved.
LEMMA AcceptLemma ==
    ASSUME IInv, NEW m \in Members, AcceptDownloadedChunk(m)
    PROVE  IInv' /\ (SameFiles \/ Saves(m))
<1> DEFINE i == Head(down[m]).i
           part == t[m].part \cup {i}
<1>1. down[m] # <<>> /\ down' = [down EXCEPT ![m] = Tail(@)] /\ store' = store
  BY DEF AcceptDownloadedChunk, MemberReceives
<1>2. i \in Nat /\ store.announced /\ part = 0 .. i /\ i = t[m].next
  <2>1. t[m].next # -1 /\ t[m].next = i
    BY DEF AcceptDownloadedChunk
  <2>2. i \in Nat /\ store.announced /\ t[m].part = 0 .. i - 1
    BY <2>1 DEF IInv, Downloads, Downloading
  <2> HIDE DEF i
  <2>3. (0 .. i - 1) \cup {i} = 0 .. i
    BY <2>2
  <2> QED
    BY <2>1, <2>2, <2>3
<1>3. CASE Complete(i)
  <2> DEFINE v == [[t[m] EXCEPT !.next = -1] EXCEPT !.part = {}]
  <2>1. PICK f \in {part, {}} : t' = [t EXCEPT ![m] = [@ EXCEPT !.next = -1, !.part = {}, !.file = f]]
    BY <1>3 DEF AcceptDownloadedChunk
  <2>2. [t[m] EXCEPT !.next = -1, !.part = {}, !.file = f] = [v EXCEPT !.file = f]
    BY Zenon
  <2>3. t' = [t EXCEPT ![m] = [v EXCEPT !.file = f]]
    BY <2>1, <2>2, Zenon
  <2>4. Downloading(v)
    <3>1. v = [[t[m] EXCEPT !.next = -1] EXCEPT !.part = {}]
      OBVIOUS
    <3> HIDE DEF v
    <3> QED
      BY <3>1, ClosedLemma, Zenon
  <2>5. UpStep
    BY <1>3, SameUp DEF AcceptDownloadedChunk
  <2>6. f \in {Chunks, {}}
    <3>1. i + 1 = ChunkCount
      BY <1>3 DEF Complete
    <3> HIDE DEF i, part
    <3>2. 0 .. i = 0 .. ChunkCount - 1
      BY <1>2, <3>1, Constants
    <3> QED
      BY <1>2, <2>1, <3>2, Zenon DEF Chunks
  <2> DEFINE w == [v EXCEPT !.file = f]
  <2>7. t' = [t EXCEPT ![m] = w] /\ Downloading(w) /\ w.file = f
    <3>1. t' = [t EXCEPT ![m] = w] /\ w = [v EXCEPT !.file = f]
      BY <2>3, Zenon
    <3> HIDE DEF v, w
    <3> QED
      BY <2>4, <3>1, FileLemma, Zenon
  <2> HIDE DEF i, part, v, w
  <2>8. IInv'
    BY <1>1, <2>5, <2>7, MemberStep, Zenon
  <2>9. Saves(m)
    <3>1. t'[m] = w /\ \A n \in Members : n # m => t'[n] = t[n]
      BY <2>7 DEF IInv, Downloads
    <3> QED
      BY <1>2, <2>6, <2>7, <3>1, Zenon DEF Saves
  <2> QED
    BY <2>8, <2>9
<1>4. CASE ~Complete(i)
  <2> DEFINE n == i + 1
             v == [[t[m] EXCEPT !.next = n] EXCEPT !.part = 0 .. n - 1]
  <2>1. /\ t' = [t EXCEPT ![m] = [@ EXCEPT !.next = n, !.part = part]]
        /\ MemberSends(m, Message("download", n, 0))
    BY <1>4 DEF AcceptDownloadedChunk
  <2>2. UpStep
    BY <2>1, MemberSendsLemma
  <2> HIDE DEF i, part
  <2>3. n \in Nat /\ part = 0 .. n - 1
    BY <1>2
  <2> HIDE DEF n
  <2>4. [t[m] EXCEPT !.next = n, !.part = part] = v
    BY <2>3, Zenon
  <2>5. t' = [t EXCEPT ![m] = v]
    BY <2>1, <2>4, Zenon
  <2>6. Downloading(v) /\ v.file = t[m].file
    <3>1. v = [[t[m] EXCEPT !.next = n] EXCEPT !.part = 0 .. n - 1]
      OBVIOUS
    <3> HIDE DEF v
    <3> QED
      BY <1>2, <2>3, <3>1, OpenLemma, Zenon
  <2> HIDE DEF v
  <2> QED
    BY <1>1, <2>2, <2>5, <2>6, MemberStep, FilesLemma, Zenon
<1> QED
  BY <1>3, <1>4

\* Every handler of a member keeps the invariant, and files stay or are saved whole.
LEMMA MemberActionLemma ==
    ASSUME IInv, Member
    PROVE  IInv' /\ store' = store /\ (SameFiles \/ \E m \in Members : Saves(m))
<1> PICK m \in Members :
        \/ ReceiveWelcome(m) \/ ReceiveProposal(m) \/ ReceiveCommit(m) \/ ReceiveManifest(m)
        \/ AcceptDownloadedChunk(m) \/ RejectDownloadedChunk(m) \/ DownloadRefused(m)
  BY DEF Member
<1>1. down[m] # <<>> /\ down' = [down EXCEPT ![m] = Tail(@)] /\ store' = store
  BY DEF ReceiveWelcome, ReceiveProposal, ReceiveCommit, ReceiveManifest, AcceptDownloadedChunk,
         RejectDownloadedChunk, DownloadRefused, MemberReceives
<1>2. CASE ReceiveWelcome(m)
  <2>1. UpStep
    BY <1>2, MemberSendsLemma, SameUp DEF ReceiveWelcome
  <2>2. CASE t' = t
    BY <1>1, <2>1, <2>2, MemberIdle, Zenon
  <2>3. CASE t' = [t EXCEPT ![m].epoch = Head(down[m]).epoch]
    <3> DEFINE v == [t[m] EXCEPT !.epoch = Head(down[m]).epoch]
    <3>1. t' = [t EXCEPT ![m] = v] /\ Downloading(v) /\ v.file = t[m].file
      BY <2>3, GroupLemma, Zenon
    <3> HIDE DEF v
    <3> QED
      BY <1>1, <2>1, <3>1, MemberStep, FilesLemma, Zenon
  <2> QED
    BY <1>2, <2>2, <2>3 DEF ReceiveWelcome
<1>3. CASE ReceiveProposal(m)
  <2>1. UpStep
    BY <1>3, SameUp DEF ReceiveProposal
  <2>2. CASE t' = t
    BY <1>1, <2>1, <2>2, MemberIdle, Zenon
  <2>3. CASE t' = [t EXCEPT ![m].proposal = Head(down[m]).epoch]
    <3> DEFINE v == [t[m] EXCEPT !.proposal = Head(down[m]).epoch]
    <3>1. t' = [t EXCEPT ![m] = v] /\ Downloading(v) /\ v.file = t[m].file
      BY <2>3, GroupLemma, Zenon
    <3> HIDE DEF v
    <3> QED
      BY <1>1, <2>1, <3>1, MemberStep, FilesLemma, Zenon
  <2> QED
    BY <1>3, <2>2, <2>3 DEF ReceiveProposal
<1>4. CASE ReceiveCommit(m)
  <2>1. UpStep
    BY <1>4, SameUp DEF ReceiveCommit
  <2>2. CASE t' = t
    BY <1>1, <2>1, <2>2, MemberIdle, Zenon
  <2>3. CASE t' = [t EXCEPT ![m].epoch = Head(down[m]).epoch]
    <3> DEFINE v == [t[m] EXCEPT !.epoch = Head(down[m]).epoch]
    <3>1. t' = [t EXCEPT ![m] = v] /\ Downloading(v) /\ v.file = t[m].file
      BY <2>3, GroupLemma, Zenon
    <3> HIDE DEF v
    <3> QED
      BY <1>1, <2>1, <3>1, MemberStep, FilesLemma, Zenon
  <2> QED
    BY <1>4, <2>2, <2>3 DEF ReceiveCommit
<1>5. CASE ReceiveManifest(m)
  <2>1. UpStep
    BY <1>5, SameUp DEF ReceiveManifest
  <2>2. CASE t' = t
    BY <1>1, <2>1, <2>2, MemberIdle, Zenon
  <2>3. CASE t' = [t EXCEPT ![m].manifest = TRUE]
    <3> DEFINE v == [t[m] EXCEPT !.manifest = TRUE]
    <3>1. store.announced
      <4>1. Head(down[m]) \in Range(down[m]) /\ Head(down[m]).type = "chat"
        BY <1>1, <1>5, TailQueue, Constants DEF ReceiveManifest, MemberReceives, IInv, Queues
      <4> QED
        BY <4>1 DEF IInv, Causes
    <3>2. t' = [t EXCEPT ![m] = v] /\ Downloading(v) /\ v.file = t[m].file
      BY <2>3, <3>1, AnnouncedLemma, Zenon
    <3> HIDE DEF v
    <3> QED
      BY <1>1, <2>1, <3>2, MemberStep, FilesLemma, Zenon
  <2> QED
    BY <1>5, <2>2, <2>3 DEF ReceiveManifest
<1>6. CASE AcceptDownloadedChunk(m)
  BY <1>1, <1>6, AcceptLemma
<1>7. CASE RejectDownloadedChunk(m)
  <2> DEFINE v == [[t[m] EXCEPT !.next = -1] EXCEPT !.part = {}]
  <2>1. t' = [t EXCEPT ![m] = [@ EXCEPT !.next = -1, !.part = {}]]
    BY <1>7 DEF RejectDownloadedChunk
  <2>2. [t[m] EXCEPT !.next = -1, !.part = {}] = v
    BY Zenon
  <2>3. t' = [t EXCEPT ![m] = v]
    BY <2>1, <2>2, Zenon
  <2>4. Downloading(v) /\ v.file = t[m].file
    BY ClosedLemma, Zenon
  <2>5. UpStep
    BY <1>7, SameUp DEF RejectDownloadedChunk
  <2> HIDE DEF v
  <2> QED
    BY <1>1, <2>3, <2>4, <2>5, MemberStep, FilesLemma, Zenon
<1>8. CASE DownloadRefused(m)
  BY <1>1, <1>8, SameUp, MemberIdle, Zenon DEF DownloadRefused
<1> QED
  BY <1>1, <1>2, <1>3, <1>4, <1>5, <1>6, <1>7, <1>8

(***************************************************************************)
(* Users and connections                                                   *)
(***************************************************************************)

\* What the users start keeps the invariant.
LEMMA UserLemma ==
    ASSUME IInv, User
    PROVE  IInv' /\ store' = store /\ SameFiles
<1>1. CASE StartAttachmentUpload
  <2>1. UpStep
    BY <1>1, SetupLemma, SameUp DEF StartAttachmentUpload
  <2>2. down' = down /\ store' = store /\ t' = t
    BY <1>1 DEF StartAttachmentUpload
  <2> QED
    BY <2>1, <2>2, SameDown, QuietLemma DEF SameFiles
<1>2. CASE ResumeAttachment
  <2>1. up' \in {up, [up EXCEPT ![0] = @ \o <<Message("resume", 0, 0)>>]}
    BY <1>2 DEF ResumeAttachment, Ends
  <2>2. down' = down /\ store' = store /\ t' = t
    BY <1>2 DEF ResumeAttachment
  <2>3. UpStep
    BY <2>1, SendsOneLemma
  <2> QED
    BY <2>2, <2>3, SameDown, QuietLemma DEF SameFiles
<1>3. ASSUME NEW m \in Members, StartAttachmentDownload(m)
      PROVE  IInv' /\ store' = store /\ SameFiles
  <2> DEFINE v == [[t[m] EXCEPT !.next = 0] EXCEPT !.part = {}]
             z == [v EXCEPT !.downloads = @ + 1]
  <2>1. store.announced
    BY <1>3 DEF StartAttachmentDownload, IInv, Downloads, Downloading
  <2>2. down' = down /\ store' = store
    BY <1>3 DEF StartAttachmentDownload
  <2>3. UpStep
    BY <1>3, MemberSendsLemma DEF StartAttachmentDownload
  <2>4. t' = [t EXCEPT ![m] = [t[m] EXCEPT !.next = 0, !.part = {}, !.downloads = @ + 1]]
    BY <1>3 DEF StartAttachmentDownload
  <2>5. [t[m] EXCEPT !.next = 0, !.part = {}, !.downloads = @ + 1] = z
    BY Zenon
  <2>6. t' = [t EXCEPT ![m] = z]
    BY <2>4, <2>5, Zenon
  <2>7. Downloading(v) /\ v.file = t[m].file
    <3>1. 0 \in Nat /\ {} = 0 .. 0 - 1
      OBVIOUS
    <3>2. v = [[t[m] EXCEPT !.next = 0] EXCEPT !.part = 0 .. 0 - 1]
      BY <3>1, Zenon
    <3> HIDE DEF v
    <3> QED
      BY <2>1, <3>1, <3>2, OpenLemma, Zenon
  <2>8. Downloading(z) /\ z.file = v.file
    <3> DEFINE x == v.downloads + 1
    <3>1. z = [v EXCEPT !.downloads = x]
      OBVIOUS
    <3> HIDE DEF v, x, z
    <3> QED
      BY <2>7, <3>1, CountLemma, Zenon
  <2>9. DownStep
    BY <2>2, SameDown
  <2> HIDE DEF v, z
  <2> QED
    BY <2>2, <2>3, <2>6, <2>7, <2>8, <2>9, MemberLemma, FilesLemma, Zenon
<1> QED
  BY <1>1, <1>2, <1>3 DEF User

\* Proposals and commits that are sent again are no manifests.
LEMMA ResumePendingLemma ==
    ASSUME IInv, ResumePendingMlsOperations
    PROVE  UpStep
<1> DEFINE open == {i \in Members : s.op[i] \in {"proposal", "commit"}}
           n == Cardinality(open)
<1>1. n \in Nat
  <2>1. IsFiniteSet(Members)
    BY FS_Interval, UploadAssumption DEF Members
  <2>2. IsFiniteSet(open)
    BY <2>1, FS_Subset
  <2> QED
    BY <2>2, FS_CardinalityType
<1>2. PICK order \in Bijection(1 .. n, open) :
        up' = [up EXCEPT ![0] = [k \in 1 .. n |-> Message(s.op[order[k]], order[k], s.epoch + 1)]]
  BY DEF ResumePendingMlsOperations
<1> DEFINE out == [k \in 1 .. n |-> Message(s.op[order[k]], order[k], s.epoch + 1)]
<1>3. up' = [up EXCEPT ![0] = out]
  BY <1>2
<1> HIDE DEF n
<1>4. \A k \in 1 .. n : s.op[order[k]] \notin {"chat", "publish"}
  BY <1>2 DEF Bijection, Injection
<1>5. \A k \in 1 .. n : IsMessage(out[k]) /\ out[k].type \notin {"chat", "publish"}
  BY <1>4, MessageLemma
<1>6. out = [k \in 1 .. n |-> out[k]]
  OBVIOUS
<1> HIDE DEF out
<1>7. Queue(out) /\ Range(out) = {out[k] : k \in 1 .. n}
  BY <1>1, <1>6, ListQueue
<1>8. \A m \in Range(out) : IsMessage(m) /\ m.type \notin {"chat", "publish"}
  BY <1>5, <1>7
<1>9. DOMAIN up' = Clients /\ up'[0] = out /\ \A c \in Clients : c # 0 => up'[c] = up[c]
  BY <1>3, Constants DEF IInv, Queues
<1> QED
  BY <1>7, <1>8, <1>9 DEF IInv, Queues, UpStep

\* Broken connections, their loss and their return keep the invariant.
LEMMA NetworkLemma ==
    ASSUME IInv, Network
    PROVE  IInv' /\ store' = store /\ SameFiles
<1>1. CASE ResumePendingMlsOperations
  <2>1. down' = down /\ store' = store /\ t' = t
    BY <1>1 DEF ResumePendingMlsOperations
  <2> QED
    BY <1>1, <2>1, ResumePendingLemma, SameDown, QuietLemma DEF SameFiles
<1>2. ASSUME NEW m \in Members, MemberReturns(m)
      PROVE  IInv' /\ store' = store /\ SameFiles
  <2> DEFINE q == IF g.pending = m THEN <<Message("welcome", m, g.epoch)>> ELSE <<>>
  <2>1. Queue(q) /\ \A n \in Range(q) : n.type = "welcome"
    BY SmallQueues, MessageLemma
  <2>2. up' = up /\ store' = store /\ t' = t /\ down' = [down EXCEPT ![m] = q]
    BY <1>2 DEF MemberReturns
  <2> HIDE DEF q
  <2>3. DOMAIN down' = Clients /\ down'[m] = q /\ \A c \in Clients : c # m => down'[c] = down[c]
    BY <2>2, Constants DEF IInv, Queues
  <2>4. DownStep
    BY <2>1, <2>3 DEF IInv, Queues, DownStep, Harmless
  <2> QED
    BY <2>2, <2>4, SameUp, QuietLemma DEF SameFiles
<1>3. ASSUME NEW c \in Clients, Break(c)
      PROVE  IInv' /\ store' = store /\ SameFiles
  <2>1. down' = down /\ store' = store /\ up' = [up EXCEPT ![c] = <<>>]
    BY <1>3 DEF Break
  <2>2. DOMAIN up' = Clients /\ up'[c] = <<>> /\ \A d \in Clients : d # c => up'[d] = up[d]
    BY <2>1 DEF IInv, Queues
  <2>3. UpStep
    BY <2>2, SmallQueues DEF IInv, Queues, UpStep
  <2>4. DownStep
    BY <2>1, SameDown
  <2>5. CASE c = 0
    <3>1. t' = t
      BY <1>3, <2>5 DEF Break
    <3> QED
      BY <2>1, <2>3, <2>4, <3>1, QuietLemma DEF SameFiles
  <2>6. CASE c # 0
    <3> DEFINE v == [t[c] EXCEPT !.gap = TRUE]
    <3>1. c \in Members /\ t' = [t EXCEPT ![c].gap = TRUE]
      BY <1>3, <2>6, UploadAssumption DEF Break, Members, Clients
    <3>2. t' = [t EXCEPT ![c] = v] /\ Downloading(v) /\ v.file = t[c].file
      BY <3>1, GroupLemma, Zenon
    <3> HIDE DEF v
    <3> QED
      BY <2>1, <2>3, <2>4, <3>1, <3>2, MemberLemma, FilesLemma, Zenon
  <2> QED
    BY <2>5, <2>6
<1>4. ASSUME NEW c \in Clients, ReceiveFails(c)
      PROVE  IInv' /\ store' = store /\ SameFiles
  <2>1. up' = up /\ store' = store /\ t' = t /\ down' = [down EXCEPT ![c] = <<>>]
    BY <1>4 DEF ReceiveFails
  <2>2. DOMAIN down' = Clients /\ down'[c] = <<>> /\ \A d \in Clients : d # c => down'[d] = down[d]
    BY <2>1 DEF IInv, Queues
  <2>3. DownStep
    BY <2>2, SmallQueues DEF IInv, Queues, DownStep
  <2> QED
    BY <2>1, <2>3, SameUp, QuietLemma DEF SameFiles
<1> QED
  BY <1>1, <1>2, <1>3, <1>4 DEF Network, Returns

(***************************************************************************)
(* Every step keeps the window                                             *)
(***************************************************************************)

\* The setup is under way: nothing was sent, and no job has begun.
SettingUp(w) ==
    /\ WindowFields \subseteq DOMAIN w
    /\ w.started = TRUE /\ w.init = FALSE /\ w.setup \in Nat /\ w.status = "none" /\ Idle(w)

\* The next step of the setup begins no job.
LEMMA SetupWindow ==
    ASSUME NEW w, SettingUp(w), StartNextAttachmentMlsSetup(w)
    PROVE  Window(s')
<1> DEFINE asked == [w EXCEPT !.fetches = @ \cup {w.setup + 1}]
           ready == [w EXCEPT !.setup = -1, !.file = TRUE, !.init = TRUE]
<1>1. \/ s' \in {ready, Tell([ready EXCEPT !.init = FALSE], "error")}
      \/ s' = FailAttachmentMlsSetup(w)
      \/ s' \in {asked, Tell(asked, "mls_error")}
  BY DEF StartNextAttachmentMlsSetup, Ends
<1>2. /\ WindowFields \subseteq DOMAIN s' /\ s'.started = TRUE /\ s'.status = "none"
      /\ s'.job = FALSE /\ s'.next = 0 /\ s'.inFlight = 0 /\ s'.registered = {} /\ s'.chunks = {}
      /\ \/ s'.init = TRUE /\ s'.setup = -1
         \/ s'.init = FALSE /\ s'.setup \in {-1, w.setup}
  BY <1>1, ZenonT(40) DEF SettingUp, Idle, WindowFields, FailAttachmentMlsSetup, Tell
<1>3. {s'.started, s'.init, s'.job} \subseteq BOOLEAN
  BY <1>2, Zenon
<1>4. s'.setup \in Int /\ (s'.init => s'.setup < 0) /\ s'.next \in Nat /\ s'.inFlight \in Int
  BY <1>2 DEF SettingUp
<1> QED
  BY <1>2, <1>3, <1>4 DEF Window, Idle

\* A handler of the sender keeps the window, as the server stores nothing meanwhile.
LEMMA SenderWindow ==
    ASSUME Inv, Sender
    PROVE  Window(s')
<1>0. Window(s)
  BY DEF Inv
<1>1. CASE KeyPackageFetched
  <2>1. SameWindow(s, s')
    BY <1>0, <1>1 DEF KeyPackageFetched, AddMlsMember, Ends, Tell, SameWindow, Window, WindowFields
  <2> QED
    BY <1>0, <2>1, SameWindowLemma
<1>2. CASE ProposalAccepted
  <2>1. SameWindow(s, s')
    BY <1>0, <1>2 DEF ProposalAccepted, Ends, Tell, SameWindow, Window, WindowFields
  <2> QED
    BY <1>0, <2>1, SameWindowLemma
<1>3. CASE CommitAccepted
  <2>1. SameWindow(s, s')
    BY <1>0, <1>3 DEF CommitAccepted, Ends, Tell, SameWindow, Window, WindowFields
  <2> QED
    BY <1>0, <2>1, SameWindowLemma
<1>4. CASE WelcomeAccepted
  <2> DEFINE w == [s EXCEPT !.op[Index] = "none", !.adds = @ \ {Index}]
             v == [w EXCEPT !.setup = @ + 1]
  <2>1. CASE s' = s
    BY <1>0, <2>1
  <2>2. CASE s' = w
    <3>1. SameWindow(s, s')
      BY <1>0, <2>2 DEF SameWindow, Window, WindowFields
    <3> QED
      BY <1>0, <3>1, SameWindowLemma
  <2>3. CASE s.setup >= 0 /\ StartNextAttachmentMlsSetup(v)
    <3>1. /\ WindowFields \subseteq DOMAIN v /\ v.setup = s.setup + 1
          /\ v.started = s.started /\ v.init = s.init /\ v.status = s.status /\ v.job = s.job /\ v.next = s.next
          /\ v.inFlight = s.inFlight /\ v.registered = s.registered /\ v.chunks = s.chunks
      BY <1>0 DEF Window, WindowFields
    <3>2. /\ s.started = TRUE /\ s.init = FALSE /\ s.setup \in Nat /\ s.status = "none" /\ Idle(s)
      BY <1>0, <2>3 DEF Window
    <3> HIDE DEF v
    <3>3. SettingUp(v)
      BY <3>1, <3>2 DEF SettingUp, Idle
    <3> QED
      BY <2>3, <3>3, SetupWindow
  <2> QED
    BY <1>4, <2>1, <2>2, <2>3 DEF WelcomeAccepted
<1>5. CASE MlsRefused
  <2>1. /\ WindowFields \subseteq DOMAIN s' /\ s'.setup \in {s.setup, -1}
        /\ s'.started = s.started /\ s'.init = s.init /\ s'.status = s.status /\ s'.job = s.job
        /\ s'.next = s.next /\ s'.inFlight = s.inFlight /\ s'.registered = s.registered /\ s'.chunks = s.chunks
    BY <1>0, <1>5 DEF MlsRefused, FailAttachmentMlsSetup, Tell, Window, WindowFields
  <2> QED
    BY <1>0, <2>1, SMTT(10), ZenonT(40) DEF Window, Idle, Tight
<1>6. CASE InitAccepted
  <2> DEFINE w == [s EXCEPT !.init = FALSE, !.file = FALSE, !.status = "uploading"]
             v == [w EXCEPT !.job = TRUE]
  <2>1. CASE s' = s
    BY <1>0, <2>1
  <2>2. ASSUME s.init
        PROVE  /\ Begun(w) /\ w.registered = {} /\ w.next = 0 /\ w.inFlight = 0
               /\ Begun(v) /\ v.registered = {} /\ v.next = 0 /\ v.inFlight = 0
               /\ Begun(Tell(w, "error")) /\ Tell(w, "error").registered = {}
    <3>1. /\ s.started = TRUE /\ s.setup \in Int /\ s.setup < 0 /\ Idle(s) /\ WindowFields \subseteq DOMAIN s
      BY <1>0, <2>2 DEF Window
    <3>2. /\ WindowFields \subseteq DOMAIN w /\ w.started = TRUE /\ w.setup = s.setup /\ w.init = FALSE
          /\ w.status = "uploading" /\ w.job = FALSE /\ w.next = 0 /\ w.inFlight = 0 /\ w.registered = {}
      BY <3>1 DEF WindowFields, Idle
    <3> HIDE DEF w
    <3>3. /\ WindowFields \subseteq DOMAIN v /\ v.started = TRUE /\ v.setup = s.setup /\ v.init = FALSE
          /\ v.status = "uploading" /\ v.job = TRUE /\ v.next = 0 /\ v.inFlight = 0 /\ v.registered = {}
      BY <3>2 DEF WindowFields
    <3> DEFINE u == Tell(w, "error")
    <3>4. /\ WindowFields \subseteq DOMAIN u /\ u.started = TRUE /\ u.setup = s.setup /\ u.init = FALSE
          /\ u.status = "uploading" /\ u.job = w.job /\ u.next = 0 /\ u.inFlight = 0 /\ u.registered = {}
      BY <3>2 DEF WindowFields, Tell
    <3> HIDE DEF v, u
    <3>5. w.job \in BOOLEAN /\ v.job \in BOOLEAN
      BY <3>2, <3>3, Zenon
    <3>6. Begun(w)
      BY <3>1, <3>2, <3>5 DEF Begun
    <3>7. Begun(v)
      BY <3>1, <3>3, <3>5 DEF Begun
    <3>8. Begun(u)
      BY <3>1, <3>4, <3>5 DEF Begun
    <3> QED
      BY <3>2, <3>3, <3>4, <3>6, <3>7, <3>8, Zenon DEF u
  <2>3. CASE s.init /\ s' \in {w, Tell(w, "error")}
    BY <2>2, <2>3, BegunLemma
  <2>4. CASE s.init /\ SendNextAttachmentChunk(v)
    <3>1. Begun(v) /\ v.registered = {} /\ v.next = 0 /\ v.inFlight = 0
      BY <2>2, <2>4
    <3> HIDE DEF v
    <3>2. Tight(v)
      BY <3>1, FS_EmptySet DEF Tight
    <3> QED
      BY <2>4, <3>1, <3>2, ChunkWindow
  <2> QED
    BY <1>6, <2>1, <2>3, <2>4 DEF InitAccepted
<1>7. CASE InitRefused
  <2>1. /\ WindowFields \subseteq DOMAIN s' /\ s'.setup = s.setup /\ s'.init = FALSE
        /\ s'.started = s.started /\ s'.status = s.status /\ s'.job = s.job
        /\ s'.next = s.next /\ s'.inFlight = s.inFlight /\ s'.registered = s.registered /\ s'.chunks = s.chunks
    BY <1>0, <1>7 DEF InitRefused, Tell, Window, WindowFields
  <2>2. {s'.started, s'.init, s'.job} \subseteq BOOLEAN
    BY <1>0, <2>1, Zenon DEF Window
  <2> QED
    BY <1>0, <2>1, <2>2 DEF Window, Idle, Tight
<1>8. CASE ChunkAccepted
  <2> DEFINE i == Index
             w == [s EXCEPT !.chunks = @ \ {i}, !.registered = @ \ {i}]
             v == Counted(i)
             done == [v EXCEPT !.job = FALSE, !.manifest = TRUE]
  <2>1. CASE s' = s
    BY <1>0, <2>1
  <2>2. \/ s' = s
        \/ i \in s.chunks /\ ~(i \in s.registered /\ s.status = "uploading") /\ s' = w
        \/ i \in s.chunks /\ ~s.job /\ s' = v
        \/ i \in s.registered /\ s.status = "uploading" /\ s.job /\ s' \in {done, Tell(done, "error")}
        \/ i \in s.registered /\ s.status = "uploading" /\ s.job /\ SendNextAttachmentChunk(v)
    BY <1>8 DEF ChunkAccepted, Ends, Counted
  <2>3. down[0] # <<>> /\ Head(down[0]).type = "chunk" /\ Head(down[0]).ok = TRUE /\ i = Head(down[0]).i
    BY <1>8 DEF ChunkAccepted, Receives, Index
  <2> HIDE DEF i
  <2>4. i \in s.chunks => Begun(s)
    BY <1>0, HasBegun DEF Window, Idle
  <2>5. CASE i \in s.chunks /\ ~(i \in s.registered /\ s.status = "uploading") /\ s' = w
    <3>1. /\ DOMAIN s' = DOMAIN s /\ s'.setup = s.setup /\ s'.init = s.init
          /\ s'.started = s.started /\ s'.status = s.status /\ s'.job = s.job
          /\ s'.next = s.next /\ s'.inFlight = s.inFlight /\ s'.registered = s.registered \ {i}
      BY <1>0, <2>5 DEF Window, WindowFields
    <3>2. Begun(s')
      BY <2>4, <2>5, <3>1 DEF Begun
    <3>3. s.status = "uploading" => s'.registered = s.registered
      BY <2>5, <3>1
    <3> QED
      BY <1>0, <3>1, <3>2, <3>3, BegunLemma DEF Window, Tight
  <2>6. CASE i \in s.chunks /\ ~s.job /\ s' = v
    <3>1. /\ DOMAIN s' = DOMAIN s /\ s'.setup = s.setup /\ s'.init = s.init
          /\ s'.started = s.started /\ s'.status \in {s.status, "completed"} /\ s'.job = s.job
          /\ s'.next = s.next /\ s'.inFlight = s.inFlight
      BY <1>0, <2>6 DEF Window, WindowFields, Counted
    <3>2. Begun(s') /\ s'.job = FALSE
      BY <1>0, <2>4, <2>6, <3>1 DEF Begun, Window
    <3> QED
      BY <3>2, BegunLemma
  <2>7. ASSUME i \in s.registered, s.status = "uploading", s.job
        PROVE  Begun(v) /\ Tight(v)
    <3>1. s.job = TRUE
      BY <1>0, <2>7 DEF Window
    <3> QED
      BY <2>3, <2>7, <3>1, CountedLemma
  <2> HIDE DEF v
  <2>8. CASE i \in s.registered /\ s.status = "uploading" /\ s.job /\ s' \in {done, Tell(done, "error")}
    <3>1. /\ DOMAIN s' = DOMAIN v /\ s'.setup = v.setup /\ s'.init = v.init
          /\ s'.started = v.started /\ s'.status = v.status /\ s'.job = FALSE
          /\ s'.next = v.next /\ s'.inFlight = v.inFlight
      BY <2>7, <2>8 DEF Begun, WindowFields, Tell
    <3>2. s'.job \in BOOLEAN
      BY <3>1, Zenon
    <3>3. Begun(s')
      BY <2>7, <2>8, <3>1, <3>2 DEF Begun
    <3> QED
      BY <3>1, <3>3, BegunLemma
  <2>9. CASE i \in s.registered /\ s.status = "uploading" /\ s.job /\ SendNextAttachmentChunk(v)
    BY <2>7, <2>9, ChunkWindow
  <2> QED
    BY <2>1, <2>2, <2>5, <2>6, <2>8, <2>9
<1>9. CASE ChunkRefused
  <2>1. CASE Index \in s.chunks
    <3>1. Begun(s)
      BY <1>0, <2>1, HasBegun DEF Window, Idle
    <3>2. /\ DOMAIN s' = DOMAIN s /\ s'.setup = s.setup /\ s'.init = s.init
          /\ s'.started = s.started /\ s'.status \in {"failed", "completed"} /\ s'.job = FALSE
          /\ s'.next = s.next /\ s'.inFlight = s.inFlight
      BY <1>9, <2>1, <3>1 DEF ChunkRefused, TransferFails, Tell, Begun, WindowFields
    <3>3. s'.job \in BOOLEAN
      BY <3>2, Zenon
    <3>4. Begun(s')
      BY <3>1, <3>2, <3>3 DEF Begun
    <3> QED
      BY <3>2, <3>4, BegunLemma
  <2>2. CASE Index \notin s.chunks
    <3>1. SameWindow(s, s')
      BY <1>0, <1>9, <2>2 DEF ChunkRefused, Tell, SameWindow, Window, WindowFields
    <3> QED
      BY <1>0, <3>1, SameWindowLemma
  <2> QED
    BY <2>1, <2>2
<1>10. CASE CommitConfirmed \/ CommitRefused \/ ResumeRefused
  <2>1. SameWindow(s, s')
    BY <1>0, <1>10 DEF CommitConfirmed, CommitRefused, ResumeRefused, Ends, Tell, SameWindow, Window, WindowFields
  <2> QED
    BY <1>0, <2>1, SameWindowLemma
<1>11. CASE ResumeAnswered
  <2>1. CASE s.status # "uploading"
    BY <1>0, <1>11, <2>1 DEF ResumeAnswered
  <2>2. CASE s.status = "uploading"
    <3>1. /\ DOMAIN s' = DOMAIN s /\ s'.setup = s.setup /\ s'.init = s.init
          /\ s'.started = s.started /\ s'.status \in {"uploading", "completed"} /\ s'.job = s.job
          /\ s'.next = s.next /\ s'.inFlight = s.inFlight /\ s'.registered = {}
      BY <1>0, <1>11, <2>2 DEF ResumeAnswered, Window, WindowFields
    <3>2. Begun(s')
      BY <1>0, <2>2, <3>1, HasBegun DEF Begun
    <3> QED
      BY <3>1, <3>2, BegunLemma
  <2> QED
    BY <2>1, <2>2
<1> QED
  BY <1>1, <1>2, <1>3, <1>4, <1>5, <1>6, <1>7, <1>8, <1>9, <1>10, <1>11 DEF Sender

\* So does what the users and the network do to the sender.
LEMMA OthersWindow ==
    ASSUME Window(s), User \/ Network, s' # s
    PROVE  Window(s')
<1>1. CASE StartAttachmentUpload
  <2> DEFINE w == [s EXCEPT !.started = TRUE, !.setup = 0]
             v == [w EXCEPT !.fetches = {1}]
  <2>1. ~s.started /\ (StartNextAttachmentMlsSetup(w) \/ s' = Tell(v, "mls_error"))
    BY <1>1 DEF StartAttachmentUpload
  <2>2. /\ WindowFields \subseteq DOMAIN w /\ w.started = TRUE /\ w.setup = 0 /\ w.init = s.init
        /\ w.status = s.status /\ w.job = s.job /\ w.next = s.next /\ w.inFlight = s.inFlight
        /\ w.registered = s.registered /\ w.chunks = s.chunks
    BY DEF Window, WindowFields
  <2>3. s.init = FALSE /\ s.status = "none" /\ Idle(s)
    BY <2>1 DEF Window
  <2> HIDE DEF w
  <2>4. SettingUp(w)
    BY <2>2, <2>3 DEF SettingUp, Idle
  <2>5. CASE s' = Tell(v, "mls_error")
    <3>1. SameWindow(w, s')
      BY <2>2, <2>5 DEF SameWindow, WindowFields, Tell
    <3>2. {w.started, w.init, w.job} \subseteq BOOLEAN
      BY <2>2, <2>3, Zenon DEF Idle
    <3>3. Window(w)
      BY <2>4, <3>2, SMTT(10), ZenonT(40) DEF Window, SettingUp, Idle
    <3> QED
      BY <3>1, <3>3, SameWindowLemma
  <2> QED
    BY <2>1, <2>4, <2>5, SetupWindow
<1>2. CASE ~StartAttachmentUpload
  <2>1. \/ ResumeAttachment \/ ResumePendingMlsOperations
        \/ \E c \in Clients : ReceiveFails(c)
    BY <1>2 DEF User, Network, Returns, StartAttachmentDownload, MemberReturns, Break
  <2>2. SameWindow(s, s')
    BY <2>1 DEF ResumeAttachment, ResumePendingMlsOperations, ReceiveFails, Ends, Tell,
                SameWindow, Window, WindowFields
  <2> QED
    BY <2>2, SameWindowLemma
<1> QED
  BY <1>1, <1>2

\* No step breaks the window.
LEMMA WindowLemma ==
    ASSUME Inv, [Next]_vars
    PROVE  Window(s)'
<1>0. Window(s) /\ IInv
  BY DEF Inv
<1>1. CASE s' = s
  <2>1. store' = store \/ HandleAttachmentInit \/ HandleAttachmentChunk \/ HandleAttachmentCommit \/ HandleChat
    BY <1>0, SenderLemma, MemberActionLemma, UserLemma, NetworkLemma, ServerQuiet
       DEF Next, Server, Answer, vars
  <2>2. Grows
    BY <1>0, <2>1 DEF Grows, IInv, Stored, HandleAttachmentInit, HandleAttachmentChunk,
                      HandleAttachmentCommit, HandleChat
  <2> QED
    BY <1>0, <1>1, <2>2, StoreWindow
<1>2. CASE s' # s
  <2>1. Sender \/ User \/ Network
    <3>1. Server => s' = s
      BY DEF Server, Answer, Refuse, HandleFetch, HandleProposal, HandleCommit, HandleWelcome,
             HandleWelcomeAccept, HandleAttachmentInit, HandleAttachmentChunk, HandleAttachmentResume,
             HandleAttachmentCommit, HandleChat, HandleAttachmentDownload, Delivers
    <3>2. Member => s' = s
      BY DEF Member, ReceiveWelcome, ReceiveProposal, ReceiveCommit, ReceiveManifest, AcceptDownloadedChunk,
             RejectDownloadedChunk, DownloadRefused, MemberReceives
    <3> QED
      BY <1>2, <3>1, <3>2 DEF Next, vars
  <2>2. store' = store
    BY <1>0, <2>1, SenderLemma, UserLemma, NetworkLemma
  <2>3. Window(s')
    BY <1>0, <1>2, <2>1, SenderWindow, OthersWindow
  <2> QED
    BY <2>2, <2>3 DEF Window, Idle, Tight
<1> QED
  BY <1>1, <1>2

\* No job has begun at first.
LEMMA InitWindow == Init => Window(s)
<1> SUFFICES ASSUME Init
             PROVE  Window(s)
  OBVIOUS
<1>1. /\ WindowFields \subseteq DOMAIN s /\ s.started = FALSE /\ s.setup = -1 /\ s.init = FALSE
      /\ s.status = "none" /\ s.job = FALSE /\ s.next = 0 /\ s.inFlight = 0 /\ s.registered = {} /\ s.chunks = {}
  BY DEF Init, WindowFields
<1>2. {s.started, s.init, s.job} \subseteq BOOLEAN
  BY <1>1, Zenon
<1>3. s.setup \in Int /\ ~(s.setup >= 0)
  BY <1>1
<1> QED
  BY <1>1, <1>2, <1>3 DEF Window, Idle

(***************************************************************************)
(* The theorems                                                            *)
(***************************************************************************)

Files == [m \in Members |-> t[m].file]

\* A step that leaves the store and the files alone is a stutter of FileExchange.
LEMMA SameExchange ==
    ASSUME store' = store, SameFiles
    PROVE  UNCHANGED Exchange!vars
<1>1. Files' = Files
  BY DEF Files, SameFiles
<1> QED
  BY <1>1 DEF Exchange!vars, Files

\* A step in which one member saves is a step of FileExchange.
LEMMA SaveExchange ==
    ASSUME store' = store, NEW m \in Members, Saves(m)
    PROVE  Exchange!Next
<1>1. Files' \in {[Files EXCEPT ![m] = Chunks], [Files EXCEPT ![m] = {}]}
  <2>1. /\ DOMAIN Files' = Members /\ DOMAIN Files = Members
        /\ Files'[m] \in {Chunks, {}} /\ \A n \in Members : n # m => Files'[n] = Files[n]
        /\ Files = [n \in Members |-> Files[n]] /\ Files' = [n \in Members |-> Files'[n]]
    BY DEF Files, Saves
  <2> QED
    BY <2>1
<1>2. store.announced
  BY DEF Saves
<1>3. Exchange!Save(m)
  BY <1>1, <1>2 DEF Exchange!Save, Files
<1> QED
  BY <1>3 DEF Exchange!Next

\* Every handler of the server is a step of FileExchange or a stutter.
LEMMA ServerLemma ==
    ASSUME IInv, Server
    PROVE  IInv' /\ (Exchange!Next \/ UNCHANGED Exchange!vars)
<1>1. HandleAttachmentInit \/ HandleAttachmentChunk \/ HandleAttachmentCommit \/ HandleChat => t' = t
  <2>1. HandleAttachmentInit => t' = t
    BY DEF HandleAttachmentInit, Delivers
  <2>2. HandleAttachmentChunk => t' = t
    BY DEF HandleAttachmentChunk, Delivers
  <2>3. HandleAttachmentCommit => t' = t
    BY DEF HandleAttachmentCommit, Delivers
  <2>4. HandleChat => t' = t
    BY DEF HandleChat, Delivers
  <2> QED
    BY <2>1, <2>2, <2>3, <2>4
<1>2. t' = t => SameFiles /\ Files' = Files
  BY DEF SameFiles, Files
<1>3. CASE \/ HandleFetch \/ HandleProposal \/ HandleCommit \/ HandleWelcome \/ HandleAttachmentResume
           \/ \E c \in Members : HandleWelcomeAccept(c) \/ HandleAttachmentDownload(c)
           \/ \E c \in Clients : Refuse(c)
  BY <1>2, <1>3, ServerQuiet, SameExchange
<1>4. CASE HandleAttachmentInit
  <2>1. store'.stored = store.stored /\ store'.committed = store.committed /\ store'.announced = store.announced
    BY <1>4 DEF HandleAttachmentInit, IInv, Stored
  <2>2. UNCHANGED Exchange!vars
    BY <1>1, <1>2, <1>4, <2>1 DEF Exchange!vars, Files
  <2> QED
    BY <1>4, <2>2, StoreLemma
<1>5. CASE HandleAttachmentChunk
  <2> DEFINE i == Head(up[0]).i
  <2>1. /\ i \in Chunks /\ ~store.committed /\ store'.stored = store.stored \cup {i}
        /\ store'.committed = store.committed /\ store'.announced = store.announced
    BY <1>5 DEF HandleAttachmentChunk, IInv, Stored
  <2> HIDE DEF i
  <2>2. Exchange!Store(i)
    BY <1>1, <1>2, <1>5, <2>1 DEF Exchange!Store, Files
  <2> QED
    BY <1>5, <2>1, <2>2, ChunkStored DEF Exchange!Next
<1>6. CASE HandleAttachmentCommit
  <2>1. /\ store.stored = Chunks /\ store'.stored = store.stored
        /\ store'.committed = TRUE /\ store'.announced = store.announced
    BY <1>6 DEF HandleAttachmentCommit, IInv, Stored
  <2>2. Exchange!Publish
    BY <1>1, <1>2, <1>6, <2>1 DEF Exchange!Publish, Files
  <2> QED
    BY <1>6, <2>2, PublishLemma DEF Exchange!Next
<1>7. CASE HandleChat
  <2>1. store'.stored = store.stored /\ store'.committed = store.committed /\ store'.announced = TRUE
    BY <1>7 DEF HandleChat, IInv, Stored
  <2>2. Exchange!Announce
    BY <1>1, <1>2, <1>7, <2>1, AnnounceLemma DEF Exchange!Announce, Files
  <2> QED
    BY <1>7, <2>2, AnnounceLemma DEF Exchange!Next
<1> QED
  BY <1>3, <1>4, <1>5, <1>6, <1>7 DEF Server, Answer

\* Every step of SecureUpload is a step of FileExchange or a stutter.
LEMMA NextLemma ==
    ASSUME IInv, Window(s), [Next]_vars
    PROVE  IInv' /\ (Exchange!Next \/ UNCHANGED Exchange!vars)
<1>1. CASE Sender
  BY <1>1, SenderLemma, SameExchange DEF SameFiles
<1>2. CASE Server
  BY <1>2, ServerLemma
<1>3. CASE Member
  BY <1>3, MemberActionLemma, SameExchange, SaveExchange
<1>4. CASE User
  BY <1>4, UserLemma, SameExchange
<1>5. CASE Network
  BY <1>5, NetworkLemma, SameExchange
<1>6. CASE UNCHANGED vars
  BY <1>6, SameUp, SameDown, QuietLemma, SameExchange DEF vars, SameFiles
<1> QED
  BY <1>1, <1>2, <1>3, <1>4, <1>5, <1>6 DEF Next

\* For every number of members and chunks, every window and any number of broken
\* connections and downloads: nobody is told of the file before it is committed,
\* a download under way holds just the chunks before the one it waits for, and
\* the sender's count of chunks in flight covers every chunk the server lacks.
THEOREM CausesHold == Spec => []Inv
<1>1. Init => Inv
  BY InitInv, InitWindow DEF Inv
<1>2. Inv /\ [Next]_vars => Inv'
  BY NextLemma, WindowLemma DEF Inv
<1> QED
  BY <1>1, <1>2, PTL DEF Spec

\* The commit is asked for only when the server has every chunk, however the
\* window, lost connections, refusals and resumes interleave (the completion
\* test in processAttachmentMessage, sendAttachmentCommit).
THEOREM WholeFilesCommitted == Spec => []CommitsWholeFiles
<1>1. Inv => CommitsWholeFiles
  <2> SUFFICES ASSUME Inv, NEW k \in DOMAIN up[0], up[0][k].type = "publish"
               PROVE  store.stored = Chunks
    BY DEF CommitsWholeFiles
  <2>1. up[0][k] \in Range(up[0])
    BY DEF Range
  <2> QED
    BY <2>1 DEF Inv, IInv, Causes
<1> QED
  BY <1>1, CausesHold, PTL

\* The worker, the server and the members together implement FileExchange: the
\* server's handlers for chunks, commit and chat are its Store, Publish and
\* Announce, the last chunk of a download is its Save, and every other step,
\* each loss and each refusal among them, changes nothing of it.
THEOREM Implements == Spec => ImplementsFileExchange
<1>1. Init => Exchange!Init
  <2> SUFFICES ASSUME Init
               PROVE  Exchange!Init
    OBVIOUS
  <2>1. store.stored = {} /\ store.committed = FALSE /\ store.announced = FALSE
    BY DEF Init
  <2>2. Files = [m \in Members |-> {}]
    BY DEF Init, Files
  <2> QED
    BY <2>1, <2>2 DEF Exchange!Init, Files
<1>2. Inv /\ [Next]_vars => [Exchange!Next]_(Exchange!vars)
  BY NextLemma DEF Inv
<1> QED
  BY <1>1, <1>2, CausesHold, PTL DEF Spec, Exchange!Spec, ImplementsFileExchange
=============================================================================
