----------------------- MODULE AttachmentStoreProofs -----------------------
(***************************************************************************)
(* Proofs of the attachment store's safety properties for any number of    *)
(* uploads and rooms, any chunks and any limits.                           *)
(*                                                                         *)
(* CommittedIsWhole needs to know what an operation between its two steps  *)
(* has already done (InProgress), and both it and the quota need the link  *)
(* between the rows of an upload and of its attachment (OpenUploads).      *)
(* That the quota balances exactly is a sum over uploads, taken as the     *)
(* number of their chunks; it is finite as InitializeAttachment records    *)
(* one upload at a time (FinitelyMany).                                    *)
(***************************************************************************)
EXTENDS AttachmentStore, FiniteSetTheorems, TLAPS

\* A row of attachment_uploads belongs to an attachment that is not committed.
OpenUploads ==
    \A u \in Uploads :
        upload[u] # "none" => /\ attachment[u] = "open"
                              /\ room[u] \in Rooms /\ quota[room[u]].row

\* Nothing is charged to a room before it has its row.
UnchargedWithoutRow ==
    \A r \in Rooms : ~quota[r].row => quota[r].reserved = 0 /\ quota[r].used = 0

\* A directory that the commit may make visible.
Whole(u) == u \in published /\ \A i \in Chunks(u) : final[u][i] \in Exact

\* What the operation that holds attachmentMu has done so far.
InProgress ==
    /\ proc.op \in {"store", "commit"} => proc.u \in Uploads
    /\ proc.op = "commit" => upload[proc.u] # "none" /\ Whole(proc.u)
    /\ \A u \in proc.todo : upload[u] = "expired"

IInv ==
    /\ TypeOK
    /\ OpenUploads
    /\ UnchargedWithoutRow
    /\ QuotaWithinLimit
    /\ InProgress
    /\ CommittedIsWhole

-----------------------------------------------------------------------------
\* A directory without chunks has the type of a directory.
LEMMA EmptyType == Empty \in [Index -> Blobs \cup {None}]
BY DEF Empty

\* The record of no operation in progress has its type.
LEMMA IdleType ==
    Idle \in [op : {"idle", "store", "commit", "clean"},
              u : Uploads \cup {None}, i : Index, b : Blobs \cup {None},
              todo : SUBSET Uploads]
BY AttachmentAssumption DEF Idle, Index

\* No operation in progress has no work left.
LEMMA IdleFields == Idle.op = "idle" /\ Idle.todo = {}
BY DEF Idle

\* An empty store satisfies the invariant.
LEMMA InitIInv == Init => IInv
<1> SUFFICES ASSUME Init PROVE IInv
  OBVIOUS
<1>1. TypeOK
  BY EmptyType, IdleType, AttachmentAssumption DEF Init, TypeOK, Row
<1>2. OpenUploads /\ InProgress /\ CommittedIsWhole
  BY IdleFields DEF Init, OpenUploads, InProgress, CommittedIsWhole
<1>3. UnchargedWithoutRow /\ QuotaWithinLimit
  BY AttachmentAssumption DEF Init, UnchargedWithoutRow, QuotaWithinLimit
<1> QED BY <1>1, <1>2, <1>3 DEF IInv

\* The rows of an upload decide all but the types; a step that leaves the
\* tables and the published directories alone keeps what depends on them.
LEMMA TablesKeep ==
    ASSUME IInv, TypeOK', UNCHANGED <<tables, published, final>>,
           \/ proc' = proc
           \/ /\ proc'.op \in {"store", "clean", "idle"}
              /\ proc'.op = "store" => proc'.u \in Uploads
              /\ \A u \in proc'.todo : upload[u] = "expired"
    PROVE  IInv'
<1>1. OpenUploads' /\ UnchargedWithoutRow' /\ QuotaWithinLimit' /\ CommittedIsWhole'
  BY DEF IInv, tables, OpenUploads, UnchargedWithoutRow, QuotaWithinLimit,
     CommittedIsWhole, Chunks
<1>2. InProgress'
  BY DEF IInv, tables, InProgress, Whole, Chunks
<1> QED BY <1>1, <1>2 DEF IInv

\* InitializeAttachment keeps every room within its quota.
LEMMA InitializeKeepsIInv ==
    ASSUME IInv, NEW u \in Uploads, NEW r \in Rooms, NEW n \in 0 .. MaxSize + 1,
           InitializeAttachment(u, r, n)
    PROVE  IInv'
<1>1. n \in 1 .. MaxSize /\ MaxSize \in Nat /\ MaxRoom \in Nat /\ MaxSize <= MaxRoom
  BY AttachmentAssumption DEF InitializeAttachment, ValidSize
<1>2. /\ attachment' = [attachment EXCEPT ![u] = "open"]
      /\ upload' = [upload EXCEPT ![u] = "live"]
      /\ room' = [room EXCEPT ![u] = r] /\ size' = [size EXCEPT ![u] = n]
      /\ UNCHANGED <<chunks, partial, published, final, proc>>
      /\ proc = Idle /\ attachment[u] = "none"
  BY DEF InitializeAttachment, files
<1> DEFINE q == quota[r]
<1>3. /\ q \in Row /\ q.reserved \in Int /\ q.used \in Int
      /\ q.reserved + q.used + n <= MaxRoom
      /\ quota' = [quota EXCEPT ![r] = [row |-> TRUE, reserved |-> q.reserved + n,
                                        used |-> q.used]]
  <2>1. q \in Row /\ q.reserved \in Int /\ q.used \in Int
    BY DEF IInv, TypeOK, Row
  <2>2. q.reserved + q.used + n <= MaxRoom
    BY <1>1, <2>1 DEF InitializeAttachment, Reserve, Fits, IInv, UnchargedWithoutRow
  <2>3. quota' = [quota EXCEPT ![r] = [row |-> TRUE, reserved |-> q.reserved + n,
                                        used |-> q.used]]
    BY DEF InitializeAttachment, Reserve
  <2> QED BY <2>1, <2>2, <2>3
<1>4. TypeOK'
  <2>1. [row |-> TRUE, reserved |-> q.reserved + n, used |-> q.used] \in Row
    BY <1>1, <1>3 DEF Row
  <2>2. quota' \in [Rooms -> Row]
    BY <1>3, <2>1 DEF IInv, TypeOK
  <2> QED BY <1>1, <1>2, <2>2 DEF IInv, TypeOK
<1>5. OpenUploads'
  BY <1>2, <1>3 DEF IInv, TypeOK, OpenUploads
<1>6. UnchargedWithoutRow' /\ QuotaWithinLimit'
  BY <1>1, <1>3 DEF IInv, TypeOK, UnchargedWithoutRow, QuotaWithinLimit
<1>7. InProgress'
  BY <1>2, IdleFields DEF InProgress
<1>8. CommittedIsWhole'
  BY <1>2 DEF IInv, TypeOK, CommittedIsWhole, Chunks
<1> QED BY <1>4, <1>5, <1>6, <1>7, <1>8 DEF IInv

\* Storing, recovering and dropping chunks, and faults of the disk, concern the
\* files and the rows of chunks only.
LEMMA ChunkStepKeepsIInv ==
    ASSUME IInv, NEW u \in Uploads, NEW i \in Index, NEW b \in Blobs \cup {None},
           \/ b # None /\ StoreAttachmentChunk(u, i, b)
           \/ b # None /\ RecoverChunk(u, i, b)
           \/ ResumeAttachmentUpload(u)
           \/ DiskFault(u, i, b)
    PROVE  IInv'
<1>1. CASE b # None /\ StoreAttachmentChunk(u, i, b)
  <2> DEFINE p == [op |-> "store", u |-> u, i |-> i, b |-> b, todo |-> {}]
  <2>1. /\ partial' = [partial EXCEPT ![u][i] = b] /\ proc' = p
        /\ UNCHANGED <<tables, chunks, published, final>>
    BY <1>1 DEF StoreAttachmentChunk
  <2>2. TypeOK'
    BY <2>1 DEF IInv, TypeOK, tables
  <2>3. p.op = "store" /\ p.u \in Uploads /\ p.todo = {}
    OBVIOUS
  <2> HIDE DEF p
  <2> QED BY <2>1, <2>2, <2>3, TablesKeep
<1>2. CASE b # None /\ RecoverChunk(u, i, b)
  <2>1. TypeOK' /\ UNCHANGED <<tables, published, final, proc>>
    BY <1>2 DEF RecoverChunk, IInv, TypeOK, tables, files
  <2> QED BY <2>1, TablesKeep
<1>3. CASE ResumeAttachmentUpload(u)
  <2>1. TypeOK' /\ UNCHANGED <<tables, published, final, proc>>
    BY <1>3 DEF ResumeAttachmentUpload, IInv, TypeOK, tables
  <2> QED BY <2>1, TablesKeep
<1>4. CASE DiskFault(u, i, b)
  <2>1. TypeOK' /\ UNCHANGED <<tables, published, final, proc>>
    BY <1>4 DEF DiskFault, IInv, TypeOK, tables
  <2> QED BY <2>1, TablesKeep
<1> QED BY <1>1, <1>2, <1>3, <1>4

\* So does the end of an operation on them, and a crash in any of them.
LEMMA EndKeepsIInv ==
    ASSUME IInv, SaveChunk \/ SaveChunkFails \/ RemoveFiles \/ Crash
    PROVE  IInv'
<1>1. CASE SaveChunk
  <2>1. TypeOK' /\ UNCHANGED <<tables, published, final>> /\ proc' = Idle
    BY <1>1, IdleType DEF SaveChunk, IInv, InProgress, TypeOK, tables, files
  <2> QED BY <2>1, IdleFields, TablesKeep
<1>2. CASE SaveChunkFails
  <2>1. TypeOK' /\ UNCHANGED <<tables, published, final>> /\ proc' = Idle
    BY <1>2, IdleType DEF SaveChunkFails, IInv, InProgress, TypeOK, tables
  <2> QED BY <2>1, IdleFields, TablesKeep
<1>3. CASE RemoveFiles
  <2>1. proc.u \in Uploads /\ proc.op = "clean"
    BY <1>3 DEF RemoveFiles, IInv, TypeOK
  <2>2. TypeOK' /\ UNCHANGED <<tables, published, final>>
    BY <1>3, <2>1, IdleType, EmptyType DEF RemoveFiles, IInv, TypeOK, tables
  <2>3. /\ proc'.op \in {"idle", "clean"}
        /\ \A u \in proc'.todo : upload[u] = "expired"
    BY <1>3, <2>1, IdleFields DEF RemoveFiles, IInv, TypeOK, InProgress
  <2> QED BY <2>2, <2>3, TablesKeep
<1>4. CASE Crash
  <2>1. TypeOK' /\ UNCHANGED <<tables, published, final>> /\ proc' = Idle
    BY <1>4, IdleType DEF Crash, IInv, TypeOK, tables, files
  <2> QED BY <2>1, IdleFields, TablesKeep
<1> QED BY <1>1, <1>2, <1>3, <1>4

\* PublishAttachment only renames a directory in which every chunk was verified,
\* and never onto one that is there.
LEMMA PublishKeepsIInv ==
    ASSUME IInv, NEW u \in Uploads, PublishAttachment(u)
    PROVE  IInv'
<1> DEFINE p == [op |-> "commit", u |-> u, i |-> 0, b |-> None, todo |-> {}]
<1>1. /\ published' = published \cup {u} /\ final' = [final EXCEPT ![u] = partial[u]]
      /\ partial' = [partial EXCEPT ![u] = Empty] /\ proc' = p
      /\ UNCHANGED <<attachment, upload, room, size, quota, chunks>>
      /\ upload[u] = "live" /\ u \notin published /\ AllChunksVerified(u)
  BY DEF PublishAttachment, tables, loadAttachmentUpload, DirectoryFree
<1>2. p.op = "commit" /\ p.u = u /\ p.todo = {}
  OBVIOUS
<1>3. TypeOK'
  BY <1>1, EmptyType, AttachmentAssumption DEF IInv, TypeOK, Index
<1> HIDE DEF p
<1>4. \A i \in Chunks(u) : partial[u][i] \in Exact
  BY <1>1, AttachmentAssumption
     DEF AllChunksVerified, ChunkVerified, Matches, Chunks, Index, IInv, TypeOK
<1>5. Whole(u)'
  BY <1>1, <1>4 DEF Whole, Chunks, IInv, TypeOK
<1>6. InProgress'
  BY <1>1, <1>2, <1>5 DEF InProgress
<1>7. CommittedIsWhole'
  BY <1>1 DEF IInv, TypeOK, CommittedIsWhole, Chunks
<1>8. OpenUploads' /\ UnchargedWithoutRow' /\ QuotaWithinLimit'
  BY <1>1 DEF IInv, OpenUploads, UnchargedWithoutRow, QuotaWithinLimit
<1> QED BY <1>3, <1>6, <1>7, <1>8 DEF IInv

\* The transaction of the commit moves the reservation, so that the sum stays.
LEMMA CommitKeepsIInv ==
    ASSUME IInv, CommitAttachmentUpload
    PROVE  IInv'
<1> DEFINE u == proc.u
           r == room[u]
           n == size[u]
<1>1. /\ u \in Uploads /\ upload[u] # "none" /\ Whole(u) /\ r \in Rooms
      /\ n \in Int /\ quota[r].reserved \in Int /\ quota[r].used \in Int
  BY DEF CommitAttachmentUpload, IInv, InProgress, OpenUploads, TypeOK, Row
<1>2. /\ attachment' = [attachment EXCEPT ![u] = "committed"]
      /\ quota' = MoveQuota(r, n)
      /\ chunks' = [chunks EXCEPT ![u] = Empty]
      /\ upload' = [upload EXCEPT ![u] = "none"]
      /\ proc' = Idle
      /\ UNCHANGED <<room, size, partial, published, final>>
  BY DEF CommitAttachmentUpload, files
<1> HIDE DEF u, r, n
<1>3. quota[r].row
  BY <1>1 DEF IInv, OpenUploads, r
<1> DEFINE q == [row |-> quota[r].row, reserved |-> quota[r].reserved - n,
                 used |-> quota[r].used + n]
<1>4. /\ quota' = [quota EXCEPT ![r] = q] /\ quota \in [Rooms -> Row] /\ q \in Row
      /\ q.reserved + q.used = quota[r].reserved + quota[r].used
  BY <1>1, <1>2 DEF MoveQuota, IInv, TypeOK, Row
<1>5. /\ quota' \in [Rooms -> Row] /\ \A s \in Rooms : (quota'[s].row <=> quota[s].row)
      /\ UnchargedWithoutRow' /\ QuotaWithinLimit'
  <2>1. q.row <=> quota[r].row
    OBVIOUS
  <2> HIDE DEF q
  <2>2. \A s \in Rooms : quota'[s] = IF s = r THEN q ELSE quota[s]
    BY <1>4
  <2>3. UnchargedWithoutRow' /\ \A s \in Rooms : (quota'[s].row <=> quota[s].row)
    BY <1>3, <2>1, <2>2, Zenon DEF IInv, UnchargedWithoutRow
  <2>4. QuotaWithinLimit'
    BY <1>1, <1>4, <2>2 DEF IInv, QuotaWithinLimit
  <2> QED BY <1>4, <2>3, <2>4
<1>6. TypeOK'
  BY <1>1, <1>2, <1>5, EmptyType, IdleType DEF IInv, TypeOK
<1>7. OpenUploads'
  BY <1>1, <1>2, <1>5 DEF IInv, TypeOK, OpenUploads
<1>8. InProgress'
  BY <1>2, IdleFields DEF InProgress
<1>9. CommittedIsWhole'
  BY <1>1, <1>2 DEF IInv, TypeOK, CommittedIsWhole, Whole, Chunks
<1> QED BY <1>5, <1>6, <1>7, <1>8, <1>9 DEF IInv

\* The cleanup lists uploads that are expired,
LEMMA CleanupKeepsIInv ==
    ASSUME IInv, CleanupExpiredAttachmentUploads
    PROVE  IInv'
<1> DEFINE p == [op |-> "clean", u |-> None, i |-> 0, b |-> None, todo |-> Expired]
<1>1. proc' = p /\ UNCHANGED <<tables, chunks, partial, published, final>>
  BY DEF CleanupExpiredAttachmentUploads, files
<1>2. TypeOK'
  BY <1>1, AttachmentAssumption DEF IInv, TypeOK, tables, Expired, Index
<1>3. p.op = "clean" /\ \A u \in p.todo : upload[u] = "expired"
  BY DEF Expired
<1> HIDE DEF p
<1> QED BY <1>1, <1>2, <1>3, TablesKeep

\* and releases the reservation of each.
LEMMA RemoveKeepsIInv ==
    ASSUME IInv, NEW u \in Uploads, RemoveExpired(u)
    PROVE  IInv'
<1> DEFINE r == room[u]
           n == size[u]
<1>1. /\ upload[u] = "expired" /\ r \in Rooms /\ attachment[u] = "open"
      /\ quota[r].row /\ n \in Int /\ n >= 0
      /\ quota[r].reserved \in Int /\ quota[r].used \in Int
  BY AttachmentAssumption
     DEF RemoveExpired, IInv, InProgress, OpenUploads, TypeOK, Row
<1>2. /\ attachment' = [attachment EXCEPT ![u] = "gone"]
      /\ quota' = [quota EXCEPT ![r].reserved = @ - n]
      /\ chunks' = [chunks EXCEPT ![u] = Empty]
      /\ upload' = [upload EXCEPT ![u] = "none"]
      /\ proc' = [proc EXCEPT !.u = u, !.todo = @ \ {u}]
      /\ proc.op = "clean"
      /\ UNCHANGED <<room, size, partial, published, final>>
  BY <1>1 DEF RemoveExpired, files
<1> HIDE DEF r, n
<1>3. /\ quota' \in [Rooms -> Row] /\ \A s \in Rooms : (quota'[s].row <=> quota[s].row)
      /\ UnchargedWithoutRow' /\ QuotaWithinLimit'
  <2> DEFINE q == [quota[r] EXCEPT !.reserved = @ - n]
  <2>1. quota' = [quota EXCEPT ![r] = q] /\ quota \in [Rooms -> Row]
    BY <1>1, <1>2 DEF IInv, TypeOK
  <2>2. /\ q \in Row /\ q.row /\ q.reserved = quota[r].reserved - n
        /\ q.used = quota[r].used
    BY <1>1, <2>1 DEF Row
  <2> HIDE DEF q
  <2>3. \A s \in Rooms : quota'[s] = IF s = r THEN q ELSE quota[s]
    BY <2>1
  <2>4. UnchargedWithoutRow' /\ \A s \in Rooms : (quota'[s].row <=> quota[s].row)
    BY <1>1, <2>2, <2>3, Zenon DEF IInv, UnchargedWithoutRow
  <2>5. QuotaWithinLimit'
    BY <1>1, <2>2, <2>3, AttachmentAssumption DEF IInv, QuotaWithinLimit
  <2> QED BY <2>1, <2>2, <2>4, <2>5
<1>4. TypeOK'
  BY <1>1, <1>2, <1>3, EmptyType DEF IInv, TypeOK
<1>5. OpenUploads'
  BY <1>1, <1>2, <1>3 DEF IInv, TypeOK, OpenUploads
<1>6. InProgress'
  BY <1>2 DEF IInv, TypeOK, InProgress
<1>7. CommittedIsWhole'
  BY <1>1, <1>2 DEF IInv, TypeOK, CommittedIsWhole, Chunks
<1> QED BY <1>3, <1>4, <1>5, <1>6, <1>7 DEF IInv

\* An upload may expire while an operation on it is in progress.
LEMMA ExpireKeepsIInv ==
    ASSUME IInv, NEW u \in Uploads, Expire(u)
    PROVE  IInv'
<1>1. /\ upload[u] = "live" /\ upload' = [upload EXCEPT ![u] = "expired"]
      /\ UNCHANGED <<attachment, room, size, quota, chunks, partial, published,
                     final, proc>>
  BY DEF Expire, files
<1>2. TypeOK' /\ OpenUploads'
  BY <1>1 DEF IInv, TypeOK, OpenUploads
<1>3. UnchargedWithoutRow' /\ QuotaWithinLimit'
  BY <1>1 DEF IInv, UnchargedWithoutRow, QuotaWithinLimit
<1>4. InProgress' /\ CommittedIsWhole'
  BY <1>1 DEF IInv, TypeOK, InProgress, Whole, CommittedIsWhole, Chunks
<1> QED BY <1>2, <1>3, <1>4 DEF IInv

\* A step that changes nothing keeps the invariant.
LEMMA StutterKeepsIInv == IInv /\ UNCHANGED vars => IInv'
BY TablesKeep DEF vars, tables, files, IInv, TypeOK

\* Every operation of the store, and a crash in it, keeps the invariant.
LEMMA NextIInv == IInv /\ [Next]_vars => IInv'
<1> SUFFICES ASSUME IInv, [Next]_vars PROVE IInv'
  OBVIOUS
<1>1. ASSUME NEW u \in Uploads, NEW i \in Index, NEW b \in Blobs,
             StoreAttachmentChunk(u, i, b) \/ RecoverChunk(u, i, b)
      PROVE  IInv'
  BY <1>1, ChunkStepKeepsIInv, AttachmentAssumption
<1>2. ASSUME NEW u \in Uploads, ResumeAttachmentUpload(u) PROVE IInv'
  <2>1. 0 \in Index
    BY AttachmentAssumption DEF Index
  <2> QED BY <1>2, <2>1, ChunkStepKeepsIInv
<1>3. ASSUME NEW u \in Uploads, NEW i \in Index, NEW b \in Blobs \cup {None},
             DiskFault(u, i, b)
      PROVE  IInv'
  BY <1>3, ChunkStepKeepsIInv
<1>4. CASE AllDone \/ UNCHANGED vars
  BY <1>4, StutterKeepsIInv DEF AllDone
<1> QED BY <1>1, <1>2, <1>3, <1>4, InitializeKeepsIInv, PublishKeepsIInv,
           RemoveKeepsIInv, ExpireKeepsIInv, EndKeepsIInv, CommitKeepsIInv,
           CleanupKeepsIInv DEF Next

\* The inductive invariant holds in every reachable state.
THEOREM Consistent == Spec => []IInv
BY InitIInv, NextIInv, PTL DEF Spec

-----------------------------------------------------------------------------
\* Rows and files always have their types.
THEOREM TypeCorrect == Spec => []TypeOK
<1>1. IInv => TypeOK
  BY DEF IInv
<1> QED BY Consistent, <1>1, PTL

\* No room is ever charged more than its quota: InitializeAttachment refuses what
\* would exceed it, and the commit and the cleanup never add to the sum.
THEOREM QuotaCorrect == Spec => []QuotaWithinLimit
<1>1. IInv => QuotaWithinLimit
  BY DEF IInv
<1> QED BY Consistent, <1>1, PTL

\* A committed attachment has its directory with every chunk of the right length,
\* wherever the server crashed and whatever happened to the files before.
THEOREM CommittedCorrect == Spec => []CommittedIsWhole
<1>1. IInv => CommittedIsWhole
  BY DEF IInv
<1> QED BY Consistent, <1>1, PTL

-----------------------------------------------------------------------------
(* The quota balances.                                                     *)

\* The chunks of the uploads in S, whose sizes are sz.
Held(sz, S) == {c \in S \X Index : c[2] < sz[c[1]]}

\* As many uploads as were ever begun.
FinitelyMany == IsFiniteSet({u \in Uploads : attachment[u] # "none"})

Balanced == QuotaBalances /\ FinitelyMany

\* Finitely many uploads hold finitely many chunks.
LEMMA HeldFinite ==
    ASSUME NEW sz, NEW S, IsFiniteSet(S)
    PROVE  IsFiniteSet(Held(sz, S)) /\ Cardinality(Held(sz, S)) \in Nat
<1>1. IsFiniteSet(Index)
  BY FS_Interval, AttachmentAssumption DEF Index
<1>2. IsFiniteSet(S \X Index)
  BY <1>1, FS_Product
<1>3. Held(sz, S) \in SUBSET (S \X Index)
  BY DEF Held
<1>4. IsFiniteSet(Held(sz, S))
  BY <1>2, <1>3, FS_Subset
<1> QED BY <1>4, FS_CardinalityType

\* One more upload holds its own chunks more.
LEMMA HeldMore ==
    ASSUME NEW sz, NEW S, NEW u, IsFiniteSet(S), u \notin S, sz[u] \in 0 .. MaxSize
    PROVE  Cardinality(Held(sz, S \cup {u})) = Cardinality(Held(sz, S)) + sz[u]
<1> DEFINE n == sz[u]
           own == {u} \X (0 .. n - 1)
<1>1. MaxSize \in Nat /\ n \in Nat /\ n <= MaxSize
  BY AttachmentAssumption
<1>2. IsFiniteSet(0 .. n - 1) /\ Cardinality(0 .. n - 1) = n
  <2> HIDE DEF n
  <2>1. n - 1 \in Int /\ 0 \in Int
    BY <1>1
  <2>2. /\ IsFiniteSet(0 .. n - 1)
        /\ Cardinality(0 .. n - 1) = IF 0 > n - 1 THEN 0 ELSE n - 1 - 0 + 1
    BY <2>1, FS_Interval
  <2> QED BY <1>1, <2>2
<1>3. IsFiniteSet({u}) /\ Cardinality({u}) = 1
  BY FS_Singleton
<1>4. IsFiniteSet(own) /\ Cardinality(own) = n
  <2>1. IsFiniteSet(own) /\ Cardinality(own) = Cardinality({u}) * Cardinality(0 .. n - 1)
    BY <1>2, <1>3, FS_Product
  <2> QED BY <1>1, <1>2, <1>3, <2>1
<1>5. IsFiniteSet(Held(sz, S)) /\ Cardinality(Held(sz, S)) \in Nat
  BY HeldFinite
<1>6. Held(sz, S \cup {u}) = Held(sz, S) \cup own
  <2>1. ASSUME NEW c \in (S \cup {u}) \X Index, c[2] < sz[c[1]]
        PROVE  c \in Held(sz, S) \cup own
    <3>1. CASE c[1] = u
      BY <1>1, <2>1, <3>1 DEF Index
    <3>2. CASE c[1] \in S
      BY <2>1, <3>2 DEF Held
    <3> QED BY <3>1, <3>2
  <2>2. ASSUME NEW c \in own
        PROVE  c \in (S \cup {u}) \X Index /\ c[2] < sz[c[1]]
    BY <1>1 DEF Index
  <2>3. \A c \in Held(sz, S) : c \in (S \cup {u}) \X Index /\ c[2] < sz[c[1]]
    BY DEF Held
  <2> HIDE DEF own, n
  <2> QED BY <2>1, <2>2, <2>3 DEF Held
<1>7. Held(sz, S) \cap own = {}
  BY DEF Held
<1> HIDE DEF own, n
<1>8. Cardinality(Held(sz, S) \cap own) = 0
  BY <1>7, FS_EmptySet
<1>9. Cardinality(Held(sz, S) \cup own) = Cardinality(Held(sz, S)) + n - 0
  BY <1>4, <1>5, <1>8, FS_Union
<1>10. Cardinality(Held(sz, S \cup {u})) = Cardinality(Held(sz, S)) + n
  <2>1. Cardinality(Held(sz, S \cup {u})) = Cardinality(Held(sz, S)) + n - 0
    BY <1>6, <1>9, Zenon
  <2> QED BY <1>1, <1>5, <2>1
<1> QED BY <1>10 DEF n

\* What a set of uploads holds depends on their own sizes only.
LEMMA HeldSame ==
    ASSUME NEW y, NEW z, NEW S, \A u \in S : y[u] = z[u]
    PROVE  Held(y, S) = Held(z, S)
BY DEF Held

\* The sets that QuotaBalances adds up are finite.
LEMMA HoldersFinite ==
    ASSUME IInv, FinitelyMany, NEW r
    PROVE  IsFiniteSet(Reserving(r)) /\ IsFiniteSet(Using(r))
<1> DEFINE F == {u \in Uploads : attachment[u] # "none"}
<1>1. Reserving(r) \in SUBSET F /\ Using(r) \in SUBSET F
  BY DEF Reserving, Using, IInv, OpenUploads
<1> QED BY <1>1, FS_Subset DEF FinitelyMany

\* QuotaBalances, in terms of the chunks held.
LEMMA BalancesIff ==
    QuotaBalances <=> \A r \in Rooms : /\ quota[r].reserved = Cardinality(Held(size, Reserving(r)))
                                       /\ quota[r].used = Cardinality(Held(size, Using(r)))
BY DEF QuotaBalances, Total, Held

\* InitializeAttachment reserves the chunks of one more upload.
LEMMA InitializeBalances ==
    ASSUME IInv, Balanced, NEW u \in Uploads, NEW r \in Rooms, NEW n \in 0 .. MaxSize + 1,
           InitializeAttachment(u, r, n)
    PROVE  Balanced'
<1>1. /\ attachment' = [attachment EXCEPT ![u] = "open"]
      /\ upload' = [upload EXCEPT ![u] = "live"]
      /\ room' = [room EXCEPT ![u] = r] /\ size' = [size EXCEPT ![u] = n]
      /\ attachment[u] = "none" /\ upload[u] = "none" /\ n \in 0 .. MaxSize
      /\ quota' = [quota EXCEPT ![r] = [row |-> TRUE, reserved |-> @.reserved + n, used |-> @.used]]
  BY AttachmentAssumption DEF InitializeAttachment, Reserve, ValidSize, IInv, OpenUploads
<1>2. /\ attachment \in [Uploads -> {"none", "open", "committed", "gone"}]
      /\ upload \in [Uploads -> {"none", "live", "expired"}]
      /\ room \in [Uploads -> Rooms \cup {None}] /\ size \in [Uploads -> 0 .. MaxSize]
      /\ quota \in [Rooms -> Row]
  BY DEF IInv, TypeOK
<1>3. FinitelyMany'
  <2>1. {v \in Uploads : attachment'[v] # "none"} = {v \in Uploads : attachment[v] # "none"} \cup {u}
    BY <1>1, <1>2
  <2> QED BY <2>1, FS_AddElement DEF Balanced, FinitelyMany
<1>4. /\ Reserving(r)' = Reserving(r) \cup {u} /\ u \notin Reserving(r)
      /\ \A q \in Rooms \ {r} : Reserving(q)' = Reserving(q) /\ u \notin Reserving(q)
      /\ \A q \in Rooms : Using(q)' = Using(q) /\ u \notin Using(q)
  BY <1>1, <1>2 DEF Reserving, Using
<1>5. \A S : u \notin S => Held(size', S) = Held(size, S)
  <2> SUFFICES ASSUME NEW S, u \notin S PROVE Held(size', S) = Held(size, S)
    OBVIOUS
  <2>1. \A v \in S : size'[v] = size[v]
    BY <1>1, <1>2
  <2> QED BY <2>1, HeldSame
<1>6. \A q \in Rooms : /\ quota[q].reserved = Cardinality(Held(size, Reserving(q)))
                       /\ quota[q].used = Cardinality(Held(size, Using(q)))
  BY BalancesIff DEF Balanced
<1>7. Cardinality(Held(size', Reserving(r)')) = quota[r].reserved + n
  <2>1. size'[u] = n
    BY <1>1, <1>2
  <2>2. Cardinality(Held(size', Reserving(r) \cup {u})) = Cardinality(Held(size', Reserving(r))) + n
    <3>1. IsFiniteSet(Reserving(r)) /\ size'[u] \in 0 .. MaxSize
      BY <1>1, <2>1, HoldersFinite DEF Balanced
    <3>2. Cardinality(Held(size', Reserving(r) \cup {u}))
            = Cardinality(Held(size', Reserving(r))) + size'[u]
      BY <1>4, <3>1, HeldMore
    <3> QED BY <2>1, <3>2
  <2> QED BY <1>4, <1>5, <1>6, <2>2
<1>8. \A q \in Rooms : /\ quota'[q].reserved = IF q = r THEN quota[r].reserved + n ELSE quota[q].reserved
                       /\ quota'[q].used = quota[q].used
  BY <1>1, <1>2
<1>9. \A q \in Rooms : /\ quota'[q].reserved = Cardinality(Held(size', Reserving(q)'))
                       /\ quota'[q].used = Cardinality(Held(size', Using(q)'))
  BY <1>4, <1>5, <1>6, <1>7, <1>8, Zenon
<1>10. QuotaBalances'
  BY <1>9 DEF QuotaBalances, Total, Held
<1> QED BY <1>3, <1>10 DEF Balanced

\* The commit and the cleanup end one upload: its reservation is given back, and
\* used chunks are added only if the attachment is committed.
LEMMA EndBalances ==
    ASSUME IInv, Balanced, CommitAttachmentUpload \/ \E v \in Uploads : RemoveExpired(v)
    PROVE  Balanced'
<1> USE DEF Row
<1>1. PICK u \in Uploads :
        /\ upload[u] # "none" /\ upload' = [upload EXCEPT ![u] = "none"]
        /\ UNCHANGED <<room, size>>
        /\ \/ /\ attachment' = [attachment EXCEPT ![u] = "committed"]
              /\ quota' = MoveQuota(room[u], size[u])
           \/ /\ attachment' = [attachment EXCEPT ![u] = "gone"]
              /\ quota' = [quota EXCEPT ![room[u]].reserved = @ - size[u]]
  <2>1. CASE CommitAttachmentUpload
    <3>1. proc.u \in Uploads /\ upload[proc.u] # "none"
      BY <2>1 DEF CommitAttachmentUpload, IInv, InProgress
    <3> QED BY <2>1, <3>1 DEF CommitAttachmentUpload
  <2>2. ASSUME NEW v \in Uploads, RemoveExpired(v)
        PROVE  /\ upload[v] # "none" /\ upload' = [upload EXCEPT ![v] = "none"]
               /\ UNCHANGED <<room, size>>
               /\ attachment' = [attachment EXCEPT ![v] = "gone"]
               /\ quota' = [quota EXCEPT ![room[v]].reserved = @ - size[v]]
    <3>1. upload[v] = "expired" /\ attachment[v] = "open"
      BY <2>2 DEF RemoveExpired, IInv, InProgress, OpenUploads
    <3> QED BY <2>2, <3>1 DEF RemoveExpired
  <2> QED BY <2>1, <2>2
<1>r. PICK r \in Rooms : r = room[u]
  BY <1>1 DEF IInv, OpenUploads
<1>n. PICK n \in 0 .. MaxSize : n = size[u]
  BY DEF IInv, TypeOK
<1>2. /\ attachment \in [Uploads -> {"none", "open", "committed", "gone"}]
      /\ upload \in [Uploads -> {"none", "live", "expired"}]
      /\ size \in [Uploads -> 0 .. MaxSize] /\ quota \in [Rooms -> Row]
      /\ attachment[u] = "open"
  BY <1>1 DEF IInv, TypeOK, OpenUploads
<1>3. FinitelyMany'
  <2>1. {v \in Uploads : attachment'[v] # "none"} = {v \in Uploads : attachment[v] # "none"}
    BY <1>1, <1>2
  <2> QED BY <2>1 DEF Balanced, FinitelyMany
<1>4. /\ Reserving(r) = Reserving(r)' \cup {u} /\ u \notin Reserving(r)' /\ u \notin Using(r)
      /\ \A q \in Rooms \ {r} : Reserving(q)' = Reserving(q) /\ Using(q)' = Using(q)
      /\ Using(r)' = IF attachment'[u] = "committed" THEN Using(r) \cup {u} ELSE Using(r)
  BY <1>1, <1>2, <1>r DEF Reserving, Using
<1>5. \A q \in Rooms : /\ quota[q].reserved = Cardinality(Held(size, Reserving(q)))
                       /\ quota[q].used = Cardinality(Held(size, Using(q)))
  BY BalancesIff DEF Balanced
<1>6. Cardinality(Held(size, Reserving(r)')) = quota[r].reserved - n
  <2>1. IsFiniteSet(Reserving(r)')
    <3>1. Reserving(r)' \in SUBSET Reserving(r) /\ IsFiniteSet(Reserving(r))
      BY <1>4, HoldersFinite DEF Balanced
    <3> QED BY <3>1, FS_Subset
  <2>2. Cardinality(Held(size, Reserving(r)' \cup {u})) = Cardinality(Held(size, Reserving(r)')) + n
    BY <1>n, <1>4, <2>1, HeldMore
  <2>3. Cardinality(Held(size, Reserving(r)')) \in Nat /\ n \in Int
    BY <2>1, HeldFinite
  <2>4. quota[r].reserved = Cardinality(Held(size, Reserving(r)')) + n
    BY <1>2, <1>4, <1>5, <2>2, Zenon
  <2> QED BY <2>3, <2>4
<1>7. Cardinality(Held(size, Using(r) \cup {u})) = quota[r].used + n
  <2>1. IsFiniteSet(Using(r)) /\ u \notin Using(r) /\ size[u] \in 0 .. MaxSize
    BY <1>n, <1>4, HoldersFinite DEF Balanced
  <2>2. Cardinality(Held(size, Using(r) \cup {u})) = Cardinality(Held(size, Using(r))) + size[u]
    BY <2>1, HeldMore
  <2> QED BY <1>n, <1>5, <2>2, Zenon
<1>8. /\ quota'[r].reserved = quota[r].reserved - n
      /\ quota'[r].used = IF attachment'[u] = "committed" THEN quota[r].used + n ELSE quota[r].used
      /\ \A q \in Rooms \ {r} : quota'[q] = quota[q]
  <2>1. CASE attachment' = [attachment EXCEPT ![u] = "committed"] /\ quota' = MoveQuota(r, n)
    BY <1>2, <2>1 DEF MoveQuota
  <2>2. CASE attachment' = [attachment EXCEPT ![u] = "gone"] /\ quota' = [quota EXCEPT ![r].reserved = @ - n]
    BY <1>2, <2>2
  <2> QED BY <1>1, <1>r, <1>n, <2>1, <2>2
<1>9. \A q \in Rooms : /\ quota'[q].reserved = Cardinality(Held(size, Reserving(q)'))
                       /\ quota'[q].used = Cardinality(Held(size, Using(q)'))
  <2> SUFFICES ASSUME NEW q \in Rooms
               PROVE  /\ quota'[q].reserved = Cardinality(Held(size, Reserving(q)'))
                      /\ quota'[q].used = Cardinality(Held(size, Using(q)'))
    OBVIOUS
  <2>1. CASE q = r
    <3>1. quota'[r].reserved = Cardinality(Held(size, Reserving(r)'))
      BY <1>6, <1>8, Zenon
    <3>2. quota'[r].used = Cardinality(Held(size, Using(r)'))
      <4>1. CASE attachment'[u] = "committed"
        <5>1. Using(r)' = Using(r) \cup {u} /\ quota'[r].used = quota[r].used + n
          BY <1>4, <1>8, <4>1
        <5> QED BY <1>7, <5>1, Zenon
      <4>2. CASE attachment'[u] # "committed"
        <5>1. Using(r)' = Using(r) /\ quota'[r].used = quota[r].used
          BY <1>4, <1>8, <4>2
        <5> QED BY <1>2, <1>5, <5>1, Zenon
      <4> QED BY <4>1, <4>2
    <3> QED BY <2>1, <3>1, <3>2, Zenon
  <2>2. CASE q # r
    <3>1. quota'[q] = quota[q] /\ Reserving(q)' = Reserving(q) /\ Using(q)' = Using(q)
      BY <1>4, <1>8, <2>2
    <3> QED BY <1>5, <3>1, Zenon
  <2> QED BY <2>1, <2>2
<1>10. QuotaBalances'
  <2>1. \A q \in Rooms : /\ quota'[q].reserved = Cardinality(Held(size', Reserving(q)'))
                         /\ quota'[q].used = Cardinality(Held(size', Using(q)'))
    BY <1>1, <1>9
  <2> QED BY <2>1 DEF QuotaBalances, Total, Held
<1> QED BY <1>3, <1>10 DEF Balanced

\* What is reserved and used does not depend on whether an upload is expired.
LEMMA ExpireBalances ==
    ASSUME IInv, Balanced, NEW u \in Uploads, Expire(u)
    PROVE  Balanced'
<1>1. /\ upload[u] = "live" /\ upload' = [upload EXCEPT ![u] = "expired"]
      /\ UNCHANGED <<attachment, room, size, quota>>
      /\ upload \in [Uploads -> {"none", "live", "expired"}]
  BY DEF Expire, IInv, TypeOK
<1>2. \A r : Reserving(r)' = Reserving(r) /\ Using(r)' = Using(r)
  BY <1>1 DEF Reserving, Using
<1>3. FinitelyMany'
  BY <1>1 DEF Balanced, FinitelyMany
<1>4. \A r : Total(Reserving(r))' = Total(Reserving(r)) /\ Total(Using(r))' = Total(Using(r))
  BY <1>1, <1>2 DEF Total
<1>5. QuotaBalances'
  BY <1>1, <1>4, Zenon DEF Balanced, QuotaBalances
<1> QED BY <1>3, <1>5 DEF Balanced

\* No other step touches the tables of uploads, attachments and quotas.
LEMMA TablesUntouched ==
    ASSUME [Next]_vars,
           ~ \E u \in Uploads : Expire(u) \/ RemoveExpired(u),
           ~ \E u \in Uploads, r \in Rooms, n \in 0 .. MaxSize + 1 : InitializeAttachment(u, r, n),
           ~ CommitAttachmentUpload
    PROVE  UNCHANGED tables
<1>1. ASSUME NEW u \in Uploads, NEW i \in Index, NEW b \in Blobs,
             StoreAttachmentChunk(u, i, b) \/ RecoverChunk(u, i, b)
      PROVE  UNCHANGED tables
  BY <1>1 DEF StoreAttachmentChunk, RecoverChunk
<1>2. ASSUME NEW u \in Uploads, NEW i \in Index, NEW b \in Blobs \cup {None}, DiskFault(u, i, b)
      PROVE  UNCHANGED tables
  BY <1>2 DEF DiskFault
<1>3. ASSUME NEW u \in Uploads, ResumeAttachmentUpload(u) \/ PublishAttachment(u)
      PROVE  UNCHANGED tables
  BY <1>3 DEF ResumeAttachmentUpload, PublishAttachment
<1>4. ASSUME SaveChunk \/ SaveChunkFails \/ CleanupExpiredAttachmentUploads \/ RemoveFiles
      PROVE  UNCHANGED tables
  BY <1>4 DEF SaveChunk, SaveChunkFails, CleanupExpiredAttachmentUploads, RemoveFiles
<1>5. ASSUME Crash \/ AllDone \/ UNCHANGED vars
      PROVE  UNCHANGED tables
  BY <1>5 DEF Crash, AllDone, vars
<1> QED
  BY <1>1, <1>2, <1>3, <1>4, <1>5, Zenon DEF Next

\* Every step keeps the balance.
LEMMA NextBalanced == IInv /\ Balanced /\ [Next]_vars => Balanced'
<1> SUFFICES ASSUME IInv, Balanced, [Next]_vars PROVE Balanced'
  OBVIOUS
<1>1. ASSUME UNCHANGED tables PROVE Balanced'
  <2>1. UNCHANGED <<attachment, upload, room, size, quota>>
    BY <1>1 DEF tables
  <2>2. \A r : Reserving(r)' = Reserving(r) /\ Using(r)' = Using(r)
    BY <2>1 DEF Reserving, Using
  <2> QED BY <2>1, <2>2 DEF Balanced, QuotaBalances, Total, FinitelyMany
<1>2. CASE CommitAttachmentUpload \/ \E u \in Uploads : RemoveExpired(u)
  BY <1>2, EndBalances
<1> QED BY <1>1, <1>2, TablesUntouched, InitializeBalances, ExpireBalances

\* Nothing is held and nothing charged at first.
LEMMA InitBalanced == Init => Balanced
<1> SUFFICES ASSUME Init PROVE Balanced
  OBVIOUS
<1>1. {u \in Uploads : attachment[u] # "none"} = {}
  BY DEF Init
<1>2. \A r : Reserving(r) = {} /\ Using(r) = {}
  BY DEF Init, Reserving, Using
<1>3. Total({}) = 0
  <2>1. {c \in {} \X Index : c[2] < size[c[1]]} = {}
    OBVIOUS
  <2> QED BY <2>1, FS_EmptySet DEF Total
<1>4. QuotaBalances
  BY <1>2, <1>3 DEF Init, QuotaBalances
<1> QED BY <1>1, <1>4, FS_EmptySet DEF Balanced, FinitelyMany

\* A room's row is the exact sum of its open uploads and of its committed
\* attachments: no crash between the rename, the transactions and the removal of
\* files charges a chunk twice or releases it twice.
THEOREM QuotaBalanceHolds == Spec => []QuotaBalances
<1>1. Balanced => QuotaBalances
  BY DEF Balanced
<1> QED BY InitBalanced, NextBalanced, Consistent, <1>1, PTL DEF Spec

-----------------------------------------------------------------------------
\* No other step writes where files are published.
LEMMA OnlyPublishWrites ==
    ASSUME Next, ~ \E u \in Uploads : PublishAttachment(u)
    PROVE  published' = published /\ final' = final
<1> USE DEF files
<1>1. ASSUME NEW u \in Uploads, NEW r \in Rooms, NEW n \in 0 .. MaxSize + 1, InitializeAttachment(u, r, n)
      PROVE  published' = published /\ final' = final
  BY <1>1 DEF InitializeAttachment
<1>2. ASSUME NEW u \in Uploads, NEW i \in Index, NEW b \in Blobs,
             StoreAttachmentChunk(u, i, b) \/ RecoverChunk(u, i, b)
      PROVE  published' = published /\ final' = final
  BY <1>2 DEF StoreAttachmentChunk, RecoverChunk
<1>3. ASSUME NEW u \in Uploads, NEW i \in Index, NEW b \in Blobs \cup {None}, DiskFault(u, i, b)
      PROVE  published' = published /\ final' = final
  BY <1>3 DEF DiskFault
<1>4. ASSUME NEW u \in Uploads, ResumeAttachmentUpload(u) \/ RemoveExpired(u) \/ Expire(u)
      PROVE  published' = published /\ final' = final
  BY <1>4 DEF ResumeAttachmentUpload, RemoveExpired, Expire
<1>5. ASSUME SaveChunk \/ SaveChunkFails \/ CommitAttachmentUpload
      PROVE  published' = published /\ final' = final
  BY <1>5 DEF SaveChunk, SaveChunkFails, CommitAttachmentUpload
<1>6. ASSUME CleanupExpiredAttachmentUploads \/ RemoveFiles \/ Crash \/ AllDone
      PROVE  published' = published /\ final' = final
  BY <1>6 DEF CleanupExpiredAttachmentUploads, RemoveFiles, Crash, AllDone, vars
<1> QED
  BY <1>1, <1>2, <1>3, <1>4, <1>5, <1>6, Zenon DEF Next

\* The commit publishes the bytes that were accepted: it compares each file with
\* its row under attachmentMu before the rename.
THEOREM PublishesAcceptedHolds == Spec => PublishesAccepted
<1> DEFINE A == \A u \in published' \ published : \A i \in Chunks(u) :
                  chunks[u][i] # None /\ final'[u][i] = chunks[u][i]
<1>1. IInv /\ [Next]_vars => [A]_vars
  <2> SUFFICES ASSUME IInv, Next PROVE A
    OBVIOUS
  <2>1. CASE \E u \in Uploads : PublishAttachment(u)
    <3>1. PICK u \in Uploads : PublishAttachment(u)
      BY <2>1
    <3>2. /\ published' \ published \subseteq {u} /\ final'[u] = partial[u]
      BY <3>1 DEF PublishAttachment, IInv, TypeOK
    <3>3. \A i \in Chunks(u) : i \in Index
      BY AttachmentAssumption DEF Chunks, Index, IInv, TypeOK
    <3>4. \A i \in Chunks(u) : chunks[u][i] \in Exact /\ chunks[u][i] = partial[u][i]
      BY <3>1, <3>3 DEF PublishAttachment, AllChunksVerified, ChunkVerified, Matches
    <3> QED BY <3>2, <3>4, AttachmentAssumption
  <2>2. CASE ~ \E u \in Uploads : PublishAttachment(u)
    <3>1. published' = published
      BY <2>2, OnlyPublishWrites
    <3> QED BY <3>1
  <2> QED BY <2>1, <2>2
<1> QED BY Consistent, <1>1, PTL DEF Spec, PublishesAccepted

\* Once published, a directory is never written again: only PublishAttachment
\* writes one, and only where none is.
THEOREM PublishedIsFrozenHolds == Spec => PublishedIsFrozen
<1> DEFINE A == \A u \in published : u \in published' /\ final'[u] = final[u]
<1>1. IInv /\ [Next]_vars => [A]_vars
  <2> SUFFICES ASSUME IInv, Next PROVE A
    OBVIOUS
  <2>1. ASSUME NEW u \in Uploads, PublishAttachment(u) PROVE A
    BY <2>1 DEF PublishAttachment, DirectoryFree, IInv, TypeOK
  <2>2. CASE ~ \E u \in Uploads : PublishAttachment(u)
    <3>1. published' = published /\ final' = final
      BY <2>2, OnlyPublishWrites
    <3> QED BY <3>1
  <2> QED BY <2>1, <2>2
<1> QED BY Consistent, <1>1, PTL DEF Spec, PublishedIsFrozen

=============================================================================
