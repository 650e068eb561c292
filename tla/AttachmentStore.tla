-------------------------- MODULE AttachmentStore --------------------------
(***************************************************************************)
(* The server's attachment store (server-go/attachment_store.go): uploads  *)
(* recorded in SQLite tables, their ciphertext chunks in files.  The two   *)
(* are not updated together, so every operation that touches both is two   *)
(* steps here, and the process may crash between them.                     *)
(*                                                                         *)
(* All operations but the download hold attachmentMu, so at most one is in *)
(* progress: proc.  An upload and its attachment are created together and  *)
(* share one identifier here.  Sizes are counted in chunks.  Requests that *)
(* are refused without an effect (another author, an unknown or expired    *)
(* upload, an index out of range, a hash that does not match) are guards.  *)
(*                                                                         *)
(* A definition marked variant is the one after it with a plausible        *)
(* mistake in it, which a property must notice; nothing else uses it.      *)
(***************************************************************************)
EXTENDS Integers, FiniteSets

CONSTANTS
    Uploads,     \* the identifiers uuid.NewString can return
    Rooms,
    Blobs,       \* ciphertexts (a digest stands for its ciphertext)
    Exact,       \* those of the length the commit demands of a chunk
    MaxSize,     \* maxAttachmentLogicalBytes, in chunks
    MaxRoom,     \* maxRoomAttachmentBytes, in chunks
    None

ASSUME AttachmentAssumption ==
    /\ MaxSize \in Nat \ {0} /\ MaxRoom \in Nat /\ MaxSize <= MaxRoom
    /\ Exact \subseteq Blobs
    /\ None \notin Blobs \cup Uploads \cup Rooms

VARIABLES
    attachment,  \* row of attachments: none yet, open, committed_at set, gone
    upload,      \* row of attachment_uploads: none, live, past expires_at
    room, size,  \* the columns both rows carry
    chunks,      \* rows of attachment_chunks, per upload and index
    partial,     \* files .partial/<upload>/<index>.bin
    published,   \* uploads whose directory <attachment>/ exists
    final,       \* the files in it
    quota,       \* rows of room_quotas
    proc         \* the operation that holds attachmentMu, between two steps

tables == <<attachment, upload, room, size, quota>>
files == <<partial, published, final>>
vars == <<tables, chunks, files, proc>>

Index == 0 .. MaxSize - 1
Empty == [i \in Index |-> None]
Chunks(u) == 0 .. size[u] - 1
Idle == [op |-> "idle", u |-> None, i |-> 0, b |-> None, todo |-> {}]

Init ==
    /\ attachment = [u \in Uploads |-> "none"]
    /\ upload = [u \in Uploads |-> "none"]
    /\ room = [u \in Uploads |-> None]
    /\ size = [u \in Uploads |-> 0]
    /\ chunks = [u \in Uploads |-> Empty]
    /\ partial = [u \in Uploads |-> Empty]
    /\ published = {}
    /\ final = [u \in Uploads |-> Empty]
    /\ quota = [r \in Rooms |-> [row |-> FALSE, reserved |-> 0, used |-> 0]]
    /\ proc = Idle

-----------------------------------------------------------------------------
(* Uploading.                                                              *)

ValidSize(n) == 0 < n /\ n <= MaxSize

ReservedOnly(r, n) == quota[r].reserved + n <= MaxRoom    \* variant
Fits(r, n) == quota[r].reserved + quota[r].used + n <= MaxRoom

\* The upsert of room_quotas: its WHERE only guards the update of a row.
Reserve(r, n) ==
    /\ quota[r].row => Fits(r, n)
    /\ quota' = [quota EXCEPT ![r] = [row |-> TRUE, reserved |-> @.reserved + n,
                                      used |-> @.used]]

InitializeAttachment(u, r, n) ==
    /\ proc = Idle
    /\ attachment[u] = "none"
    /\ ValidSize(n)
    /\ Reserve(r, n)
    /\ attachment' = [attachment EXCEPT ![u] = "open"]
    /\ upload' = [upload EXCEPT ![u] = "live"]
    /\ room' = [room EXCEPT ![u] = r]
    /\ size' = [size EXCEPT ![u] = n]
    /\ UNCHANGED <<chunks, files, proc>>

\* loadAttachmentUpload finds the row and time.Now() is before expires_at.
loadAttachmentUpload(u) == proc = Idle /\ upload[u] = "live"

\* StoreAttachmentChunk of a chunk that has neither row nor file: the file is
\* written (to a temporary name and renamed) ...
StoreAttachmentChunk(u, i, b) ==
    /\ loadAttachmentUpload(u)
    /\ i \in Chunks(u)
    /\ chunks[u][i] = None /\ partial[u][i] = None
    /\ partial' = [partial EXCEPT ![u][i] = b]
    /\ proc' = [op |-> "store", u |-> u, i |-> i, b |-> b, todo |-> {}]
    /\ UNCHANGED <<tables, chunks, published, final>>

\* ... then its row is inserted, and the chunk is acknowledged,
SaveChunk ==
    /\ proc.op = "store"
    /\ chunks' = [chunks EXCEPT ![proc.u][proc.i] = proc.b]
    /\ proc' = Idle
    /\ UNCHANGED <<tables, files>>

\* or the insert fails and the file is removed again.
SaveChunkFails ==
    /\ proc.op = "store"
    /\ partial' = [partial EXCEPT ![proc.u][proc.i] = None]
    /\ proc' = Idle
    /\ UNCHANGED <<tables, chunks, published, final>>

\* A file that an interrupted StoreAttachmentChunk left behind is adopted when
\* the same bytes are sent again.  (Other bytes, and bytes that differ from an
\* accepted chunk, are a conflict: no step.)
RecoverChunk(u, i, b) ==
    /\ loadAttachmentUpload(u)
    /\ i \in Chunks(u)
    /\ chunks[u][i] = None /\ partial[u][i] = b
    /\ chunks' = [chunks EXCEPT ![u][i] = b]
    /\ UNCHANGED <<tables, files, proc>>

\* storedAttachmentChunkMatches, of the row of chunk i.
Matches(u, i) == chunks[u][i] = partial[u][i]

\* Rows whose file is gone or altered are dropped, with what is left of it.
ResumeAttachmentUpload(u) ==
    /\ loadAttachmentUpload(u)
    /\ LET invalid == {i \in Index : chunks[u][i] # None /\ ~Matches(u, i)}
           Drop(f) == [i \in Index |-> IF i \in invalid THEN None ELSE f[i]]
       IN  /\ chunks' = [chunks EXCEPT ![u] = Drop(@)]
           /\ partial' = [partial EXCEPT ![u] = Drop(@)]
    /\ UNCHANGED <<tables, published, final, proc>>

-----------------------------------------------------------------------------
(* Committing: the directory is renamed, then the tables are changed.      *)

Unchecked(u, i) == chunks[u][i] \in Exact                 \* variants
Untrimmed(u, i) == chunks[u][i] # None /\ Matches(u, i)
ChunkVerified(u, i) == chunks[u][i] \in Exact /\ Matches(u, i)

\* Every index has a row of the exact length whose file has that digest.
AllChunksVerified(u) ==
    \A i \in Index :
        IF i \in Chunks(u) THEN ChunkVerified(u, i) ELSE chunks[u][i] = None

DirectoryFree(u) == u \notin published

PublishAttachment(u) ==
    /\ loadAttachmentUpload(u)
    /\ AllChunksVerified(u)
    /\ DirectoryFree(u)
    /\ published' = published \cup {u}
    /\ final' = [final EXCEPT ![u] = partial[u]]
    /\ partial' = [partial EXCEPT ![u] = Empty]
    /\ proc' = [op |-> "commit", u |-> u, i |-> 0, b |-> None, todo |-> {}]
    /\ UNCHANGED <<tables, chunks>>

\* Variant: the reservation is not given back.
UseTwice(r, n) == [quota EXCEPT ![r].used = @ + n]
MoveQuota(r, n) ==
    [quota EXCEPT ![r] = [row |-> @.row, reserved |-> @.reserved - n,
                          used |-> @.used + n]]

CommitAttachmentUpload ==
    /\ proc.op = "commit"
    /\ LET u == proc.u
       IN  /\ attachment' = [attachment EXCEPT ![u] = "committed"]
           /\ quota' = MoveQuota(room[u], size[u])
           /\ chunks' = [chunks EXCEPT ![u] = Empty]
           /\ upload' = [upload EXCEPT ![u] = "none"]
    /\ proc' = Idle
    /\ UNCHANGED <<room, size, files>>

-----------------------------------------------------------------------------
(* The hourly cleanup.                                                     *)

\* Variant: an upload that a commit left half done is passed over.
ExpiredUnpublished == {u \in Uploads : upload[u] = "expired"} \ published
Expired == {u \in Uploads : upload[u] = "expired"}

\* The rows past expires_at are listed ...
CleanupExpiredAttachmentUploads ==
    /\ proc = Idle
    /\ Expired # {}
    /\ proc' = [op |-> "clean", u |-> None, i |-> 0, b |-> None,
                todo |-> Expired]
    /\ UNCHANGED <<tables, chunks, files>>

\* ... and one by one removed in a transaction,
RemoveExpired(u) ==
    /\ proc.op = "clean" /\ proc.u = None
    /\ u \in proc.todo
    /\ chunks' = [chunks EXCEPT ![u] = Empty]
    /\ upload' = [upload EXCEPT ![u] = "none"]
    /\ attachment' = [attachment EXCEPT
                        ![u] = IF @ = "committed" THEN @ ELSE "gone"]
    /\ quota' = [quota EXCEPT ![room[u]].reserved = @ - size[u]]
    /\ proc' = [proc EXCEPT !.u = u, !.todo = @ \ {u}]
    /\ UNCHANGED <<room, size, files>>

\* after which its directory is removed.
RemoveFiles ==
    /\ proc.op = "clean" /\ proc.u # None
    /\ partial' = [partial EXCEPT ![proc.u] = Empty]
    /\ proc' = IF proc.todo = {} THEN Idle ELSE [proc EXCEPT !.u = None]
    /\ UNCHANGED <<tables, chunks, published, final>>

-----------------------------------------------------------------------------
(* The environment.                                                        *)

\* The 24 hours of attachmentUploadTTL pass.
Expire(u) ==
    /\ upload[u] = "live"
    /\ upload' = [upload EXCEPT ![u] = "expired"]
    /\ UNCHANGED <<attachment, room, size, quota, chunks, files, proc>>

\* The server crashes, or the operation returns an error (a transaction or
\* RemoveAll fails): what its first step did stays done.
Crash ==
    /\ proc # Idle
    /\ proc' = Idle
    /\ UNCHANGED <<tables, chunks, files>>

\* A chunk file is lost or altered on disk, which the store looks for in
\* StoreAttachmentChunk, ResumeAttachmentUpload and CommitAttachmentUpload.
DiskFault(u, i, b) ==
    /\ proc = Idle
    /\ partial[u][i] \notin {None, b}
    /\ partial' = [partial EXCEPT ![u][i] = b]
    /\ UNCHANGED <<tables, chunks, published, final, proc>>

\* No upload is open; the store waits for the next one.
AllDone ==
    /\ proc = Idle
    /\ \A u \in Uploads : upload[u] = "none"
    /\ UNCHANGED vars

Next ==
    \/ \E u \in Uploads :
        \/ \E r \in Rooms, n \in 0 .. MaxSize + 1 : InitializeAttachment(u, r, n)
        \/ \E i \in Index, b \in Blobs :
            StoreAttachmentChunk(u, i, b) \/ RecoverChunk(u, i, b)
        \/ \E i \in Index, b \in Blobs \cup {None} : DiskFault(u, i, b)
        \/ ResumeAttachmentUpload(u) \/ PublishAttachment(u)
        \/ RemoveExpired(u) \/ Expire(u)
    \/ SaveChunk \/ SaveChunkFails \/ CommitAttachmentUpload
    \/ CleanupExpiredAttachmentUploads \/ RemoveFiles
    \/ Crash \/ AllDone

Spec == Init /\ [][Next]_vars

\* Time passes, an operation ends, and the hourly cleanup gets attachmentMu (a
\* Go mutex starves nobody) without a crash hitting each and every attempt.
Fairness ==
    /\ WF_vars(SaveChunk \/ CommitAttachmentUpload \/ RemoveFiles)
    /\ SF_vars(CleanupExpiredAttachmentUploads)
    /\ \A u \in Uploads : WF_vars(Expire(u)) /\ SF_vars(RemoveExpired(u))

FairSpec == Spec /\ Fairness

-----------------------------------------------------------------------------
(* Properties.                                                             *)

Row == [row : BOOLEAN, reserved : Int, used : Int]

\* The tables, the files and the operation in progress have their types; no
\* upload is larger than MaxSize.
TypeOK ==
    /\ attachment \in [Uploads -> {"none", "open", "committed", "gone"}]
    /\ upload \in [Uploads -> {"none", "live", "expired"}]
    /\ room \in [Uploads -> Rooms \cup {None}]
    /\ size \in [Uploads -> 0 .. MaxSize]
    /\ chunks \in [Uploads -> [Index -> Blobs \cup {None}]]
    /\ partial \in [Uploads -> [Index -> Blobs \cup {None}]]
    /\ published \in SUBSET Uploads
    /\ final \in [Uploads -> [Index -> Blobs \cup {None}]]
    /\ quota \in [Rooms -> Row]
    /\ proc \in [op : {"idle", "store", "commit", "clean"},
                 u : Uploads \cup {None}, i : Index, b : Blobs \cup {None},
                 todo : SUBSET Uploads]

\* The sum of the sizes of the uploads in S, counted chunk by chunk.
Total(S) == Cardinality({c \in S \X Index : c[2] < size[c[1]]})

\* The uploads that hold a reservation in room r, and the attachments it keeps.
Reserving(r) == {u \in Uploads : upload[u] # "none" /\ room[u] = r}
Using(r) == {u \in Uploads : attachment[u] = "committed" /\ room[u] = r}

\* What InitializeAttachment reserves is charged to its room until it is used
\* or released, once: whatever crashes between the rename, the transactions and
\* the removal of files, a room's row holds the chunks of its open uploads as
\* reserved and of its committed attachments as used, at most MaxRoom together.
QuotaBalances ==
    \A r \in Rooms : /\ quota[r].reserved = Total(Reserving(r))
                     /\ quota[r].used = Total(Using(r))

\* InitializeAttachment refuses what would exceed a room's quota, and no later
\* step (the commit moves a reservation, the cleanup releases one) exceeds it.
QuotaWithinLimit ==
    \A r \in Rooms : quota[r].reserved + quota[r].used <= MaxRoom

\* What ReadAttachmentChunk serves is complete: a committed attachment has its
\* directory with every chunk, of the exact length, and no upload row that the
\* cleanup could find and release a second time.
CommittedIsWhole ==
    \A u \in Uploads : attachment[u] = "committed" =>
        /\ u \in published /\ upload[u] = "none"
        /\ \A i \in Chunks(u) : final[u][i] \in Exact

\* An accepted chunk is never replaced (comment at StoreAttachmentChunk): the
\* files the commit publishes hold, chunk by chunk, the bytes that the rows
\* record as accepted, although files are lost, altered and orphaned meanwhile.
PublishesAccepted ==
    [][\A u \in published' \ published : \A i \in Chunks(u) :
            chunks[u][i] # None /\ final'[u][i] = chunks[u][i]]_vars

\* A published directory is never written again, whatever a later upload of the
\* same chunks, a second commit or the cleanup does.
PublishedIsFrozen ==
    [][\A u \in published : u \in published' /\ final'[u] = final[u]]_vars

\* Every upload ends: committed, or found by the hourly cleanup after it
\* expired, so that no reservation is held for ever.
UploadsEnd == \A u \in Uploads : (upload[u] # "none") ~> (upload[u] = "none")

=============================================================================
