--------------------------- MODULE SecureUpload ----------------------------
(***************************************************************************)
(* One attachment on its way from the graphical client that sends it,      *)
(* through the server, to the members of the channel.                      *)
(*                                                                         *)
(* The sender's worker makes an MLS group, adds the members one by one     *)
(* (fetch, proposal, commit, welcome), uploads the encrypted chunks in a   *)
(* window, asks for the commit and sends the manifest under the group's    *)
(* key.  A member joins by the welcome, follows the commits, reads the     *)
(* manifest and downloads the chunks one after the other                   *)
(* (client-cpp/gui/src/gui_connection_worker.cpp and attachments/).  The   *)
(* server keeps the group's control state and the chunks (server-go/hub.go *)
(* and its stores, in detail in modules MLSGroup and AttachmentStore); it  *)
(* may refuse any request.                                                 *)
(*                                                                         *)
(* Client 0 is the sender, 1 .. Targets are the members in the order of    *)
(* targetUsers.  Connections are first in, first out.  When one breaks,    *)
(* what is on its way to the server is lost; what is on its way back may   *)
(* still be read, and sending then fails or is lost unnoticed.  Each map   *)
(* of the worker that is keyed by a command has one entry here, as there   *)
(* is one upload.  Slots and the receive thread use these maps without a   *)
(* lock; each of their handlers is one step here.                          *)
(***************************************************************************)
EXTENDS Integers, Sequences, FiniteSets, Functions

CONSTANTS Targets,       \* number of members to add
          ChunkCount,    \* chunks of the file
          WindowSize,    \* AttachmentUploadJob::WindowSize
          MaxBreaks,     \* bound on broken connections
          MaxDownloads   \* bound on downloads of each member

ASSUME UploadAssumption ==
    /\ {Targets, ChunkCount, WindowSize} \subseteq Nat \ {0}
    /\ {MaxBreaks, MaxDownloads} \subseteq Nat

Members == 1 .. Targets
Clients == 0 .. Targets
Chunks == 0 .. ChunkCount - 1

VARIABLES link,    \* state of each client's connection
          up,      \* requests on their way to the server
          down,    \* messages on their way to each client
          s,       \* the sender's worker
          g,       \* the group's control state at the server
          store,   \* the attachment at the server
          t,       \* the workers of the members
          breaks   \* broken connections so far

vars == <<link, up, down, s, g, store, t, breaks>>

Message(type, i, epoch) == [type |-> type, i |-> i, epoch |-> epoch, got |-> {}, ok |-> TRUE]
Error(m) == [m EXCEPT !.ok = FALSE]

Types == {"fetch", "proposal", "commit", "welcome", "accept", "init", "chunk", "resume", "publish",
          "chat", "download"}
Messages == [type : Types, i : 0 .. ChunkCount + Targets, epoch : 0 .. Targets,
             got : SUBSET Chunks, ok : BOOLEAN]
Phases == {"none", "proposal", "commit", "welcome"}

TypeOK ==
    /\ link \in [Clients -> {"up", "broken", "down"}]
    /\ \A c \in Clients : Range(up[c]) \cup Range(down[c]) \subseteq Messages
    /\ s \in [started : BOOLEAN, setup : -1 .. Targets, fetches : SUBSET Members, adds : SUBSET Members,
              op : [Members -> Phases], epoch : 0 .. Targets, file : BOOLEAN, init : BOOLEAN,
              status : {"none", "uploading", "completed", "failed"}, received : SUBSET Chunks,
              registered : SUBSET Chunks, chunks : SUBSET Chunks, job : BOOLEAN, next : 0 .. ChunkCount,
              inFlight : 0 .. WindowSize, manifest : BOOLEAN, interrupted : BOOLEAN,
              resumed : {"no", "running", "interrupted"},
              told : {"nothing", "error", "mls_error", "committed"}]
    /\ g \in [proposals : SUBSET Members, commits : SUBSET Members, epoch : 0 .. Targets,
              pending : 0 .. Targets, active : SUBSET Members]
    /\ store \in [upload : BOOLEAN, stored : SUBSET Chunks, committed : BOOLEAN, announced : BOOLEAN]
    /\ t \in [Members -> [epoch : 0 .. Targets, proposal : 0 .. Targets, gap : BOOLEAN, manifest : BOOLEAN,
                          next : -1 .. ChunkCount, part : SUBSET Chunks, file : SUBSET Chunks,
                          downloads : 0 .. MaxDownloads]]
    /\ breaks \in 0 .. MaxBreaks

Init ==
    /\ link = [c \in Clients |-> "up"]
    /\ up = [c \in Clients |-> <<>>]
    /\ down = [c \in Clients |-> <<>>]
    /\ s = [started |-> FALSE, setup |-> -1, fetches |-> {}, adds |-> {}, op |-> [i \in Members |-> "none"],
            epoch |-> 0, file |-> FALSE, init |-> FALSE, status |-> "none", received |-> {},
            registered |-> {}, chunks |-> {}, job |-> FALSE, next |-> 0, inFlight |-> 0,
            manifest |-> FALSE, interrupted |-> FALSE, resumed |-> "no", told |-> "nothing"]
    /\ g = [proposals |-> {}, commits |-> {}, epoch |-> 0, pending |-> 0, active |-> {}]
    /\ store = [upload |-> FALSE, stored |-> {}, committed |-> FALSE, announced |-> FALSE]
    /\ t = [m \in Members |-> [epoch |-> 0, proposal |-> 0, gap |-> FALSE, manifest |-> FALSE,
                               next |-> -1, part |-> {}, file |-> {}, downloads |-> 0]]
    /\ breaks = 0

(***************************************************************************)
(* The sender                                                              *)
(***************************************************************************)

\* A handler of the sender ends: it sends out and is in state sent, or its
\* first message that fails leaves it in a state of failed.
Ends(sent, out, failed) ==
    \/ /\ link[0] = "up"
       /\ s' = sent
       /\ up' = [up EXCEPT ![0] = @ \o out]
    \/ /\ link[0] = "broken"
       /\ s' \in failed \cup {sent}
       /\ UNCHANGED up

Tell(w, what) == [w EXCEPT !.told = what]

\* The sender takes the next message of its connection.
Receives(type, ok) ==
    /\ link[0] # "down"
    /\ down[0] # <<>>
    /\ Head(down[0]).type = type
    /\ Head(down[0]).ok = ok
    /\ down' = [down EXCEPT ![0] = Tail(@)]
    /\ UNCHANGED <<link, g, store, t, breaks>>

Index == Head(down[0]).i

\* Variant of FailAttachmentMlsSetup: the setup ends without a report.
ForgetAttachmentMlsSetup(w) == [w EXCEPT !.setup = -1, !.fetches = {}, !.adds = {}]

FailAttachmentMlsSetup(w) == Tell([w EXCEPT !.setup = -1, !.fetches = {}, !.adds = {}], "error")

\* The next member's key package, or, all members added, the upload itself,
\* unless the file can no longer be read.
StartNextAttachmentMlsSetup(w) ==
    \/ /\ w.setup = Targets
       /\ LET ready == [w EXCEPT !.setup = -1, !.file = TRUE, !.init = TRUE]
          IN  Ends(ready, <<Message("init", 0, 0)>>, {Tell([ready EXCEPT !.init = FALSE], "error")})
    \/ /\ w.setup = Targets
       /\ s' = FailAttachmentMlsSetup(w)
       /\ UNCHANGED up
    \/ /\ w.setup \in 0 .. Targets - 1
       /\ LET i == w.setup + 1
              asked == [w EXCEPT !.fetches = @ \cup {i}]
          IN  Ends(asked, <<Message("fetch", i, 0)>>, {Tell(asked, "mls_error")})

\* Without a connection fetchMlsKeyPackage reports at once that there is none.
StartAttachmentUpload ==
    /\ ~s.started
    /\ LET w == [s EXCEPT !.started = TRUE, !.setup = 0]
       IN  \/ link[0] # "down" /\ StartNextAttachmentMlsSetup(w)
           \/ /\ link[0] = "down"
              /\ s' = Tell([w EXCEPT !.fetches = {1}], "mls_error")
              /\ UNCHANGED up
    /\ UNCHANGED <<link, down, g, store, t, breaks>>

\* addMlsMember applies its commit to the local group before the server has
\* seen the proposal.  It may fail before it sends anything.
AddMlsMember(w, i) ==
    LET added == [w EXCEPT !.op[i] = "proposal"]
    IN  \/ Ends(added, <<Message("proposal", i, w.epoch + 1)>>, {Tell(w, "mls_error")})
        \/ s' = Tell(w, "mls_error") /\ UNCHANGED up

KeyPackageFetched ==
    LET w == [s EXCEPT !.fetches = @ \ {Index}]
    IN  /\ Receives("fetch", TRUE)
        /\ IF Index \in s.fetches /\ s.setup >= 0
             THEN AddMlsMember([w EXCEPT !.adds = @ \cup {Index}], Index)
             ELSE s' = w /\ UNCHANGED up

ProposalAccepted ==
    LET committing == [s EXCEPT !.op[Index] = "commit"]
    IN  /\ Receives("proposal", TRUE)
        /\ IF s.op[Index] = "proposal"
             THEN Ends(committing, <<Message("commit", Index, s.epoch + 1)>>,
                       {Tell([s EXCEPT !.op[Index] = "none"], "mls_error")})
             ELSE UNCHANGED <<s, up>>

CommitAccepted ==
    LET w == [s EXCEPT !.epoch = @ + 1]
    IN  /\ Receives("commit", TRUE)
        /\ IF s.op[Index] = "commit"
             THEN Ends([w EXCEPT !.op[Index] = "welcome"], <<Message("welcome", Index, w.epoch)>>,
                       {Tell([w EXCEPT !.op[Index] = "none"], "mls_error")})
             ELSE UNCHANGED <<s, up>>

\* The member is added; the sender goes on without waiting for the member to
\* accept the welcome.
WelcomeAccepted ==
    LET w == [s EXCEPT !.op[Index] = "none", !.adds = @ \ {Index}]
    IN  /\ Receives("welcome", TRUE)
        /\ \/ s.op[Index] # "welcome" /\ UNCHANGED <<s, up>>
           \/ /\ s.op[Index] = "welcome" /\ Index \in s.adds /\ s.setup >= 0
              /\ StartNextAttachmentMlsSetup([w EXCEPT !.setup = @ + 1])
           \/ /\ s.op[Index] = "welcome" /\ ~(Index \in s.adds /\ s.setup >= 0)
              /\ s' = w /\ UNCHANGED up

\* The server refuses a fetch, or a step of an addition.
MlsRefused ==
    /\ \E type \in {"fetch", "proposal", "commit", "welcome"} : Receives(type, FALSE)
    /\ LET w == IF Head(down[0]).type = "fetch" THEN s ELSE [s EXCEPT !.op[Index] = "none"]
           mine == IF Head(down[0]).type = "fetch" THEN s.fetches ELSE s.adds
       IN  s' = IF Index \in mine THEN FailAttachmentMlsSetup(w) ELSE w
    /\ UNCHANGED up

\* The chunks that sendNextAttachmentChunk may send now.
SendNow(w) == {c \in Chunks : w.next <= c /\ c < w.next + WindowSize - w.inFlight}

\* The job after it has handed the chunks below c to the connection.
SentUpTo(w, c) ==
    LET new == w.next .. c - 1
    IN  [w EXCEPT !.next = c, !.inFlight = @ + Cardinality(new), !.registered = @ \cup new, !.chunks = @ \cup new]

TransferFails(w) == [w EXCEPT !.status = IF @ = "completed" THEN @ ELSE "failed"]

\* Fills the window.  A chunk that cannot be sent fails the transfer and leaves
\* the job; one that cannot be read or encrypted ends the job.
SendNextAttachmentChunk(w) ==
    LET n == Cardinality(SendNow(w))
        out == [k \in 1 .. n |-> Message("chunk", w.next + k - 1, 0)]
        unsent(c) == [SentUpTo(w, c + 1) EXCEPT !.chunks = @ \ {c}]
    IN  \/ Ends(SentUpTo(w, w.next + n), out, {Tell(TransferFails(unsent(c)), "error") : c \in SendNow(w)})
        \/ \E k \in 0 .. n - 1 :
             /\ s' = Tell(TransferFails([SentUpTo(w, w.next + k) EXCEPT !.job = FALSE]), "error")
             /\ up' = IF link[0] = "up" THEN [up EXCEPT ![0] = @ \o SubSeq(out, 1, k)] ELSE up

\* The answer to attachment.init: the transfer and, if the file opens, the job.
InitAccepted ==
    LET w == [s EXCEPT !.init = FALSE, !.file = FALSE, !.status = "uploading"]
    IN  /\ Receives("init", TRUE)
        /\ \/ ~s.init /\ UNCHANGED <<s, up>>
           \/ s.init /\ ~s.file /\ s' = w /\ UNCHANGED up
           \/ s.init /\ s.file /\ SendNextAttachmentChunk([w EXCEPT !.job = TRUE])
           \/ s.init /\ s.file /\ s' = Tell(w, "error") /\ UNCHANGED up

InitRefused ==
    /\ Receives("init", FALSE)
    /\ s' = Tell([s EXCEPT !.init = FALSE, !.file = FALSE], "error")
    /\ UNCHANGED up

\* Variant of Finished: the last chunk was sent, other chunks may be missing.
LastSent(w) == w.next = ChunkCount

\* lastChunkSent, and nothing in flight
Finished(w) == w.next = ChunkCount /\ w.inFlight = 0

\* Variant of CommitRequest: the manifest is sent along.
CommitAndManifest == <<Message("publish", 0, 0), Message("chat", 0, s.epoch)>>

\* What the worker sends when all chunks are acknowledged.
CommitRequest == <<Message("publish", 0, 0)>>

\* The answer to a chunk.  acceptChunkAck wants the command to be registered
\* and the transfer to be uploading; otherwise the job is left alone.
ChunkAccepted ==
    LET accepted == Index \in s.registered /\ s.status = "uploading"
        w == [s EXCEPT !.chunks = @ \ {Index}, !.registered = @ \ {Index}]
        counted == [w EXCEPT !.received = @ \cup {Index},
                             !.status = IF w.received \cup {Index} = Chunks THEN "completed" ELSE @,
                             !.inFlight = IF w.job THEN @ - 1 ELSE @]
        done == [counted EXCEPT !.job = FALSE, !.manifest = TRUE]
    IN  /\ Receives("chunk", TRUE)
        /\ \/ Index \notin s.chunks /\ UNCHANGED <<s, up>>
           \/ Index \in s.chunks /\ ~accepted /\ s' = w /\ UNCHANGED up
           \/ Index \in s.chunks /\ accepted /\ ~s.job /\ s' = counted /\ UNCHANGED up
           \/ /\ Index \in s.chunks /\ accepted /\ s.job
              /\ IF Finished(counted)
                   THEN Ends(done, CommitRequest, {Tell(done, "error")})
                   ELSE SendNextAttachmentChunk(counted)

\* A refused chunk fails the transfer and forgets all its chunks.
ChunkRefused ==
    /\ Receives("chunk", FALSE)
    /\ s' = Tell(IF Index \in s.chunks THEN [TransferFails(s) EXCEPT !.job = FALSE, !.chunks = {}] ELSE s, "error")
    /\ UNCHANGED up

\* The attachment is committed: the manifest goes to the channel, under the key
\* of the group's epoch.  If it cannot be sent it is not kept.
CommitConfirmed ==
    /\ Receives("publish", TRUE)
    /\ LET w == Tell([s EXCEPT !.manifest = FALSE], "committed")
       IN  Ends(w, IF s.manifest THEN <<Message("chat", 0, s.epoch)>> ELSE <<>>, {w})

CommitRefused ==
    /\ Receives("publish", FALSE)
    /\ s' = Tell(s, "error")
    /\ UNCHANGED up

\* The user asks to go on with an upload; interrupted only records whether the
\* connection was lost during it.
ResumeAttachment ==
    /\ s.status # "none"
    /\ s.resumed = "no"
    /\ LET w == [s EXCEPT !.resumed = IF s.interrupted THEN "interrupted" ELSE "running"]
       IN  \/ link[0] # "down" /\ Ends(w, <<Message("resume", 0, 0)>>, {Tell(w, "error")})
           \/ link[0] = "down" /\ s' = Tell(w, "error") /\ UNCHANGED up
    /\ UNCHANGED <<link, down, g, store, t, breaks>>

\* acceptResume takes over the server's chunks and forgets the commands that
\* are under way.  Nothing is sent.
ResumeAnswered ==
    /\ Receives("resume", TRUE)
    /\ LET got == Head(down[0]).got
       IN  s' = IF s.status = "uploading"
                  THEN [s EXCEPT !.received = got, !.registered = {},
                                 !.status = IF got = Chunks THEN "completed" ELSE "uploading"]
                  ELSE s
    /\ UNCHANGED up

ResumeRefused ==
    /\ Receives("resume", FALSE)
    /\ s' = Tell(s, "error")
    /\ UNCHANGED up

\* After a reconnection proposals and commits are sent again; a welcome is not,
\* as the server keeps it.
ResumePendingMlsOperations ==
    LET open == {i \in Members : s.op[i] \in {"proposal", "commit"}}
        n == Cardinality(open)
    IN  /\ link[0] = "down"
        /\ link' = [link EXCEPT ![0] = "up"]
        /\ s' = [s EXCEPT !.op = [i \in Members |-> IF @[i] = "welcome" THEN "none" ELSE @[i]]]
        /\ \E order \in Bijection(1 .. n, open) :
              up' = [up EXCEPT ![0] = [k \in 1 .. n |-> Message(s.op[order[k]], order[k], s.epoch + 1)]]
        /\ UNCHANGED <<down, g, store, t, breaks>>

(***************************************************************************)
(* The server                                                              *)
(***************************************************************************)

Takes(c, type) == up[c] # <<>> /\ Head(up[c]).type = type

\* The server answers client c and tells others; a connection that is not up
\* gets nothing.
Delivers(c, messages) ==
    /\ up' = [up EXCEPT ![c] = Tail(@)]
    /\ down' = [d \in Clients |-> IF link[d] = "up" THEN down[d] \o messages[d] ELSE down[d]]
    /\ UNCHANGED <<link, s, t, breaks>>

Only(c, m) == [d \in Clients |-> IF d = c THEN <<m>> ELSE <<>>]
Others(set, m, own) == [d \in Clients |-> IF d = 0 THEN <<own>> ELSE IF d \in set THEN <<m>> ELSE <<>>]

\* Any request may be refused: no access to the channel, no quota, an error of
\* the store.
Refuse(c) ==
    /\ up[c] # <<>>
    /\ Head(up[c]).type \notin {"chat", "accept"}
    /\ Delivers(c, Only(c, Error(Head(up[c]))))
    /\ UNCHANGED <<g, store>>

HandleFetch ==
    /\ Takes(0, "fetch")
    /\ Delivers(0, Only(0, Head(up[0])))
    /\ UNCHANGED <<g, store>>

\* Variant of MayChangeGroup: a pending welcome does not matter.
MayChangeAtOnce(m) == m.epoch >= g.epoch

\* A proposal or commit is not for an earlier epoch, and waits for the
\* acceptance of the welcome before it.
MayChangeGroup(m) == g.pending = 0 /\ m.epoch >= g.epoch

\* A known proposal is acknowledged again.
HandleProposal ==
    LET m == Head(up[0])
    IN  /\ Takes(0, "proposal")
        /\ m.i \in g.proposals \/ MayChangeGroup(m)
        /\ g' = [g EXCEPT !.proposals = @ \cup {m.i}]
        /\ Delivers(0, IF m.i \in g.proposals THEN Only(0, m) ELSE Others(g.active, m, m))
        /\ UNCHANGED store

HandleCommit ==
    LET m == Head(up[0])
    IN  /\ Takes(0, "commit")
        /\ m.i \in g.commits \/ (m.i \in g.proposals /\ MayChangeGroup(m) /\ m.epoch = g.epoch + 1)
        /\ g' = [g EXCEPT !.commits = @ \cup {m.i}, !.epoch = m.epoch]
        /\ Delivers(0, IF m.i \in g.commits THEN Only(0, m) ELSE Others(g.active, m, m))
        /\ UNCHANGED store

HandleWelcome ==
    LET m == Head(up[0])
    IN  /\ Takes(0, "welcome")
        /\ m.i \in g.commits /\ m.epoch = g.epoch
        /\ g' = [g EXCEPT !.pending = m.i]
        /\ Delivers(0, Others({m.i}, m, m))
        /\ UNCHANGED store

HandleWelcomeAccept(c) ==
    /\ Takes(c, "accept")
    /\ g' = IF g.pending = c THEN [g EXCEPT !.pending = 0, !.active = @ \cup {c}] ELSE g
    /\ Delivers(c, [d \in Clients |-> <<>>])
    /\ UNCHANGED store

HandleAttachmentInit ==
    /\ Takes(0, "init")
    /\ store' = [store EXCEPT !.upload = TRUE]
    /\ Delivers(0, Only(0, Head(up[0])))
    /\ UNCHANGED g

HandleAttachmentChunk ==
    /\ Takes(0, "chunk")
    /\ store.upload /\ ~store.committed
    /\ Head(up[0]).i \in Chunks
    /\ store' = [store EXCEPT !.stored = @ \cup {Head(up[0]).i}]
    /\ Delivers(0, Only(0, Head(up[0])))
    /\ UNCHANGED g

HandleAttachmentResume ==
    /\ Takes(0, "resume")
    /\ Delivers(0, Only(0, [Head(up[0]) EXCEPT !.got = store.stored]))
    /\ UNCHANGED <<g, store>>

HandleAttachmentCommit ==
    /\ Takes(0, "publish")
    /\ store.stored = Chunks
    /\ store' = [store EXCEPT !.committed = TRUE]
    /\ Delivers(0, Only(0, Head(up[0])))
    /\ UNCHANGED g

\* The manifest is a chat message: it goes to everyone in the channel.
HandleChat ==
    /\ Takes(0, "chat")
    /\ store' = [store EXCEPT !.announced = TRUE]
    /\ Delivers(0, [d \in Clients |-> IF d = 0 THEN <<>> ELSE <<Head(up[0])>>])
    /\ UNCHANGED g

HandleAttachmentDownload(c) ==
    /\ Takes(c, "download")
    /\ store.committed
    /\ Delivers(c, Only(c, Head(up[c])))
    /\ UNCHANGED <<g, store>>

(***************************************************************************)
(* A member                                                                *)
(***************************************************************************)

MemberReceives(m, type, ok) ==
    /\ link[m] # "down"
    /\ down[m] # <<>>
    /\ Head(down[m]).type = type
    /\ Head(down[m]).ok = ok
    /\ down' = [down EXCEPT ![m] = Tail(@)]
    /\ UNCHANGED <<link, s, g, store, breaks>>

MemberSends(m, out) == up' = IF link[m] = "up" THEN [up EXCEPT ![m] = Append(@, out)] ELSE up

\* A welcome is joined once; the same welcome again is only accepted again.
ReceiveWelcome(m) ==
    LET epoch == Head(down[m]).epoch
    IN  /\ MemberReceives(m, "welcome", TRUE)
        /\ t' = IF t[m].epoch = 0 THEN [t EXCEPT ![m].epoch = epoch] ELSE t
        /\ IF t[m].epoch \in {0, epoch} THEN MemberSends(m, Message("accept", m, epoch)) ELSE UNCHANGED up

ReceiveProposal(m) ==
    /\ MemberReceives(m, "proposal", TRUE)
    /\ t' = IF t[m].epoch > 0 THEN [t EXCEPT ![m].proposal = Head(down[m]).epoch] ELSE t
    /\ UNCHANGED up

\* Only the next epoch's commit, whose proposal was seen, is applied.
MayApply(w, epoch) == w.epoch > 0 /\ epoch = w.epoch + 1 /\ w.proposal = epoch

ReceiveCommit(m) ==
    /\ MemberReceives(m, "commit", TRUE)
    /\ t' = IF MayApply(t[m], Head(down[m]).epoch) THEN [t EXCEPT ![m].epoch = Head(down[m]).epoch] ELSE t
    /\ UNCHANGED up

ReceiveManifest(m) ==
    /\ MemberReceives(m, "chat", TRUE)
    /\ t' = IF t[m].epoch = Head(down[m]).epoch THEN [t EXCEPT ![m].manifest = TRUE] ELSE t
    /\ UNCHANGED up

\* The part file is begun before the request is sent; an older download of the
\* same attachment is replaced.
StartAttachmentDownload(m) ==
    /\ t[m].manifest
    /\ t[m].downloads < MaxDownloads
    /\ t' = [t EXCEPT ![m] = [t[m] EXCEPT !.next = 0, !.part = {}, !.downloads = @ + 1]]
    /\ MemberSends(m, Message("download", 0, 0))
    /\ UNCHANGED <<link, down, s, g, store, breaks>>

Complete(i) == i + 1 = ChunkCount

\* acceptChunk and finalize: the file appears when its last chunk is written.
AcceptDownloadedChunk(m) ==
    LET i == Head(down[m]).i
        part == t[m].part \cup {i}
    IN  /\ MemberReceives(m, "download", TRUE)
        /\ t[m].next # -1 /\ t[m].next = i
        /\ IF Complete(i)
             THEN /\ \/ t' = [t EXCEPT ![m] = [@ EXCEPT !.next = -1, !.part = {}, !.file = part]]
                     \/ t' = [t EXCEPT ![m] = [@ EXCEPT !.next = -1, !.part = {}, !.file = {}]]
                  /\ UNCHANGED up
             ELSE /\ t' = [t EXCEPT ![m] = [@ EXCEPT !.next = i + 1, !.part = part]]
                  /\ MemberSends(m, Message("download", i + 1, 0))

\* A chunk out of order, or one that does not verify, ends the download and
\* removes the part file; without a download the chunk is ignored.
RejectDownloadedChunk(m) ==
    /\ MemberReceives(m, "download", TRUE)
    /\ t' = [t EXCEPT ![m] = [@ EXCEPT !.next = -1, !.part = {}]]
    /\ UNCHANGED up

\* A refused download is reported and stays open.
DownloadRefused(m) ==
    /\ MemberReceives(m, "download", FALSE)
    /\ UNCHANGED <<t, up>>

(***************************************************************************)
(* Connections                                                             *)
(***************************************************************************)

Break(c) ==
    /\ link[c] = "up"
    /\ breaks < MaxBreaks
    /\ link' = [link EXCEPT ![c] = "broken"]
    /\ up' = [up EXCEPT ![c] = <<>>]
    /\ breaks' = breaks + 1
    /\ t' = IF c = 0 THEN t ELSE [t EXCEPT ![c].gap = TRUE]
    /\ UNCHANGED <<down, s, g, store>>

ReceiveFails(c) ==
    /\ link[c] = "broken"
    /\ link' = [link EXCEPT ![c] = "down"]
    /\ down' = [down EXCEPT ![c] = <<>>]
    /\ s' = IF c = 0 THEN [s EXCEPT !.interrupted = @ \/ s.job] ELSE s
    /\ UNCHANGED <<up, g, store, t, breaks>>

\* A member that logs in again is sent its pending welcome.
MemberReturns(m) ==
    /\ link[m] = "down"
    /\ link' = [link EXCEPT ![m] = "up"]
    /\ down' = [down EXCEPT ![m] = IF g.pending = m THEN <<Message("welcome", m, g.epoch)>> ELSE <<>>]
    /\ UNCHANGED <<up, s, g, store, t, breaks>>

Sender ==
    \/ KeyPackageFetched \/ ProposalAccepted \/ CommitAccepted \/ WelcomeAccepted \/ MlsRefused
    \/ InitAccepted \/ InitRefused \/ ChunkAccepted \/ ChunkRefused
    \/ CommitConfirmed \/ CommitRefused \/ ResumeAnswered \/ ResumeRefused

Answer ==
    \/ HandleFetch \/ HandleProposal \/ HandleCommit \/ HandleWelcome
    \/ HandleAttachmentInit \/ HandleAttachmentChunk \/ HandleAttachmentResume
    \/ HandleAttachmentCommit \/ HandleChat
    \/ \E c \in Members : HandleWelcomeAccept(c) \/ HandleAttachmentDownload(c)

Server == Answer \/ \E c \in Clients : Refuse(c)

Member ==
    \E m \in Members :
        \/ ReceiveWelcome(m) \/ ReceiveProposal(m) \/ ReceiveCommit(m) \/ ReceiveManifest(m)
        \/ AcceptDownloadedChunk(m) \/ RejectDownloadedChunk(m) \/ DownloadRefused(m)

User == StartAttachmentUpload \/ ResumeAttachment \/ \E m \in Members : StartAttachmentDownload(m)

Returns == ResumePendingMlsOperations \/ \E m \in Members : MemberReturns(m)

Network == Returns \/ \E c \in Clients : Break(c) \/ ReceiveFails(c)

Next == Sender \/ Server \/ Member \/ User \/ Network

Spec == Init /\ [][Next]_vars

\* The threads of the clients and the server run, and connections that broke
\* are noticed and made again.
FairSpec ==
    /\ Spec
    /\ WF_vars(Sender) /\ WF_vars(Server) /\ WF_vars(Member)
    /\ WF_vars(Returns) /\ WF_vars(\E c \in Clients : ReceiveFails(c))

(***************************************************************************)
(* Properties                                                              *)
(***************************************************************************)

Exchange == INSTANCE FileExchange WITH
    stored <- store.stored, published <- store.committed, announced <- store.announced,
    saved <- [m \in Members |-> t[m].file]

\* The exchange of messages implements FileExchange: whatever is refused, lost
\* or repeated, the attachment is published when the server has all chunks and
\* announced only then, and no member ever has a part of the file.
ImplementsFileExchange == Exchange!Spec

\* The commit is asked for only when the server has every chunk: the worker's
\* count of chunks in flight never runs ahead of the acknowledgements.
CommitsWholeFiles ==
    \A k \in DOMAIN up[0] : up[0][k].type = "publish" => store.stored = Chunks

\* Every member that has not lost a message can read the manifest when it
\* comes: its copy of the group is in the epoch whose key protects it, although
\* the sender never waits for a member.
ManifestReadable ==
    \A m \in Members :
        (~t[m].gap /\ down[m] # <<>> /\ Head(down[m]).type = "chat") => t[m].epoch = Head(down[m]).epoch

\* While the sender's connection holds and the user does not interfere, an
\* upload that was started ends: the attachment is committed or a failure of
\* one of its commands is reported.
UploadEnds ==
    [](link[0] = "up" /\ s.resumed = "no") => (s.started ~> s.told # "nothing")

\* After an interruption the user resumes the upload and it goes on: with a
\* connection that lasts it is committed or reported as failed.
ResumedUploadEnds ==
    (s.resumed = "interrupted" /\ [](link[0] = "up")) ~> s.told # "nothing"
=============================================================================
