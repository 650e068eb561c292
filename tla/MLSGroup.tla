------------------------------ MODULE MLSGroup ------------------------------
(***************************************************************************)
(* The server's control state of one MLS group: the rows of the mls_*      *)
(* tables for one group_id (server-go/auth_store.go) and the Hub handlers  *)
(* that write them (server-go/hub.go).  Payloads are opaque to the server  *)
(* and compared for equality only; a digest stands for its payload.        *)
(*                                                                         *)
(* Every store method is one SQL transaction, so one step.  A request that *)
(* is refused, or recognised as a repetition, changes no row: the guard of *)
(* each action is the condition under which its method inserts, and        *)
(* Refused stands for all the other outcomes.  Which requests reach a      *)
(* store method is decided by the sender's place in the channels (module   *)
(* Hub), which may be anything here: it can only refuse more.              *)
(*                                                                         *)
(* A definition marked variant is the one after it with a plausible        *)
(* mistake in it, which a property must notice; nothing else uses it.      *)
(***************************************************************************)
EXTENDS Integers, FiniteSets

CONSTANTS
    Codes,        \* normalized user codes
    Rooms,        \* channel names
    ProposalIDs,  \* proposal_id values
    Payloads,     \* opaque proposals, commits and welcomes
    MaxEpoch,     \* bound on the epochs requests name
    None          \* the empty proposal_id, target; no mls_groups row

ASSUME MLSAssumption ==
    /\ MaxEpoch \in Nat
    /\ None \notin Codes /\ None \notin Rooms /\ None \notin ProposalIDs

VARIABLES
    room,         \* mls_groups.room, None while the group has no row
    epoch,        \* mls_groups.current_epoch
    active,       \* the codes with active = 1 in mls_group_members
    proposals,    \* mls_group_proposals
    commits,      \* mls_group_epochs
    welcomes      \* mls_group_welcomes

vars == <<room, epoch, active, proposals, commits, welcomes>>

Epochs == 0..MaxEpoch

Proposal == [epoch : Epochs, id : ProposalIDs, data : Payloads,
             action : {"add", "remove"}, target : Codes \cup {None},
             snapshot : SUBSET Codes]
Commit == [epoch : Epochs, id : ProposalIDs \cup {None}, data : Payloads]
Welcome == [epoch : Epochs, target : Codes, id : ProposalIDs \cup {None},
            data : Payloads, accepted : BOOLEAN]

Init ==
    /\ room = None
    /\ epoch = -1
    /\ active = {}
    /\ proposals = {}
    /\ commits = {}
    /\ welcomes = {}

-----------------------------------------------------------------------------
GroupExists == room # None          \* MLSGroupHasControlState

CommitsAt(e) == {c \in commits : c.epoch = e}

AnyCommit(e) == FALSE                                     \* variant
AlreadyCommitted(e) == CommitsAt(e) # {}

NothingPending == FALSE                                   \* variant

\* hasPendingMLSWelcome
PendingWelcome ==
    \E w \in welcomes, p \in proposals :
        /\ ~w.accepted
        /\ p.epoch = w.epoch /\ p.id = w.id /\ p.action = "add"

\* The channel is the group's and the epoch is not behind.
NotBehind(r, e) == GroupExists => room = r /\ e >= epoch

\* What both ways of storing a proposal require: neither its ID nor its digest
\* is known at this epoch, the channel is the group's, the epoch is not behind.
FreshProposal(r, e, id, data) ==
    /\ \A p \in proposals : p.epoch = e => p.id # id /\ p.data # data
    /\ NotBehind(r, e)
    /\ ~PendingWelcome

\* handleMLSGroupProposal without action and target: the columns of the member
\* path get their defaults.
SaveMLSProposal(r, e, id, data) ==
    /\ FreshProposal(r, e, id, data)
    /\ proposals' = proposals \cup
         {[epoch |-> e, id |-> id, data |-> data,
           action |-> "add", target |-> None, snapshot |-> {}]}
    /\ room' = r
    /\ UNCHANGED <<epoch, active, commits, welcomes>>

ReFounding(sender) == IF active = {} THEN {sender} ELSE active   \* variant
Members(sender) == IF active = {} /\ epoch < 0 THEN {sender} ELSE active

\* handleMLSGroupProposal with action and target.  The first proposal makes
\* its sender the first member.
SaveMLSProposalForMember(sender, action, target, r, e, id, data) ==
    LET members == Members(sender)
    IN  /\ FreshProposal(r, e, id, data)
        /\ sender \in members
        /\ action = "add" => target \notin members
        /\ action = "remove" => target \in members
        /\ proposals' = proposals \cup
             {[epoch |-> e, id |-> id, data |-> data,
               action |-> action, target |-> target, snapshot |-> members]}
        /\ active' = members
        /\ room' = r
        /\ UNCHANGED <<epoch, commits, welcomes>>

\* current_epoch = MAX(current_epoch, e)
EpochAfter(e) == IF epoch < e THEN e ELSE epoch

\* handleMLSGroupCommit without a proposal ID: any epoch that is not behind
\* and has a proposal.
SaveMLSCommit(r, e, data) ==
    /\ ~AlreadyCommitted(e)
    /\ NotBehind(r, e)
    /\ ~PendingWelcome
    /\ \E p \in proposals : p.epoch = e
    /\ commits' = commits \cup {[epoch |-> e, id |-> None, data |-> data]}
    /\ epoch' = EpochAfter(e)
    /\ room' = r
    /\ UNCHANGED <<active, proposals, welcomes>>

\* Variant: an add takes effect before its welcome is accepted.
AddAtOnce(p) ==
    IF p.action = "remove" THEN active \ {p.target} ELSE active \cup {p.target}
MembersAfter(p) ==
    IF p.action = "remove" THEN active \ {p.target} ELSE active

\* handleMLSGroupCommit with a proposal ID: the sender is a member, the epoch
\* the next one (any one for the first commit).  A removal takes effect here.
SaveMLSCommitForMember(sender, p, r, e, data) ==
    /\ p \in proposals /\ p.epoch = e
    /\ ~AlreadyCommitted(e)
    /\ GroupExists /\ room = r
    /\ ~PendingWelcome
    /\ epoch >= 0 => e = epoch + 1
    /\ sender \in active
    /\ commits' = commits \cup {[epoch |-> e, id |-> p.id, data |-> data]}
    /\ epoch' = e
    /\ active' = MembersAfter(p)
    /\ UNCHANGED <<room, proposals, welcomes>>

\* handleMLSGroupWelcome for a group the server has never heard of.
SaveMLSWelcome(r, e, target, data) ==
    /\ ~GroupExists
    /\ welcomes' = welcomes \cup
         {[epoch |-> e, target |-> target, id |-> None, data |-> data,
           accepted |-> TRUE]}
    /\ room' = r
    /\ UNCHANGED <<epoch, active, proposals, commits>>

\* handleMLSGroupWelcome for a group with a row: the welcome must belong to
\* the add that the current epoch's commit carried out.
SaveMLSWelcomeForMember(sender, target, id, r, e, data) ==
    /\ GroupExists /\ room = r /\ epoch = e
    /\ sender \in active
    /\ \E p \in proposals :
         p.epoch = e /\ p.id = id /\ p.action = "add" /\ p.target = target
    /\ \E c \in commits : c.epoch = e /\ c.id = id
    /\ \A w \in welcomes : ~(w.epoch = e /\ w.target = target)
    /\ welcomes' = welcomes \cup
         {[epoch |-> e, target |-> target, id |-> id, data |-> data,
           accepted |-> FALSE]}
    /\ UNCHANGED <<room, epoch, active, proposals, commits>>

\* handleMLSGroupWelcomeAccept: the target, and nobody else, becomes a member.
AcceptMLSWelcomeForMember(target, id, r, e, data) ==
    LET pending == [epoch |-> e, target |-> target, id |-> id, data |-> data,
                    accepted |-> FALSE]
    IN  /\ pending \in welcomes
        /\ room = r /\ epoch = e
        /\ welcomes' = (welcomes \ {pending})
                         \cup {[pending EXCEPT !.accepted = TRUE]}
        /\ active' = active \cup {target}
        /\ UNCHANGED <<room, epoch, proposals, commits>>

\* PendingMLSWelcomes fails for a target that has a pending welcome of another
\* epoch than its group's.
StaleWelcome(w) == ~w.accepted /\ w.epoch # epoch

Refused == UNCHANGED vars

-----------------------------------------------------------------------------
ProposalStep ==
    \E r \in Rooms, e \in Epochs, id \in ProposalIDs, data \in Payloads :
        \/ SaveMLSProposal(r, e, id, data)
        \/ \E sender, target \in Codes, action \in {"add", "remove"} :
             SaveMLSProposalForMember(sender, action, target, r, e, id, data)

CommitStep ==
    \E r \in Rooms, e \in Epochs, data \in Payloads :
        \/ SaveMLSCommit(r, e, data)
        \/ \E sender \in Codes, p \in proposals :
             SaveMLSCommitForMember(sender, p, r, e, data)

WelcomeStep ==
    \E r \in Rooms, e \in Epochs, target \in Codes, data \in Payloads :
        \/ SaveMLSWelcome(r, e, target, data)
        \/ \E id \in ProposalIDs :
             \/ AcceptMLSWelcomeForMember(target, id, r, e, data)
             \/ \E sender \in Codes :
                  SaveMLSWelcomeForMember(sender, target, id, r, e, data)

Next == ProposalStep \/ CommitStep \/ WelcomeStep \/ Refused

Spec == Init /\ [][Next]_vars

-----------------------------------------------------------------------------
(* Properties.                                                              *)

\* Every table holds rows of its type.
TypeOK ==
    /\ room \in Rooms \cup {None}
    /\ epoch \in Epochs \cup {-1}
    /\ active \subseteq Codes
    /\ proposals \subseteq Proposal
    /\ commits \subseteq Commit
    /\ welcomes \subseteq Welcome

\* The current epoch is that of the latest stored commit, each epoch has at
\* most one commit and every commit answers a stored proposal (SaveMLSCommit,
\* SaveMLSCommitForMember).
EpochIsLatestCommit ==
    /\ \A c \in commits : c.epoch <= epoch
    /\ epoch >= 0 => \E c \in commits : c.epoch = epoch
    /\ \A c, d \in commits : c.epoch = d.epoch => c = d
    /\ \A c \in commits : \E p \in proposals :
         p.epoch = c.epoch /\ c.id \in {p.id, None}

\* No pending welcome is ever stale: the epoch cannot move past a welcome that
\* was not accepted, by either kind of commit, so PendingMLSWelcomes never
\* fails with ErrMLSWelcomeStale.  At most one welcome is pending.
PendingIsCurrent ==
    /\ \A w \in welcomes : ~StaleWelcome(w)
    /\ \A v, w \in welcomes : ~v.accepted /\ ~w.accepted => v = w

\* Room invitations are not MLS membership: all members but one, the creator,
\* joined by accepting a welcome for an add that a commit carried out
\* (SaveMLSProposalForMember, AcceptMLSWelcomeForMember).
Welcomed(x) ==
    \E w \in welcomes, c \in commits, p \in proposals :
        /\ w.target = x /\ w.accepted
        /\ c.epoch = w.epoch /\ c.id = w.id
        /\ p.epoch = w.epoch /\ p.id = w.id /\ p.action = "add" /\ p.target = x
MembersWereWelcomed ==
    \A x, y \in active : ~Welcomed(x) /\ ~Welcomed(y) => x = y

\* A group that has been committed to and has lost its last member stays
\* without members: neither a proposal nor a welcome revives it
\* (MLSGroupHasControlState: "preventing welcome-based revival").
NoRevival == [][epoch >= 0 /\ active = {} => active' = {}]_vars

\* The stored history only grows: no proposal or commit is replaced or
\* withdrawn, the epoch never goes back, the group keeps its channel, and
\* members leave only by a commit (SaveMLSCommitForMember).
HistoryIsKept ==
    [][/\ commits \subseteq commits' /\ proposals \subseteq proposals'
       /\ epoch' >= epoch
       /\ GroupExists => room' = room
       /\ active \subseteq active' \/ commits' # commits]_vars

=============================================================================
