--------------------------- MODULE MLSGroupProofs ---------------------------
(***************************************************************************)
(* Proofs that the safety properties of MLSGroup hold for every set of     *)
(* user codes, channels, proposals and payloads and every epoch bound.     *)
(*                                                                         *)
(* The properties are not inductive: that a pending welcome is current     *)
(* rests on the refusal of commits while one is pending, which the store   *)
(* decides by a join with the proposals.  IInv therefore adds what each    *)
(* pending welcome comes with (its add, its commit, a member left to have  *)
(* sent it) and the keys of the tables.                                    *)
(***************************************************************************)
EXTENDS MLSGroup, TLAPS

\* The primary keys of mls_group_proposals and mls_group_welcomes.
Keys ==
    /\ \A p, q \in proposals : p.epoch = q.epoch /\ p.id = q.id => p = q
    /\ \A v, w \in welcomes : v.epoch = w.epoch /\ v.target = w.target => v = w

\* Nothing is stored for a group before its row.
RowFirst ==
    ~GroupExists => epoch = -1 /\ proposals = {} /\ commits = {} /\ welcomes = {}

\* What a pending welcome comes with.
Backed(w) ==
    /\ w.epoch = epoch
    /\ \E p \in proposals : /\ p.epoch = w.epoch /\ p.id = w.id
                            /\ p.action = "add" /\ p.target = w.target
    /\ \E c \in commits : c.epoch = w.epoch /\ c.id = w.id
    /\ active # {}

PendingBacked == \A w \in welcomes : ~w.accepted => Backed(w)

IInv ==
    /\ TypeOK
    /\ EpochIsLatestCommit
    /\ Keys
    /\ RowFirst
    /\ PendingBacked

-----------------------------------------------------------------------------
\* The epoch moves, and members leave, only when hasPendingMLSWelcome finds
\* nothing, which means that no welcome at all is pending.
LEMMA NonePending ==
    ASSUME PendingBacked, ~PendingWelcome
    PROVE  \A w \in welcomes : w.accepted
BY DEF PendingBacked, Backed, PendingWelcome

\* Empty tables satisfy the invariant.
LEMMA InitIInv == Init => IInv
BY MLSAssumption DEF Init, IInv, TypeOK, EpochIsLatestCommit, Keys, RowFirst,
   GroupExists, PendingBacked, Epochs

\* SaveMLSProposal keeps the tables consistent.
LEMMA ProposalKeepsIInv ==
    ASSUME IInv, NEW r \in Rooms, NEW e \in Epochs, NEW id \in ProposalIDs,
           NEW data \in Payloads, SaveMLSProposal(r, e, id, data)
    PROVE  IInv'
<1> DEFINE new == [epoch |-> e, id |-> id, data |-> data,
                   action |-> "add", target |-> None, snapshot |-> {}]
<1>1. /\ proposals' = proposals \cup {new} /\ room' = r
      /\ UNCHANGED <<epoch, active, commits, welcomes>>
      /\ FreshProposal(r, e, id, data)
  BY DEF SaveMLSProposal
<1>2. TypeOK'
  BY <1>1 DEF IInv, TypeOK, Proposal
<1>3. EpochIsLatestCommit'
  BY <1>1 DEF IInv, EpochIsLatestCommit
<1>4. Keys'
  <2>1. \A p \in proposals : ~(p.epoch = new.epoch /\ p.id = new.id)
    BY <1>1 DEF FreshProposal
  <2> QED BY <1>1, <2>1, ZenonT(40) DEF IInv, Keys
<1>5. RowFirst'
  BY <1>1, MLSAssumption DEF RowFirst, GroupExists
<1>6. PendingBacked'
  BY <1>1 DEF IInv, PendingBacked, Backed
<1> QED BY <1>2, <1>3, <1>4, <1>5, <1>6 DEF IInv

\* SaveMLSProposalForMember keeps the tables consistent.
LEMMA MemberProposalKeepsIInv ==
    ASSUME IInv, NEW sender \in Codes, NEW action \in {"add", "remove"},
           NEW target \in Codes, NEW r \in Rooms, NEW e \in Epochs,
           NEW id \in ProposalIDs, NEW data \in Payloads,
           SaveMLSProposalForMember(sender, action, target, r, e, id, data)
    PROVE  IInv'
<1> DEFINE members == Members(sender)
           new == [epoch |-> e, id |-> id, data |-> data, action |-> action,
                   target |-> target, snapshot |-> members]
<1>1. /\ proposals' = proposals \cup {new} /\ room' = r /\ active' = members
      /\ UNCHANGED <<epoch, commits, welcomes>>
      /\ FreshProposal(r, e, id, data)
  BY DEF SaveMLSProposalForMember
<1>2. members \in SUBSET Codes /\ (active # {} => members # {})
  BY DEF IInv, TypeOK, Members
<1>3. TypeOK'
  <2>1. new \in Proposal
    BY <1>2 DEF Proposal
  <2> QED BY <1>1, <1>2, <2>1 DEF IInv, TypeOK
<1>4. EpochIsLatestCommit'
  BY <1>1 DEF IInv, EpochIsLatestCommit
<1>5. Keys'
  BY <1>1 DEF IInv, Keys, FreshProposal
<1>6. RowFirst'
  BY <1>1, MLSAssumption DEF RowFirst, GroupExists
<1>7. PendingBacked'
  BY <1>1, <1>2 DEF IInv, PendingBacked, Backed
<1> QED BY <1>3, <1>4, <1>5, <1>6, <1>7 DEF IInv

\* SaveMLSCommit keeps the tables consistent: it is refused while a welcome is
\* pending, so that none can become stale.
LEMMA CommitKeepsIInv ==
    ASSUME IInv, NEW r \in Rooms, NEW e \in Epochs, NEW data \in Payloads,
           SaveMLSCommit(r, e, data)
    PROVE  IInv'
<1> DEFINE new == [epoch |-> e, id |-> None, data |-> data]
<1>1. /\ commits' = commits \cup {new} /\ room' = r
      /\ epoch' = IF epoch < e THEN e ELSE epoch
      /\ UNCHANGED <<active, proposals, welcomes>>
      /\ ~AlreadyCommitted(e) /\ NotBehind(r, e) /\ ~PendingWelcome
  BY DEF SaveMLSCommit, EpochAfter
<1>2. PICK p \in proposals : p.epoch = e
  BY DEF SaveMLSCommit
<1>3. GroupExists
  BY <1>2 DEF IInv, RowFirst
<1>4. epoch' = e /\ epoch <= e
  BY <1>1, <1>3 DEF NotBehind, IInv, TypeOK, Epochs
<1>5. TypeOK'
  BY <1>1, <1>4 DEF IInv, TypeOK, Commit
<1>6. EpochIsLatestCommit'
  <2>1. \A c \in commits : c.epoch <= e /\ c.epoch # e
    BY <1>1, <1>4 DEF IInv, EpochIsLatestCommit, AlreadyCommitted, CommitsAt,
       TypeOK, Commit, Epochs
  <2>2. new.epoch = e /\ e <= e /\ new.id = None
    BY DEF Epochs
  <2>3. \A c \in commits' : \E q \in proposals' :
          q.epoch = c.epoch /\ c.id \in {q.id, None}
    BY <1>1, <1>2, <2>2 DEF IInv, EpochIsLatestCommit
  <2>4. \A c, d \in commits' : c.epoch = d.epoch => c = d
    BY <1>1, <2>1, <2>2, Zenon DEF IInv, EpochIsLatestCommit
  <2>5. \A c \in commits' : c.epoch <= epoch'
    BY <1>1, <1>4, <2>1, <2>2
  <2>6. new \in commits' /\ new.epoch = epoch'
    BY <1>1, <1>4
  <2> HIDE DEF new
  <2> QED BY <2>3, <2>4, <2>5, <2>6 DEF EpochIsLatestCommit
<1>7. Keys'
  BY <1>1 DEF IInv, Keys
<1>8. RowFirst'
  BY <1>1, MLSAssumption DEF RowFirst, GroupExists
<1>9. PendingBacked'
  BY <1>1, NonePending DEF IInv, PendingBacked
<1> QED BY <1>5, <1>6, <1>7, <1>8, <1>9 DEF IInv

\* So does SaveMLSCommitForMember, which moves the epoch by one.
LEMMA MemberCommitKeepsIInv ==
    ASSUME IInv, NEW sender \in Codes, NEW p \in proposals, NEW r \in Rooms,
           NEW e \in Epochs, NEW data \in Payloads,
           SaveMLSCommitForMember(sender, p, r, e, data)
    PROVE  IInv'
<1> DEFINE new == [epoch |-> e, id |-> p.id, data |-> data]
<1>1. /\ commits' = commits \cup {new} /\ epoch' = e /\ active' = MembersAfter(p)
      /\ UNCHANGED <<room, proposals, welcomes>>
      /\ p.epoch = e /\ GroupExists
      /\ ~AlreadyCommitted(e) /\ ~PendingWelcome /\ (epoch >= 0 => e = epoch + 1)
  BY DEF SaveMLSCommitForMember
<1>2. epoch <= e
  BY <1>1 DEF IInv, TypeOK, Epochs
<1>3. TypeOK'
  <2>1. new \in Commit
    BY DEF IInv, TypeOK, Proposal, Commit
  <2> QED BY <1>1, <2>1 DEF IInv, TypeOK, MembersAfter
<1>4. EpochIsLatestCommit'
  <2>1. \A c \in commits : c.epoch <= e /\ c.epoch # e
    BY <1>1, <1>2 DEF IInv, EpochIsLatestCommit, AlreadyCommitted, CommitsAt,
       TypeOK, Commit, Epochs
  <2>2. new.epoch = e /\ e <= e /\ new.id = p.id
    BY DEF Epochs
  <2> QED BY <1>1, <2>1, <2>2, ZenonT(40) DEF IInv, EpochIsLatestCommit
<1>5. Keys'
  BY <1>1 DEF IInv, Keys
<1>6. RowFirst'
  BY <1>1 DEF RowFirst, GroupExists
<1>7. PendingBacked'
  BY <1>1, NonePending DEF IInv, PendingBacked
<1> QED BY <1>3, <1>4, <1>5, <1>6, <1>7 DEF IInv

\* SaveMLSWelcome is for a group without a row, and its welcome is not pending.
LEMMA WelcomeKeepsIInv ==
    ASSUME IInv, NEW r \in Rooms, NEW e \in Epochs, NEW target \in Codes,
           NEW data \in Payloads, SaveMLSWelcome(r, e, target, data)
    PROVE  IInv'
<1> DEFINE new == [epoch |-> e, target |-> target, id |-> None, data |-> data,
                   accepted |-> TRUE]
<1>1. /\ welcomes' = welcomes \cup {new} /\ room' = r /\ ~GroupExists
      /\ UNCHANGED <<epoch, active, proposals, commits>>
  BY DEF SaveMLSWelcome
<1>2. welcomes = {} /\ new.accepted /\ welcomes' = {new}
  BY <1>1 DEF IInv, RowFirst
<1>3. TypeOK'
  <2>1. new \in Welcome
    BY DEF Welcome
  <2> QED BY <1>1, <2>1 DEF IInv, TypeOK
<1>4. EpochIsLatestCommit'
  BY <1>1 DEF IInv, EpochIsLatestCommit
<1>5. Keys'
  BY <1>1, <1>2, Zenon DEF IInv, Keys
<1>6. RowFirst'
  BY <1>1, MLSAssumption DEF RowFirst, GroupExists
<1>7. PendingBacked'
  BY <1>2 DEF PendingBacked
<1> QED BY <1>3, <1>4, <1>5, <1>6, <1>7 DEF IInv

\* A welcome that SaveMLSWelcomeForMember stores is backed.
LEMMA MemberWelcomeKeepsIInv ==
    ASSUME IInv, NEW sender \in Codes, NEW target \in Codes,
           NEW id \in ProposalIDs, NEW r \in Rooms, NEW e \in Epochs,
           NEW data \in Payloads,
           SaveMLSWelcomeForMember(sender, target, id, r, e, data)
    PROVE  IInv'
<1> DEFINE new == [epoch |-> e, target |-> target, id |-> id, data |-> data,
                   accepted |-> FALSE]
<1>1. /\ welcomes' = welcomes \cup {new} /\ GroupExists /\ epoch = e
      /\ UNCHANGED <<room, epoch, active, proposals, commits>>
      /\ sender \in active
      /\ \A w \in welcomes : ~(w.epoch = new.epoch /\ w.target = new.target)
  BY DEF SaveMLSWelcomeForMember
<1>2. TypeOK'
  <2>1. new \in Welcome
    BY DEF Welcome
  <2> QED BY <1>1, <2>1 DEF IInv, TypeOK
<1>3. EpochIsLatestCommit'
  BY <1>1 DEF IInv, EpochIsLatestCommit
<1>4. Keys'
  BY <1>1, ZenonT(40) DEF IInv, Keys
<1>5. RowFirst'
  BY <1>1 DEF RowFirst, GroupExists
<1>6. PendingBacked'
  <2>1. Backed(new)
    BY <1>1 DEF SaveMLSWelcomeForMember, Backed
  <2>2. \A w : Backed(w)' <=> Backed(w)
    BY <1>1 DEF Backed
  <2> QED BY <1>1, <2>1, <2>2 DEF IInv, PendingBacked
<1> QED BY <1>2, <1>3, <1>4, <1>5, <1>6 DEF IInv

\* AcceptMLSWelcomeForMember keeps the tables consistent.
LEMMA AcceptKeepsIInv ==
    ASSUME IInv, NEW target \in Codes, NEW id \in ProposalIDs, NEW r \in Rooms,
           NEW e \in Epochs, NEW data \in Payloads,
           AcceptMLSWelcomeForMember(target, id, r, e, data)
    PROVE  IInv'
<1> DEFINE old == [epoch |-> e, target |-> target, id |-> id, data |-> data,
                   accepted |-> FALSE]
           new == [epoch |-> e, target |-> target, id |-> id, data |-> data,
                   accepted |-> TRUE]
<1>1. /\ old \in welcomes
      /\ welcomes' = (welcomes \ {old}) \cup {new}
      /\ active' = active \cup {target}
      /\ UNCHANGED <<room, epoch, proposals, commits>>
  BY DEF AcceptMLSWelcomeForMember
<1>2. TypeOK'
  <2>1. new \in Welcome
    BY DEF Welcome
  <2> QED BY <1>1, <2>1 DEF IInv, TypeOK
<1>3. EpochIsLatestCommit'
  BY <1>1 DEF IInv, EpochIsLatestCommit
<1>4. Keys'
  <2>1. \A w \in welcomes \ {old} :
          ~(w.epoch = new.epoch /\ w.target = new.target)
    BY <1>1 DEF IInv, Keys
  <2> QED BY <1>1, <2>1, Zenon DEF IInv, Keys
<1>5. RowFirst'
  BY <1>1 DEF IInv, RowFirst, GroupExists
<1>6. PendingBacked'
  <2>1. \A w : Backed(w) => Backed(w)'
    BY <1>1 DEF Backed
  <2> QED BY <1>1, <2>1 DEF IInv, PendingBacked
<1> QED BY <1>2, <1>3, <1>4, <1>5, <1>6 DEF IInv

\* A step that changes nothing keeps the invariant.
LEMMA StutterKeepsIInv == IInv /\ UNCHANGED vars => IInv'
BY DEF IInv, vars, TypeOK, EpochIsLatestCommit, Keys, RowFirst, GroupExists,
   PendingBacked, Backed

\* Every step of the store and of the Hub's handlers keeps the tables consistent.
LEMMA NextIInv == IInv /\ [Next]_vars => IInv'
<1> SUFFICES ASSUME IInv, [Next]_vars PROVE IInv'
  OBVIOUS
<1>1. CASE ProposalStep
  BY <1>1, ProposalKeepsIInv, MemberProposalKeepsIInv DEF ProposalStep
<1>2. CASE CommitStep
  BY <1>2, CommitKeepsIInv, MemberCommitKeepsIInv DEF CommitStep
<1>3. CASE WelcomeStep
  BY <1>3, WelcomeKeepsIInv, MemberWelcomeKeepsIInv, AcceptKeepsIInv
     DEF WelcomeStep
<1>4. CASE Refused \/ UNCHANGED vars
  BY <1>4, StutterKeepsIInv DEF Refused
<1> QED BY <1>1, <1>2, <1>3, <1>4 DEF Next

\* The tables are consistent in every reachable state.
THEOREM Consistent == Spec => []IInv
BY InitIInv, NextIInv, PTL DEF Spec

-----------------------------------------------------------------------------
\* Every row the store writes has the type of its table.
THEOREM TypeCorrect == Spec => []TypeOK
<1>1. IInv => TypeOK
  BY DEF IInv
<1> QED BY Consistent, <1>1, PTL

\* SaveMLSCommit and SaveMLSCommitForMember keep one commit per epoch, each for
\* a stored proposal, and current_epoch at the latest one.
THEOREM EpochCorrect == Spec => []EpochIsLatestCommit
<1>1. IInv => EpochIsLatestCommit
  BY DEF IInv
<1> QED BY Consistent, <1>1, PTL

\* PendingMLSWelcomes never meets a stale welcome: whatever is pending belongs to
\* the current epoch, and there is at most one.
THEOREM PendingCorrect == Spec => []PendingIsCurrent
<1>1. IInv => PendingIsCurrent
  <2> SUFFICES ASSUME IInv PROVE PendingIsCurrent
    OBVIOUS
  <2>1. \A w \in welcomes : ~StaleWelcome(w)
    BY DEF IInv, PendingBacked, Backed, StaleWelcome
  <2>2. ASSUME NEW v \in welcomes, NEW w \in welcomes, ~v.accepted, ~w.accepted
        PROVE  v = w
    <3>1. v.epoch = epoch /\ w.epoch = epoch
      BY <2>2 DEF IInv, PendingBacked, Backed
    <3>2. PICK c \in commits, d \in commits :
             c.epoch = epoch /\ c.id = v.id /\ d.epoch = epoch /\ d.id = w.id
      BY <2>2, <3>1 DEF IInv, PendingBacked, Backed
    <3>3. v.id = w.id
      BY <3>2 DEF IInv, EpochIsLatestCommit
    <3>4. PICK p \in proposals, q \in proposals :
             /\ p.epoch = epoch /\ p.id = v.id /\ p.target = v.target
             /\ q.epoch = epoch /\ q.id = w.id /\ q.target = w.target
      BY <2>2, <3>1 DEF IInv, PendingBacked, Backed
    <3>5. v.target = w.target
      BY <3>3, <3>4 DEF IInv, Keys
    <3> QED BY <3>1, <3>5 DEF IInv, Keys
  <2> QED BY <2>1, <2>2 DEF PendingIsCurrent
<1> QED BY Consistent, <1>1, PTL

-----------------------------------------------------------------------------
\* Once committed to and without members, a group stays so: a proposal needs a
\* member to send it, and a welcome can only be accepted while one is left.
THEOREM NoRevivalHolds == Spec => NoRevival
<1>1. IInv /\ [Next]_vars => [epoch >= 0 /\ active = {} => active' = {}]_vars
  <2> SUFFICES ASSUME IInv, Next, epoch >= 0, active = {}
               PROVE  active' = {}
    OBVIOUS
  <2>1. CASE ProposalStep
    <3>1. \A sender : Members(sender) = {}
      BY DEF Members, IInv, TypeOK, Epochs
    <3> QED BY <2>1, <3>1
            DEF ProposalStep, SaveMLSProposal, SaveMLSProposalForMember
  <2>2. CASE CommitStep
    BY <2>2 DEF CommitStep, SaveMLSCommit, SaveMLSCommitForMember
  <2>3. CASE WelcomeStep
    <3>1. \A w \in welcomes : w.accepted
      BY DEF IInv, PendingBacked, Backed
    <3>2. ASSUME NEW target, NEW id, NEW r, NEW e, NEW data,
                 AcceptMLSWelcomeForMember(target, id, r, e, data)
          PROVE  FALSE
      BY <3>1, <3>2 DEF AcceptMLSWelcomeForMember
    <3> QED BY <2>3, <3>2
            DEF WelcomeStep, SaveMLSWelcome, SaveMLSWelcomeForMember
  <2>4. CASE Refused
    BY <2>4 DEF Refused, vars
  <2> QED BY <2>1, <2>2, <2>3, <2>4 DEF Next
<1> QED BY Consistent, <1>1, PTL DEF Spec, NoRevival

\* No method replaces or withdraws a proposal or a commit, lowers the epoch or
\* moves a group to another channel; only a commit removes a member.
THEOREM HistoryIsKeptHolds == Spec => HistoryIsKept
<1> DEFINE Kept == /\ commits \subseteq commits' /\ proposals \subseteq proposals'
                   /\ epoch' >= epoch
                   /\ GroupExists => room' = room
                   /\ active \subseteq active' \/ commits' # commits
<1>1. IInv /\ [Next]_vars => [Kept]_vars
  <2> SUFFICES ASSUME IInv, Next PROVE Kept
    OBVIOUS
  <2>0. epoch \in Int /\ active \subseteq Codes
    BY DEF IInv, TypeOK, Epochs
  <2>1. ASSUME NEW r \in Rooms, NEW e \in Epochs, NEW id \in ProposalIDs,
               NEW data \in Payloads, SaveMLSProposal(r, e, id, data)
        PROVE  Kept
    BY <2>0, <2>1 DEF SaveMLSProposal, FreshProposal, NotBehind
  <2>2. ASSUME NEW r \in Rooms, NEW e \in Epochs, NEW id \in ProposalIDs,
               NEW data \in Payloads, NEW sender \in Codes, NEW target \in Codes,
               NEW action \in {"add", "remove"},
               SaveMLSProposalForMember(sender, action, target, r, e, id, data)
        PROVE  Kept
    BY <2>0, <2>2 DEF SaveMLSProposalForMember, FreshProposal, NotBehind, Members
  <2>3. ASSUME NEW r \in Rooms, NEW e \in Epochs, NEW data \in Payloads,
               SaveMLSCommit(r, e, data)
        PROVE  Kept
    BY <2>0, <2>3 DEF SaveMLSCommit, NotBehind, EpochAfter, Epochs
  <2>4. ASSUME NEW r \in Rooms, NEW e \in Epochs, NEW data \in Payloads,
               NEW sender \in Codes, NEW p \in proposals,
               SaveMLSCommitForMember(sender, p, r, e, data)
        PROVE  Kept
    <3> DEFINE new == [epoch |-> e, id |-> p.id, data |-> data]
    <3>1. /\ commits' = commits \cup {new} /\ proposals' = proposals
          /\ room' = room /\ epoch' = e /\ (epoch >= 0 => e = epoch + 1)
          /\ ~AlreadyCommitted(e)
      BY <2>4 DEF SaveMLSCommitForMember
    <3>2. new \notin commits
      BY <3>1 DEF AlreadyCommitted, CommitsAt
    <3>3. epoch' >= epoch
      BY <3>1 DEF IInv, TypeOK, Epochs
    <3> HIDE DEF new
    <3> QED BY <3>1, <3>2, <3>3
  <2>5. ASSUME NEW r \in Rooms, NEW e \in Epochs, NEW target \in Codes,
               NEW data \in Payloads, SaveMLSWelcome(r, e, target, data)
        PROVE  Kept
    BY <2>0, <2>5 DEF SaveMLSWelcome
  <2>6. ASSUME NEW r \in Rooms, NEW e \in Epochs, NEW target \in Codes,
               NEW data \in Payloads, NEW id \in ProposalIDs,
               \/ AcceptMLSWelcomeForMember(target, id, r, e, data)
               \/ \E sender \in Codes :
                    SaveMLSWelcomeForMember(sender, target, id, r, e, data)
        PROVE  Kept
    BY <2>0, <2>6 DEF AcceptMLSWelcomeForMember, SaveMLSWelcomeForMember
  <2>7. CASE Refused
    BY <2>0, <2>7 DEF Refused, vars
  <2> HIDE DEF Kept
  <2> QED BY <2>1, <2>2, <2>3, <2>4, <2>5, <2>6, <2>7
          DEF Next, ProposalStep, CommitStep, WelcomeStep
<1> QED BY Consistent, <1>1, PTL DEF Spec, HistoryIsKept

-----------------------------------------------------------------------------
\* All members but the creator joined by accepting a welcome for a committed
\* add: SaveMLSProposalForMember makes one member out of none, and
\* AcceptMLSWelcomeForMember is the only other way in.
THEOREM MembershipCorrect == Spec => []MembersWereWelcomed
<1>1. Init => MembersWereWelcomed
  BY DEF Init, MembersWereWelcomed
<1>2. IInv /\ MembersWereWelcomed /\ [Next]_vars => MembersWereWelcomed'
  <2> SUFFICES ASSUME IInv, MembersWereWelcomed, [Next]_vars
               PROVE  MembersWereWelcomed'
    OBVIOUS
  \* Fewer members, and as much evidence of welcomes, keep the property.
  <2>0. ASSUME active' \subseteq active, \A x : Welcomed(x) => Welcomed(x)'
        PROVE  MembersWereWelcomed'
    BY <2>0 DEF MembersWereWelcomed
  <2>1. ASSUME welcomes \subseteq welcomes', commits \subseteq commits',
               proposals \subseteq proposals'
        PROVE  \A x : Welcomed(x) => Welcomed(x)'
    BY <2>1 DEF Welcomed
  <2>2. CASE ProposalStep
    <3>1. \A x : Welcomed(x) => Welcomed(x)'
      BY <2>1, <2>2 DEF ProposalStep, SaveMLSProposal, SaveMLSProposalForMember
    <3>2. \/ active' \subseteq active
          \/ \E sender : active' = {sender}
      BY <2>2 DEF ProposalStep, SaveMLSProposal, SaveMLSProposalForMember, Members
    <3>3. CASE \E sender : active' = {sender}
      BY <3>3 DEF MembersWereWelcomed
    <3> QED BY <2>0, <3>1, <3>2, <3>3
  <2>3. CASE CommitStep
    <3>1. \A x : Welcomed(x) => Welcomed(x)'
      BY <2>1, <2>3 DEF CommitStep, SaveMLSCommit, SaveMLSCommitForMember
    <3>2. active' \subseteq active
      BY <2>3 DEF CommitStep, SaveMLSCommit, SaveMLSCommitForMember, MembersAfter
    <3> QED BY <2>0, <3>1, <3>2
  <2>4. ASSUME NEW r \in Rooms, NEW e \in Epochs, NEW target \in Codes,
               NEW data \in Payloads,
               \/ SaveMLSWelcome(r, e, target, data)
               \/ \E id \in ProposalIDs, sender \in Codes :
                    SaveMLSWelcomeForMember(sender, target, id, r, e, data)
        PROVE  MembersWereWelcomed'
    BY <2>0, <2>1, <2>4 DEF SaveMLSWelcome, SaveMLSWelcomeForMember
  <2>5. ASSUME NEW r \in Rooms, NEW e \in Epochs, NEW target \in Codes,
               NEW data \in Payloads, NEW id \in ProposalIDs,
               AcceptMLSWelcomeForMember(target, id, r, e, data)
        PROVE  MembersWereWelcomed'
    <3> DEFINE old == [epoch |-> e, target |-> target, id |-> id,
                       data |-> data, accepted |-> FALSE]
               new == [epoch |-> e, target |-> target, id |-> id,
                       data |-> data, accepted |-> TRUE]
    <3>1. /\ old \in welcomes /\ active' = active \cup {target}
          /\ welcomes' = (welcomes \ {old}) \cup {new}
          /\ commits' = commits /\ proposals' = proposals
      BY <2>5 DEF AcceptMLSWelcomeForMember
    <3>2. Backed(old)
      BY <3>1 DEF IInv, PendingBacked
    <3>3. Welcomed(target)'
      <4>1. PICK p \in proposals, c \in commits :
              /\ p.epoch = e /\ p.id = id /\ p.action = "add" /\ p.target = target
              /\ c.epoch = e /\ c.id = id
        BY <3>2 DEF Backed
      <4>2. /\ new \in welcomes' /\ new.target = target /\ new.accepted
            /\ new.epoch = e /\ new.id = id
        BY <3>1
      <4> HIDE DEF new
      <4> QED BY <3>1, <4>1, <4>2, Zenon DEF Welcomed
    <3>4. \A w \in welcomes : w.accepted => w \in welcomes'
      BY <3>1
    <3>5. ASSUME NEW x, Welcomed(x) PROVE Welcomed(x)'
      BY <3>1, <3>4, <3>5 DEF Welcomed
    <3> QED BY <3>1, <3>3, <3>5 DEF MembersWereWelcomed
  <2>6. CASE Refused \/ UNCHANGED vars
    BY <2>0, <2>1, <2>6 DEF Refused, vars
  <2> QED BY <2>2, <2>3, <2>4, <2>5, <2>6 DEF Next, WelcomeStep
<1> QED BY Consistent, <1>1, <1>2, PTL DEF Spec

=============================================================================
