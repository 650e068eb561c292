--------------------------- MODULE ApprovalProofs ---------------------------
(***************************************************************************)
(* For any connections, slots and queue: no more handlers than slots, only *)
(* approved connections enter, and no decision is dropped.                 *)
(*                                                                         *)
(* That only approved connections enter depends on what the decision       *)
(* channel holds (Backed), and that the channel is empty when the owner    *)
(* answers on the fact that a handler that has not asked yet has no trace  *)
(* in the Hub (Fresh).                                                     *)
(***************************************************************************)
EXTENDS Approval, FiniteSetTheorems, TLAPS

Answers == {"approved", "denied"}

\* TypeOK without the slots.
Types ==
    /\ pc \in [Conns -> HandlerState]
    /\ online \in BOOLEAN
    /\ pending \subseteq Conns
    /\ decision \in [Conns -> {None} \cup Answers]
    /\ cancels \in Seq(Conns) /\ Len(cancels) <= CancelCap
    /\ told \in [Conns -> {None, "approved", "denied", "expired"}]

Slots == IsFiniteSet(Held) /\ Cardinality(Held) <= MaxClients

\* A handler that has not asked for an approval has no trace in the Hub.
Fresh ==
    \A c \in Conns : pc[c] \in {"new", "login"} =>
        c \notin pending /\ decision[c] = None /\ told[c] = None

\* What waits in a decision channel is what the owner was told.
Backed == \A c \in Conns : decision[c] # None => told[c] = decision[c]

Decisions == Types /\ Fresh /\ Backed /\ DecisionNeverDropped /\ OnlyApprovedEnter

IInv == Decisions /\ Slots

-----------------------------------------------------------------------------
\* The invariant holds before the first connection.
LEMMA InitIInv == Init => IInv
<1> SUFFICES ASSUME Init PROVE IInv
  OBVIOUS
<1>1. Decisions
  <2>1. cancels \in Seq(Conns) /\ Len(cancels) <= CancelCap
    BY ApprovalAssumption DEF Init
  <2>2. Types
    BY <2>1 DEF Init, Types, HandlerState, Answers
  <2>3. Fresh /\ Backed /\ DecisionNeverDropped /\ OnlyApprovedEnter
    BY DEF Init, Fresh, Backed, DecisionNeverDropped, OnlyApprovedEnter
  <2> QED
    BY <2>2, <2>3 DEF Decisions
<1>2. Held = {}
  BY DEF Init, Held
<1>3. Slots
  BY <1>2, FS_EmptySet, ApprovalAssumption DEF Slots
<1> QED
  BY <1>1, <1>3 DEF IInv

\* A step of a login handler that asks for nothing and ends no wait.
LEMMA HandlerDecisions ==
    ASSUME Decisions, NEW c \in Conns,
           Accept(c) \/ LoginRejected(c) \/ SkipApproval(c) \/ Register(c)
             \/ Disconnect(c)
    PROVE  Decisions'
<1>1. online' \in BOOLEAN
  BY DEF Decisions, Types, Accept, LoginRejected, SkipApproval, Register, Disconnect
<1>2. UNCHANGED <<pending, decision, cancels, told>>
  BY DEF Accept, LoginRejected, SkipApproval, Register, Disconnect
<1>3. PICK to \in HandlerState :
        /\ pc' = [pc EXCEPT ![c] = to]
        /\ to \in {"new", "login"} => pc[c] \in {"new", "login"}
        /\ c \notin Loopback /\ to \in {"approved", "member"} => pc[c] = "approved"
  BY DEF Accept, LoginRejected, SkipApproval, Register, Disconnect, Goto, HandlerState
<1> QED
  BY <1>1, <1>2, <1>3 DEF Decisions, Types, Fresh, Backed, DecisionNeverDropped,
     OnlyApprovedEnter

\* A request is entered under an ID that nothing was said about.
LEMMA RequestDecisions ==
    ASSUME Decisions, NEW c \in Conns, RequestApproval(c)
    PROVE  Decisions'
BY DEF Decisions, Types, Fresh, Backed, DecisionNeverDropped, OnlyApprovedEnter,
   RequestApproval, Goto, HandlerState

\* The cancellation queue keeps its type and its bound.
LEMMA SendCancelType ==
    ASSUME Types, NEW c \in Conns
    PROVE  /\ SendCancel(cancels, c) \in Seq(Conns)
           /\ Len(SendCancel(cancels, c)) <= CancelCap
BY ApprovalAssumption DEF Types, SendCancel

\* The end of a wait: the handler goes on only with an approval it was sent.
LEMMA WaitDecisions ==
    ASSUME Decisions, NEW c \in Conns, DecisionArrives(c) \/ ApprovalTimeout(c)
    PROVE  Decisions'
<1>1. /\ UNCHANGED <<online, pending, told>>
      /\ cancels' = SendCancel(cancels, c)
  BY DEF DecisionArrives, ApprovalTimeout, EndWait
<1>2. /\ decision' \in [Conns -> {None} \cup Answers]
      /\ \A x \in Conns : decision'[x] \in {decision[x], None}
  BY DEF Decisions, Types, DecisionArrives, ApprovalTimeout
<1>3. PICK to \in HandlerState :
        /\ pc' = [pc EXCEPT ![c] = to]
        /\ to \notin {"new", "login", "member"}
        /\ to = "approved" => decision[c] = "approved"
  BY DEF DecisionArrives, ApprovalTimeout, EndWait, Goto, Approves, HandlerState
<1>4. Types'
  BY <1>1, <1>2, <1>3, SendCancelType DEF Decisions, Types
<1>5. Fresh' /\ Backed' /\ DecisionNeverDropped'
  BY <1>1, <1>2, <1>3 DEF Decisions, Types, Fresh, Backed, DecisionNeverDropped
<1>6. OnlyApprovedEnter'
  BY <1>1, <1>3, ApprovalAssumption
     DEF Decisions, Types, Backed, OnlyApprovedEnter
<1> QED
  BY <1>4, <1>5, <1>6 DEF Decisions

\* The owner's answer.
LEMMA AnswerDecisions ==
    ASSUME Decisions, NEW c \in Conns, NEW verdict \in Answers,
           HandleAdminAction(c, verdict)
    PROVE  Decisions'
<1>1. /\ decision[c] = None /\ told[c] = None
      /\ pc[c] \notin {"new", "login"}
  BY DEF Decisions, Fresh, DecisionNeverDropped, Types, HandleAdminAction
<1>2. /\ decision' = [decision EXCEPT ![c] = verdict]
      /\ told' = [told EXCEPT ![c] = verdict]
      /\ pending' = pending \ {c}
      /\ UNCHANGED <<pc, online, cancels>>
  BY <1>1 DEF HandleAdminAction, Decisions, Types
<1>3. \A x \in Conns \ Loopback : pc[x] \in {"approved", "member"} => x # c
  BY <1>1, ApprovalAssumption DEF Decisions, OnlyApprovedEnter
<1> QED
  BY <1>1, <1>2, <1>3 DEF Decisions, Types, Fresh, Backed, DecisionNeverDropped,
     OnlyApprovedEnter, Answers

\* A cancellation says "expired" only of a request that is still in the list.
LEMMA CancelDecisions ==
    ASSUME Decisions, CancelConnectionApproval
    PROVE  Decisions'
<1> DEFINE c == Head(cancels)
<1>1. /\ c \in Conns
      /\ cancels' \in Seq(Conns) /\ Len(cancels') <= CancelCap
  BY ApprovalAssumption DEF CancelConnectionApproval, Decisions, Types
<1>2. /\ pending' = pending \ {c}
      /\ told' = IF c \in pending THEN [told EXCEPT ![c] = "expired"] ELSE told
      /\ UNCHANGED <<pc, online, decision>>
  BY DEF CancelConnectionApproval
<1> HIDE DEF c
<1>3. c \in pending => /\ decision[c] = None /\ told[c] = None
                       /\ pc[c] \notin {"new", "login"}
                       /\ c \notin Loopback => pc[c] \notin {"approved", "member"}
  BY <1>1, ApprovalAssumption
     DEF Decisions, Fresh, DecisionNeverDropped, OnlyApprovedEnter
<1> QED
  BY <1>1, <1>2, <1>3 DEF Decisions, Types, Fresh, Backed, DecisionNeverDropped,
     OnlyApprovedEnter

\* Only Accept adds a handler, and it looks for a free slot first.
LEMMA NextSlots ==
    ASSUME Types, Slots, [Next]_vars
    PROVE  Slots'
<1>1. CASE \E c \in Conns : Accept(c) /\ SlotFree
  <2> PICK c \in Conns : Accept(c) /\ SlotFree
    BY <1>1
  <2>1. Held' = Held \cup {c} /\ c \notin Held
    BY DEF Accept, Goto, Held, Types
  <2>2. /\ IsFiniteSet(Held')
        /\ Cardinality(Held') = Cardinality(Held) + 1
    BY <2>1, FS_AddElement DEF Slots
  <2> QED
    BY <2>2, FS_CardinalityType, ApprovalAssumption DEF Slots, SlotFree
<1>2. CASE ~(\E c \in Conns : Accept(c) /\ SlotFree)
  <2>1. Held' \subseteq Held
    <3>1. CASE UNCHANGED pc
      BY <3>1 DEF Held
    <3>2. CASE \E c \in Conns : Handler(c)
      BY <1>2, <3>2 DEF Handler, Accept, LoginRejected, SkipApproval,
         RequestApproval, DecisionArrives, ApprovalTimeout, EndWait, Register,
         Disconnect, Goto, Held, Types
    <3> QED
      BY <3>1, <3>2 DEF Next, HandleAdminAction, CancelConnectionApproval,
         AdminRemoved, AllGone, vars
  <2> QED
    BY <2>1, FS_Subset, FS_CardinalityType, ApprovalAssumption DEF Slots
<1> QED
  BY <1>1, <1>2

\* Every step preserves the invariant.
LEMMA NextIInv == IInv /\ [Next]_vars => IInv'
<1> SUFFICES ASSUME IInv, [Next]_vars PROVE IInv'
  OBVIOUS
<1>1. Slots'
  BY NextSlots DEF IInv, Decisions
<1>2. ASSUME NEW c \in Conns, Handler(c) PROVE Decisions'
  BY <1>2, HandlerDecisions, RequestDecisions, WaitDecisions DEF IInv, Handler
<1>3. ASSUME NEW c \in Conns, NEW verdict \in {"approved", "denied"},
             HandleAdminAction(c, verdict)
      PROVE  Decisions'
  BY <1>3, AnswerDecisions DEF IInv, Answers
<1>4. CASE CancelConnectionApproval
  BY <1>1, <1>4, CancelDecisions DEF IInv
<1>5. CASE AdminRemoved \/ AllGone \/ UNCHANGED vars
  <2>1. UNCHANGED <<pc, pending, decision, cancels, told>> /\ online' \in BOOLEAN
    BY <1>5 DEF AdminRemoved, AllGone, vars, IInv, Decisions, Types
  <2>2. Decisions'
    BY <2>1 DEF IInv, Decisions, Types, Fresh, Backed, DecisionNeverDropped,
       OnlyApprovedEnter
  <2> QED
    BY <1>1, <2>2 DEF IInv
<1> QED
  BY <1>1, <1>2, <1>3, <1>4, <1>5 DEF IInv, Next

-----------------------------------------------------------------------------
\* The invariant holds in every state of every behaviour of the approval
\* protocol (accept loop, login handlers, Hub).
THEOREM Consistent == Spec => []IInv
BY InitIInv, NextIInv, PTL DEF Spec

\* Every variable has its type, and no more handlers run than the accept loop
\* has slots.
THEOREM TypeCorrect == Spec => []TypeOK
<1>1. IInv => TypeOK
  BY DEF IInv, Decisions, Types, Slots, TypeOK, Answers
<1> QED
  BY <1>1, Consistent, PTL

\* Nobody but the owner on the server's machine gets in without an approval
\* that the owner gave, whatever the timers do (handleConnectionWithStore).
THEOREM EnterCorrect == Spec => []OnlyApprovedEnter
<1>1. IInv => OnlyApprovedEnter
  BY DEF IInv, Decisions
<1> QED
  BY <1>1, Consistent, PTL

\* The owner's answer finds the decision channel empty, so that the
\* non-blocking send never drops it (handleAdminAction).
THEOREM DecisionCorrect == Spec => []DecisionNeverDropped
<1>1. IInv => DecisionNeverDropped
  BY DEF IInv, Decisions
<1> QED
  BY <1>1, Consistent, PTL

=============================================================================
