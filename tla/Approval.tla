------------------------------ MODULE Approval ------------------------------
(***************************************************************************)
(* How a connection is let in: the accept loop with its connection slots   *)
(* (server-go/main.go), the approval part of handleConnectionWithStore     *)
(* (server-go/client.go) and the Hub's side of it (handleConnectionApproval,*)
(* cancelConnectionApproval and the approve/deny branch of                 *)
(* handleAdminAction in server-go/hub.go).                                 *)
(*                                                                         *)
(* A login handler waits on its own decision channel and on a timer, while *)
(* the room owner (the administrator) answers through the Hub.  The two    *)
(* clocks are independent: the timer may fire after the owner's answer was *)
(* sent and before the Hub took it.                                        *)
(*                                                                         *)
(* A definition marked variant is the one after it with a plausible        *)
(* mistake in it, which a property must notice; nothing else uses it.      *)
(***************************************************************************)
EXTENDS Integers, Sequences, FiniteSets

CONSTANTS
    Conns,       \* the connections that are made
    Admins,      \* those that log in with the administrator's user code
    Loopback,    \* those of Admins that come from the server's own machine
    MaxClients,  \* -max-clients, the number of connection slots
    CancelCap,   \* the capacity of Hub.CancelConnectionApproval
    None         \* an empty channel, no result yet

ASSUME ApprovalAssumption ==
    /\ Loopback \subseteq Admins /\ Admins \subseteq Conns
    /\ MaxClients \in Nat \ {0} /\ CancelCap \in Nat
    /\ None \notin {"approved", "denied", "expired"}

VARIABLES
    pc,         \* pc[c]: where the login handler of c is
    online,     \* whether an administrator is in Hub.Clients
    pending,    \* PendingConnectionApprovals; an approval ID is its connection
    decision,   \* decision[c]: the capacity-1 channel the handler waits on
    cancels,    \* the queue CancelConnectionApproval
    told        \* told[c]: the connection_approval_result sent to the owner

vars == <<pc, online, pending, decision, cancels, told>>

HandlerState == {"new", "login", "waiting", "approved", "member", "done",
                 "expired"}

\* The connections that hold a slot: from accept until their handler returns.
Held == {c \in Conns : pc[c] \notin {"new", "done", "expired"}}

Init ==
    /\ pc = [c \in Conns |-> "new"]
    /\ online = FALSE
    /\ pending = {}
    /\ decision = [c \in Conns |-> None]
    /\ cancels = <<>>
    /\ told = [c \in Conns |-> None]

Goto(c, from, to) == pc[c] = from /\ pc' = [pc EXCEPT ![c] = to]

SlotFree == Cardinality(Held) < MaxClients

\* The accept loop: a connection gets a slot or is closed at once.
Accept(c) ==
    /\ Goto(c, "new", IF SlotFree THEN "login" ELSE "done")
    /\ UNCHANGED <<online, pending, decision, cancels, told>>

\* An unreadable, invalid or unsupported login message, or an identity that
\* ResolveConnectionIdentity or, after the approval, EnsureIdentity rejects.
LoginRejected(c) ==
    /\ Goto(c, "login", "done") \/ Goto(c, "approved", "done")
    /\ UNCHANGED <<online, pending, decision, cancels, told>>

\* bootstrapAdmin
SkipApproval(c) ==
    /\ c \in Loopback
    /\ Goto(c, "login", "approved")
    /\ UNCHANGED <<online, pending, decision, cancels, told>>

\* handleConnectionApproval, up to login_pending on the wire
RequestApproval(c) ==
    /\ c \notin Loopback
    /\ Goto(c, "login", "waiting")
    /\ pending' = pending \cup {c}
    /\ UNCHANGED <<online, decision, cancels, told>>

NoCancel(q, c) == q                                       \* variant
SendCancel(q, c) == IF Len(q) < CancelCap THEN Append(q, c) ELSE q

\* The end of the select, then the non-blocking send of the approval ID to
\* CancelConnectionApproval, made whatever the outcome was.
EndWait(c, next) ==
    /\ Goto(c, "waiting", next)
    /\ cancels' = SendCancel(cancels, c)
    /\ UNCHANGED <<online, pending, told>>

AnyAnswer(verdict) == TRUE                                \* variant
Approves(verdict) == verdict = "approved"

DecisionArrives(c) ==
    /\ decision[c] # None
    /\ decision' = [decision EXCEPT ![c] = None]
    /\ EndWait(c, IF Approves(decision[c]) THEN "approved" ELSE "done")

\* login_error: "The room owner did not approve the connection in time"
ApprovalTimeout(c) ==
    /\ EndWait(c, "expired")
    /\ UNCHANGED decision

\* Variant: the answered request stays in the owner's list.
AnswerStays(c, verdict) ==
    /\ online /\ c \in pending
    /\ told' = [told EXCEPT ![c] = verdict]
    /\ decision' = [decision EXCEPT ![c] = IF @ = None THEN verdict ELSE @]
    /\ UNCHANGED <<pc, online, pending, cancels>>

\* The owner answers a request; with no entry left it only gets an error.
HandleAdminAction(c, verdict) ==
    /\ online
    /\ c \in pending
    /\ pending' = pending \ {c}
    /\ told' = [told EXCEPT ![c] = verdict]
    /\ decision' = [decision EXCEPT ![c] = IF @ = None THEN verdict ELSE @]
    /\ UNCHANGED <<pc, online, cancels>>

CancelConnectionApproval ==
    /\ cancels # <<>>
    /\ LET c == Head(cancels)
       IN  /\ pending' = pending \ {c}
           /\ told' = IF c \in pending THEN [told EXCEPT ![c] = "expired"] ELSE told
    /\ cancels' = Tail(cancels)
    /\ UNCHANGED <<pc, online, decision>>

\* Registration with the Hub, and the end of the session (module Hub).
Register(c) ==
    /\ Goto(c, "approved", "member")
    /\ online' = (online \/ c \in Admins)
    /\ UNCHANGED <<pending, decision, cancels, told>>

Disconnect(c) ==
    /\ Goto(c, "member", "done")
    /\ online' = (online /\ \E a \in Admins \ {c} : pc[a] = "member")
    /\ UNCHANGED <<pending, decision, cancels, told>>

\* The Hub drops the administrator's session (a full buffer, module Hub)
\* before its handler has noticed.
AdminRemoved ==
    /\ online
    /\ online' = FALSE
    /\ UNCHANGED <<pc, pending, decision, cancels, told>>

\* Every connection has come and gone, and the Hub has caught up.
AllGone ==
    /\ \A c \in Conns : pc[c] \in {"done", "expired"}
    /\ cancels = <<>>
    /\ UNCHANGED vars

Handler(c) ==
    \/ Accept(c) \/ LoginRejected(c) \/ SkipApproval(c) \/ RequestApproval(c)
    \/ DecisionArrives(c) \/ ApprovalTimeout(c) \/ Register(c) \/ Disconnect(c)

Next ==
    \/ \E c \in Conns :
         \/ Handler(c)
         \/ \E verdict \in {"approved", "denied"} : HandleAdminAction(c, verdict)
    \/ CancelConnectionApproval \/ AdminRemoved
    \/ AllGone

Spec == Init /\ [][Next]_vars

(* The timer fires and the select takes what is there; the Hub keeps        *)
(* serving its queues.  The owner need not answer, nobody need connect.     *)
Fairness ==
    /\ WF_vars(CancelConnectionApproval)
    /\ \A c \in Conns : WF_vars(DecisionArrives(c) \/ ApprovalTimeout(c))

FairSpec == Spec /\ Fairness

-----------------------------------------------------------------------------
(* Properties.                                                              *)

\* Every variable has its type, and no more handlers run than there are slots.
TypeOK ==
    /\ pc \in [Conns -> HandlerState]
    /\ Cardinality(Held) <= MaxClients
    /\ online \in BOOLEAN
    /\ pending \subseteq Conns
    /\ decision \in [Conns -> {None, "approved", "denied"}]
    /\ cancels \in Seq(Conns) /\ Len(cancels) <= CancelCap
    /\ told \in [Conns -> {None, "approved", "denied", "expired"}]

\* Nobody but the owner on the server's machine gets in unless the owner was
\* told "approved" about this very connection; "expired" is never said of a
\* connection that gets in later (handleConnectionWithStore,
\* cancelConnectionApproval).
OnlyApprovedEnter ==
    \A c \in Conns \ Loopback :
        pc[c] \in {"approved", "member"} => told[c] = "approved"

\* A decision finds the channel of its handler empty, so it is never dropped
\* by the non-blocking send, and no handler is told twice (handleAdminAction).
DecisionNeverDropped ==
    \A c \in pending : decision[c] = None /\ told[c] = None

\* A request leaves the owner's list, answered or not, also when its handler
\* gave up (the cancellation sent after every wait).
PendingEnds == \A c \in Conns : c \in pending ~> c \notin pending

=============================================================================
