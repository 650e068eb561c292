--------------------------- MODULE FileExchange ----------------------------
(***************************************************************************)
(* What sending an attachment promises, without the messages it takes      *)
(* (docs/handover/2026-09-01-encrypted-attachments.md): chunks are stored  *)
(* until the file is published, it is announced once it is published, and  *)
(* a member has either nothing of it or all of it.  Module SecureUpload    *)
(* implements this specification.                                          *)
(***************************************************************************)
CONSTANTS Chunks, Members

VARIABLES stored,      \* chunks the server holds
          published,   \* the attachment is committed
          announced,   \* its manifest was sent to the channel
          saved        \* for each member, what its output file holds

vars == <<stored, published, announced, saved>>

Init ==
    /\ stored = {}
    /\ published = FALSE
    /\ announced = FALSE
    /\ saved = [m \in Members |-> {}]

Store(c) ==
    /\ ~published
    /\ stored' = stored \cup {c}
    /\ UNCHANGED <<published, announced, saved>>

Publish ==
    /\ stored = Chunks
    /\ published' = TRUE
    /\ UNCHANGED <<stored, announced, saved>>

Announce ==
    /\ published
    /\ announced' = TRUE
    /\ UNCHANGED <<stored, published, saved>>

\* A member who was told of the file gets all of it, or loses the copy it had
\* while the new one is put in its place.
Save(m) ==
    /\ announced
    /\ saved' \in {[saved EXCEPT ![m] = Chunks], [saved EXCEPT ![m] = {}]}
    /\ UNCHANGED <<stored, published, announced>>

Next ==
    \/ \E c \in Chunks : Store(c)
    \/ Publish
    \/ Announce
    \/ \E m \in Members : Save(m)

Spec == Init /\ [][Next]_vars
=============================================================================
