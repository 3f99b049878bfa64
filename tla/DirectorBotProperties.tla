----------------------- MODULE DirectorBotProperties -----------------------
(***************************************************************************)
(* What the Telegram process promises to users.                           *)
(***************************************************************************)
EXTENDS DirectorBot

\* Every variable keeps to its range.
TypeOK ==
    /\ sent \in 0..MaxUpdate /\ forgotten \in 0..MaxUpdate
    /\ answers \in [Updates -> SUBSET Replies]
    /\ delivered \subseteq Updates /\ blocked \subseteq Updates
    /\ created \in [Updates -> 0..1]
    /\ outbox \in Seq(Updates) /\ acked \subseteq 1..Len(outbox)
    /\ up \in BOOLEAN
    /\ offset \in 0..(MaxUpdate + 1) /\ saved \in 0..(MaxUpdate + 1)
    /\ batch \subseteq Updates /\ reply \in Replies \cup {"none"}
    /\ feed \subseteq 1..Len(outbox) /\ toAck \in 0..Len(outbox)
    /\ crashes \in 0..MaxCrashes

\* A message is left behind, by Telegram, by the process or by its file, only
\* when its user has an answer: a lost request is answered as an error, never
\* passed over in silence.
Answered(u) == KindOf[u] = "ignored" \/ answers[u] # {}
PassedOnlyAnswered ==
    \A u \in Updates : u <= forgotten \/ u < offset \/ u < saved => Answered(u)

\* Messages take effect in the order in which they were sent: none makes a task
\* or gets an answer before all earlier ones have theirs.
HandledInOrder ==
    \A u, v \in Updates :
        v < u /\ (created[u] > 0 \/ answers[u] # {}) => Answered(v)

\* A user who reads that a task was created has that task: the success text is
\* only ever sent for a row the coordinator has stored.
AnswersAreTrue == \A u \in Updates : "created" \in answers[u] => created[u] = 1

\* docs/architecture.md:261: at least once.  An entry leaves the outbox only
\* after Telegram took it, whatever is lost and whenever the process dies.
AckedOnlyDelivered == \A n \in acked : outbox[n] \in delivered

-----------------------------------------------------------------------------
(* Liveness, under FairSpec *)

\* Every message is answered in the end.
MessagesAnswered ==
    \A u \in Updates : sent >= u /\ KindOf[u] # "ignored" ~> answers[u] # {}

\* Every outcome reaches its chat, and leaves the outbox.
OutcomesDelivered ==
    \A u \in Updates :
        u \in Entries ~> \E n \in acked : outbox[n] = u /\ u \in delivered

\* docs/architecture.md:261: delivery is at least once, so the outcome of a task
\* whose chat is in order arrives, whatever becomes of other chats.
OutcomesOfOthersDelivered ==
    \A u \in Updates \ Blockers : u \in Entries ~> u \in delivered

=============================================================================
