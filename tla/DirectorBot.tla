---------------------------- MODULE DirectorBot ----------------------------
(***************************************************************************)
(* The Telegram process: DirectorBot with its two loops, between the       *)
(* Telegram servers and the coordinator.                                   *)
(*                                                                         *)
(* updates_loop takes the messages users sent, in order, calls the         *)
(* coordinator for each, answers, and moves the offset that makes Telegram *)
(* forget the message; the offset is kept in a file.  notifications_loop   *)
(* takes the outbox, sends each entry to its chat, and acknowledges it.    *)
(* The loops are coroutines of one process: they interleave at every       *)
(* await, the process may die between any two of them, and every request   *)
(* may fail before it takes effect or after it.                            *)
(*                                                                         *)
(* Of the coordinator only what the bot sees is here: creation under an    *)
(* idempotency key and the outbox.  Module TaskStore has the rest.         *)
(***************************************************************************)
EXTENDS Integers, Sequences

CONSTANTS
    MaxUpdate,      \* bound on the messages users send; messages are 1..MaxUpdate
    KindOf,         \* what handle_update makes of message u, see Kinds
    Blockers,       \* messages whose chat may block the bot later
    MaxCrashes      \* bound on the crashes of the process

Updates == 1..MaxUpdate

\* "ignored": no text or no sender; "refused": user not in the allowlist;
\* "query": /status, /tasks, /cancel and the rest; "create": makes a task.
Kinds == {"ignored", "refused", "query", "create"}

ASSUME UpdateAssumption ==
    /\ MaxUpdate \in Nat /\ MaxCrashes \in Nat
    /\ KindOf \in [Updates -> Kinds]
    /\ Blockers \subseteq Updates

VARIABLES
    sent,           \* Telegram: number of messages users have sent
    forgotten,      \* Telegram: messages up to this one are not handed out again
    answers,        \* Telegram: the answers message u has had
    delivered,      \* Telegram: messages whose task's outcome has been delivered
    blocked,        \* Telegram: messages whose chat takes nothing from the bot any more
    created,        \* coordinator: number of tasks with the key telegram-update:u
    outbox,         \* coordinator: the notifications, as the messages they go back to
    acked,          \* coordinator: acknowledged notifications
    up,             \* the process runs
    offset,         \* updates_loop: offset, 0 for None
    saved,          \* the offset file, 0 when there is none
    batch,          \* updates_loop: updates still to handle
    reply,          \* updates_loop: the answer to send next, "none" while there is none
    feed,           \* notifications_loop: notifications still to send
    toAck,          \* notifications_loop: the notification to acknowledge next, 0 for none
    crashes

telegram == <<sent, forgotten, answers, delivered, blocked>>
coordinator == <<created, outbox, acked>>
updatesLoop == <<offset, saved, batch, reply>>
notificationsLoop == <<feed, toAck>>
vars == <<telegram, coordinator, updatesLoop, notificationsLoop, up, crashes>>

Replies == {"refused", "info", "created", "error"}

\* Fault: what came last is handled first.
Last(S) == CHOOSE x \in S : \A y \in S : x >= y

First(S) == CHOOSE x \in S : \A y \in S : x <= y

-----------------------------------------------------------------------------
(* updates_loop *)

\* Asking from an offset makes Telegram forget what lies below it.
Forgotten == IF offset > forgotten THEN offset - 1 ELSE forgotten

\* get_updates; the response may be lost.
GetUpdates ==
    /\ up /\ batch = {} /\ reply = "none"
    /\ forgotten' = Forgotten
    /\ batch' \in {{}, (forgotten' + 1)..sent}
    /\ UNCHANGED <<sent, answers, delivered, blocked, coordinator, offset, saved, reply,
                   notificationsLoop, up, crashes>>

\* Fault: the offset is moved also when the answer could not be sent.
DropBatchAndMove ==
    batch' = {} /\ reply' = "none" /\ offset' = First(batch) + 1 /\ saved' = offset'

\* An exception ends the pass over the batch; the next one asks again.
DropBatch == batch' = {} /\ reply' = "none" /\ UNCHANGED <<offset, saved>>

\* Fault: the offset skips a message.
MoveOffsetTooFar(u) ==
    /\ offset' = u + 2
    /\ reply' = "none"
    /\ \/ saved' = u + 2 /\ batch' = batch \ {u}
       \/ saved' = saved /\ batch' = {}

\* The offset is moved in memory and then in the file, which may fail.
MoveOffset(u) ==
    /\ offset' = u + 1
    /\ reply' = "none"
    /\ \/ saved' = u + 1 /\ batch' = batch \ {u}
       \/ saved' = saved /\ batch' = {}

\* handle_update returns without an answer.
IgnoreUpdate ==
    /\ up /\ batch # {} /\ reply = "none"
    /\ KindOf[First(batch)] = "ignored"
    /\ MoveOffset(First(batch))
    /\ UNCHANGED <<telegram, coordinator, notificationsLoop, up, crashes>>

RefuseUpdate ==
    /\ up /\ batch # {} /\ reply = "none"
    /\ KindOf[First(batch)] = "refused"
    /\ reply' = "refused"
    /\ UNCHANGED <<telegram, coordinator, offset, saved, batch, notificationsLoop,
                   up, crashes>>

\* Commands that create nothing; a request that fails gets an error for an answer.
AnswerQuery ==
    /\ up /\ batch # {} /\ reply = "none"
    /\ KindOf[First(batch)] = "query"
    /\ reply' \in {"info", "error"}
    /\ UNCHANGED <<telegram, coordinator, offset, saved, batch, notificationsLoop,
                   up, crashes>>

\* INSERT, and on a conflict of idempotency keys the existing row.
InsertTask(u) == created' = [created EXCEPT ![u] = IF @ = 0 THEN 1 ELSE @]

\* Fault: a task is announced before the coordinator has answered.
CreateTaskUnheard ==
    /\ up /\ batch # {} /\ reply = "none"
    /\ KindOf[First(batch)] = "create"
    /\ InsertTask(First(batch)) \/ UNCHANGED created
    /\ reply' = "created"
    /\ UNCHANGED <<telegram, outbox, acked, offset, saved, batch, notificationsLoop,
                   up, crashes>>

\* create_task: it works, it works but the response is lost, or it does not;
\* or the addressed worker is unknown, and nothing is requested.  Whatever fails
\* is answered as an error and not tried again.
CreateTask ==
    /\ up /\ batch # {} /\ reply = "none"
    /\ KindOf[First(batch)] = "create"
    /\ \/ InsertTask(First(batch)) /\ reply' \in {"created", "error"}
       \/ UNCHANGED created /\ reply' = "error"
    /\ UNCHANGED <<telegram, outbox, acked, offset, saved, batch, notificationsLoop,
                   up, crashes>>

\* send_message, outside handle_update's try: a failure ends the pass.
SendReply ==
    /\ up /\ reply # "none"
    /\ LET u == First(batch) IN
         \/ /\ u \notin blocked
            /\ answers' = [answers EXCEPT ![u] = @ \cup {reply}]
            /\ MoveOffset(u) \/ DropBatch       \* the response may be lost
         \/ UNCHANGED answers /\ DropBatch
    /\ UNCHANGED <<sent, forgotten, delivered, blocked, coordinator, notificationsLoop,
                   up, crashes>>

-----------------------------------------------------------------------------
(* notifications_loop *)

\* Fault: the list of notifications starts from the newest and is cut off.
GetLatestNotification ==
    /\ up /\ feed = {} /\ toAck = 0
    /\ feed' = {Len(outbox)} \ (acked \cup {0})
    /\ UNCHANGED <<telegram, coordinator, updatesLoop, toAck, up, crashes>>

\* list_notifications, oldest first; the limit of 100 is not modelled.
GetNotifications ==
    /\ up /\ feed = {} /\ toAck = 0
    /\ feed' = (1..Len(outbox)) \ acked
    /\ UNCHANGED <<telegram, coordinator, updatesLoop, toAck, up, crashes>>

\* Fault: a notification is acknowledged whether or not it could be sent.
AcknowledgeAnyway == feed' = feed /\ toAck' = First(feed)

\* An exception ends the pass over the notifications.
DropFeed == feed' = {} /\ toAck' = 0

DeliverNotification ==
    /\ up /\ feed # {} /\ toAck = 0
    /\ LET n == First(feed) IN
         \/ /\ outbox[n] \notin blocked
            /\ delivered' = delivered \cup {outbox[n]}
            /\ \/ toAck' = n /\ UNCHANGED feed
               \/ DropFeed                      \* the response is lost
         \/ UNCHANGED delivered /\ DropFeed
    /\ UNCHANGED <<sent, forgotten, answers, blocked, coordinator, updatesLoop, up, crashes>>

Acknowledge ==
    /\ up /\ toAck # 0
    /\ \/ /\ acked' = acked \cup {toAck}
          /\ toAck' = 0
          /\ feed' \in {feed \ {toAck}, {}}
       \/ UNCHANGED acked /\ DropFeed
    /\ UNCHANGED <<telegram, created, outbox, updatesLoop, up, crashes>>

-----------------------------------------------------------------------------
(* The process, users, the coordinator *)

Crash ==
    /\ up /\ crashes < MaxCrashes
    /\ up' = FALSE
    /\ crashes' = crashes + 1
    /\ offset' = 0 /\ batch' = {} /\ reply' = "none" /\ feed' = {} /\ toAck' = 0
    /\ UNCHANGED <<telegram, coordinator, saved>>

\* load_offset: an unreadable file counts as none.
Restart ==
    /\ ~up
    /\ up' = TRUE
    /\ offset' \in {saved, 0}
    /\ UNCHANGED <<telegram, coordinator, saved, batch, reply, notificationsLoop, crashes>>

UserSends ==
    /\ sent < MaxUpdate
    /\ sent' = sent + 1
    /\ UNCHANGED <<forgotten, answers, delivered, blocked, coordinator, updatesLoop,
                   notificationsLoop, up, crashes>>

\* From now on sendMessage to this chat is refused, every time.
ChatBlocks(u) ==
    /\ u \in Blockers \ blocked
    /\ blocked' = blocked \cup {u}
    /\ UNCHANGED <<sent, forgotten, answers, delivered, coordinator, updatesLoop,
                   notificationsLoop, up, crashes>>

Entries == {outbox[n] : n \in 1..Len(outbox)}

\* A task reaches a terminal status, see EnqueueNotification of TaskRow.
TaskSettles(u) ==
    /\ created[u] > 0 /\ u \notin Entries
    /\ outbox' = Append(outbox, u)
    /\ UNCHANGED <<telegram, created, acked, updatesLoop, notificationsLoop, up, crashes>>

-----------------------------------------------------------------------------

Init ==
    /\ sent = 0 /\ forgotten = 0
    /\ answers = [u \in Updates |-> {}]
    /\ delivered = {} /\ blocked = {}
    /\ created = [u \in Updates |-> 0]
    /\ outbox = <<>> /\ acked = {}
    /\ up = TRUE /\ offset = 0 /\ saved = 0 /\ batch = {} /\ reply = "none"
    /\ feed = {} /\ toAck = 0
    /\ crashes = 0

UpdatesLoop ==
    \/ GetUpdates \/ IgnoreUpdate \/ RefuseUpdate \/ AnswerQuery \/ CreateTask \/ SendReply

NotificationsLoop == GetNotifications \/ DeliverNotification \/ Acknowledge

Next ==
    \/ UpdatesLoop \/ NotificationsLoop
    \/ Crash \/ Restart
    \/ UserSends
    \/ \E u \in Updates : ChatBlocks(u) \/ TaskSettles(u)

Spec == Init /\ [][Next]_vars

\* Both loops catch every exception and try again for ever, and whoever runs the
\* process restarts it; a request that is tried for ever succeeds at some time.
Fairness ==
    /\ SF_vars(GetUpdates /\ batch' = (forgotten' + 1)..sent)
    /\ SF_vars(UpdatesLoop /\ offset' # offset)
    /\ WF_vars(RefuseUpdate) /\ WF_vars(AnswerQuery) /\ WF_vars(CreateTask)
    /\ WF_vars(GetNotifications)
    /\ SF_vars(DeliverNotification /\ toAck' # toAck)
    /\ SF_vars(Acknowledge /\ acked' # acked)
    /\ WF_vars(Restart)

FairSpec == Spec /\ Fairness

=============================================================================
