------------------------- MODULE DirectorBotProofs -------------------------
(***************************************************************************)
(* The safety properties of the Telegram process, proved for any number of *)
(* messages and crashes.                                                   *)
(*                                                                         *)
(* The invariants are not inductive by themselves: they hold because of    *)
(* what the two loops have in hand.  All that precedes a message of the    *)
(* batch is in the batch or answered; the answer to be sent is the one     *)
(* that first message gave; and what is to be acknowledged was delivered.  *)
(***************************************************************************)
EXTENDS DirectorBotProperties, WellFoundedInduction, TLAPS

BatchInOrder == \A u \in batch, v \in Updates : v < u => v \in batch \/ Answered(v)

ReplyFitsBatch ==
    reply # "none" =>
        /\ batch # {}
        /\ reply = "created" => created[First(batch)] = 1

AckFollowsDelivery == toAck # 0 => outbox[toAck] \in delivered

BInv ==
    /\ TypeOK
    /\ PassedOnlyAnswered
    /\ HandledInOrder
    /\ AnswersAreTrue
    /\ AckedOnlyDelivered
    /\ BatchInOrder
    /\ ReplyFitsBatch
    /\ AckFollowsDelivery

-----------------------------------------------------------------------------

\* The first of a batch, or of a feed, is in it, and nothing in it is before.
LEMMA FirstIsLeast ==
    ASSUME NEW S \in SUBSET Nat, S # {}
    PROVE  First(S) \in S /\ \A y \in S : First(S) <= y
<1> DEFINE R == OpToRel(<, Nat)
<1>1. IsWellFoundedOn(R, Nat)
  BY NatLessThanWellFounded
<1>2. \A x, y \in Nat : x < y <=> <<x, y>> \in R
  BY DEF OpToRel
<1> HIDE DEF R
<1>3. \E x \in S : \A y \in S : ~(<<y, x>> \in R)
  BY <1>1, WFMin
<1>4. \A x, y \in Nat : ~(<<y, x>> \in R) => x <= y
  <2> SUFFICES ASSUME NEW x \in Nat, NEW y \in Nat, ~(<<y, x>> \in R) PROVE x <= y
    OBVIOUS
  <2>1. ~(y < x)
    BY <1>2, Zenon
  <2> QED
    BY <2>1
<1>5. S \subseteq Nat
  OBVIOUS
<1>6. \E x \in S : \A y \in S : x <= y
  BY <1>3, <1>4, <1>5, Zenon
<1> QED
  BY <1>6, Zenon DEF First

\* Everything before the message that is handled has its answer.
LEMMA FirstOfBatch ==
    ASSUME BInv, batch # {}
    PROVE  /\ First(batch) \in batch /\ First(batch) \in Updates
           /\ \A v \in Updates : v < First(batch) => Answered(v)
<1>1. batch \in SUBSET Nat /\ batch \subseteq Updates
  BY DEF BInv, TypeOK, Updates
<1>2. First(batch) \in batch /\ \A y \in batch : First(batch) <= y
  BY <1>1, FirstIsLeast
<1>3. \A v \in Updates : v < First(batch) => v \notin batch
  <2> SUFFICES ASSUME NEW v \in Updates, v < First(batch), v \in batch PROVE FALSE
    OBVIOUS
  <2>1. First(batch) <= v /\ v \in Nat /\ First(batch) \in Nat
    BY <1>1, <1>2, Zenon
  <2> QED
    BY <2>1
<1> QED
  BY <1>1, <1>2, <1>3 DEF BInv, BatchInOrder

\* The first messages nobody has seen yet.
LEMMA InitBInv == Init => BInv
<1> SUFFICES ASSUME Init PROVE BInv
  OBVIOUS
<1>1. TypeOK
  BY UpdateAssumption DEF Init, TypeOK, Updates, Replies
<1>2. BatchInOrder
  BY DEF Init, BatchInOrder
<1>3. PassedOnlyAnswered
  BY UpdateAssumption DEF Init, PassedOnlyAnswered, Updates
<1>4. HandledInOrder
  BY DEF Init, HandledInOrder
<1> QED
  BY <1>1, <1>2, <1>3, <1>4 DEF Init, BInv, AnswersAreTrue, AckedOnlyDelivered,
      ReplyFitsBatch, AckFollowsDelivery

-----------------------------------------------------------------------------
(* updates_loop *)

\* What lies below a member of a range and outside of it lies below the range.
LEMMA BelowRange ==
    ASSUME NEW a \in Int, NEW b \in Int, NEW u \in (a + 1)..b, NEW v \in Int,
           v < u, v \notin (a + 1)..b
    PROVE  v <= a
OBVIOUS

\* Asking for messages.
LEMMA GetUpdatesBInv == BInv /\ GetUpdates => BInv'
<1> SUFFICES ASSUME BInv, GetUpdates PROVE BInv'
  OBVIOUS
<1>1. /\ forgotten' \in 0..MaxUpdate
      /\ \A u \in Updates : u <= forgotten' => Answered(u)
  BY UpdateAssumption
  DEF GetUpdates, Forgotten, BInv, TypeOK, PassedOnlyAnswered, Updates
<1>2. batch' \subseteq Updates
  BY <1>1, UpdateAssumption DEF GetUpdates, BInv, TypeOK, Updates
<1>3. BatchInOrder'
  <2> SUFFICES ASSUME NEW u \in batch', NEW v \in Updates, v < u, v \notin batch'
               PROVE  Answered(v)
    BY DEF GetUpdates, BatchInOrder, Answered
  <2> DEFINE asked == (forgotten' + 1)..sent
  <2>0. batch' \in {{}, asked}
    BY DEF GetUpdates
  <2> HIDE DEF asked
  <2>1. batch' = asked
    BY <2>0
  <2>2. v <= forgotten'
    <3>1. v \notin (forgotten' + 1)..sent /\ u \in (forgotten' + 1)..sent
      BY <2>1 DEF asked
    <3>2. sent \in Int /\ forgotten' \in Int /\ v \in Int
      BY <1>1, UpdateAssumption DEF BInv, TypeOK, Updates
    <3> QED
      BY <3>1, <3>2, BelowRange
  <2> QED
    BY <1>1, <2>2
<1>4. TypeOK' /\ PassedOnlyAnswered' /\ ReplyFitsBatch'
  BY <1>1, <1>2
  DEF GetUpdates, BInv, TypeOK, PassedOnlyAnswered, ReplyFitsBatch, Answered, coordinator,
      notificationsLoop
<1> QED
  BY <1>3, <1>4
  DEF GetUpdates, BInv, HandledInOrder, AnswersAreTrue, AckedOnlyDelivered,
      AckFollowsDelivery, Answered, coordinator, notificationsLoop

\* The offset moves past an answered message that is first in the batch.
LEMMA MoveOffsetParts ==
    ASSUME BInv, NEW u, u = First(batch), batch # {}, MoveOffset(u), Answered(u)',
           UNCHANGED forgotten, \A v \in Updates : Answered(v) => Answered(v)'
    PROVE  /\ BatchInOrder' /\ PassedOnlyAnswered' /\ batch' \subseteq Updates /\ reply' = "none"
           /\ offset' \in 0..(MaxUpdate + 1) /\ saved' \in 0..(MaxUpdate + 1)
<1>1. u \in batch /\ u \in Updates /\ \A v \in Updates : v < u => Answered(v)
  BY FirstOfBatch
<1>2. batch' = batch \ {u} \/ batch' = {}
  BY DEF MoveOffset
<1>3. batch' \subseteq batch /\ batch' \subseteq Updates
  BY <1>2 DEF BInv, TypeOK
<1>4. BatchInOrder'
  <2> SUFFICES ASSUME NEW x \in batch', NEW v \in Updates, v < x
               PROVE  v \in batch' \/ Answered(v)'
    BY DEF BatchInOrder
  <2>1. v \in batch \/ Answered(v)
    BY <1>3 DEF BInv, BatchInOrder
  <2>2. v \in batch => v \in batch' \/ v = u
    BY <1>2
  <2> QED
    BY <2>1, <2>2
<1>5. /\ offset' = u + 1 /\ saved' \in {u + 1, saved} /\ reply' = "none"
      /\ u \in 1..MaxUpdate /\ MaxUpdate \in Nat
  BY <1>1, UpdateAssumption DEF MoveOffset, Updates
<1>6. PassedOnlyAnswered'
  <2> SUFFICES ASSUME NEW v \in Updates,
                      v <= forgotten' \/ v < offset' \/ v < saved'
               PROVE  Answered(v)'
    BY DEF PassedOnlyAnswered
  <2>1. v < u \/ v = u \/ v <= forgotten \/ v < saved
    BY <1>5 DEF Updates
  <2> QED
    BY <1>1, <2>1 DEF BInv, PassedOnlyAnswered
<1> QED
  BY <1>3, <1>4, <1>5, <1>6 DEF BInv, TypeOK

\* A message without text is passed over.
LEMMA IgnoreUpdateBInv == BInv /\ IgnoreUpdate => BInv'
<1> SUFFICES ASSUME BInv, IgnoreUpdate PROVE BInv'
  OBVIOUS
<1>1. PICK u : u = First(batch)
  OBVIOUS
<1>2. Answered(u)' /\ MoveOffset(u) /\ batch # {}
  BY <1>1 DEF IgnoreUpdate, Answered
<1>3. \A v : Answered(v) => Answered(v)'
  BY DEF IgnoreUpdate, Answered, telegram
<1>4. /\ BatchInOrder' /\ PassedOnlyAnswered' /\ batch' \subseteq Updates /\ reply' = "none"
      /\ offset' \in 0..(MaxUpdate + 1) /\ saved' \in 0..(MaxUpdate + 1)
  BY <1>1, <1>2, <1>3, MoveOffsetParts DEF IgnoreUpdate, telegram
<1>5. UNCHANGED <<telegram, coordinator, notificationsLoop, up, crashes>>
  BY DEF IgnoreUpdate
<1>6. TypeOK' /\ ReplyFitsBatch'
  BY <1>4, <1>5
  DEF BInv, TypeOK, ReplyFitsBatch, telegram, coordinator, notificationsLoop
<1> QED
  BY <1>3, <1>4, <1>5, <1>6
  DEF BInv, HandledInOrder, AnswersAreTrue, AckedOnlyDelivered,
      AckFollowsDelivery, telegram, coordinator, notificationsLoop

\* A refusal, an answer to a query: only the answer to be sent is set.
LEMMA AnswerBInv == BInv /\ (RefuseUpdate \/ AnswerQuery) => BInv'
<1> SUFFICES ASSUME BInv, RefuseUpdate \/ AnswerQuery PROVE BInv'
  OBVIOUS
<1>1. /\ reply' \in {"refused", "info", "error"} /\ batch # {}
      /\ UNCHANGED <<telegram, coordinator, offset, saved, batch, notificationsLoop,
                     up, crashes>>
  BY DEF RefuseUpdate, AnswerQuery
<1>2. TypeOK' /\ ReplyFitsBatch'
  BY <1>1 DEF BInv, TypeOK, ReplyFitsBatch, Replies, telegram, coordinator, notificationsLoop
<1> QED
  BY <1>1, <1>2
  DEF BInv, PassedOnlyAnswered, HandledInOrder, AnswersAreTrue,
      AckedOnlyDelivered, BatchInOrder, AckFollowsDelivery, Answered, telegram, coordinator,
      notificationsLoop

\* A task is requested: under its idempotency key it is there at most once, and
\* all earlier messages have their answers.
LEMMA CreateTaskBInv == BInv /\ CreateTask => BInv'
<1> SUFFICES ASSUME BInv, CreateTask PROVE BInv'
  OBVIOUS
<1>1. PICK u : u = First(batch)
  OBVIOUS
<1>2. u \in Updates /\ \A v \in Updates : v < u => Answered(v)
  BY <1>1, FirstOfBatch DEF CreateTask
<1>3. /\ batch # {} /\ reply' \in {"created", "error"}
      /\ \/ created' = [created EXCEPT ![u] = IF @ = 0 THEN 1 ELSE @]
         \/ created' = created /\ reply' = "error"
      /\ UNCHANGED <<telegram, outbox, acked, offset, saved, batch, notificationsLoop,
                     up, crashes>>
  BY <1>1 DEF CreateTask, InsertTask
<1>4. created \in [Updates -> 0..1]
  BY DEF BInv, TypeOK
<1>5. /\ created' \in [Updates -> 0..1]
      /\ \A x \in Updates : created'[x] = created[x] \/ x = u
      /\ \A x \in Updates : created[x] = 1 => created'[x] = 1
      /\ reply' = "created" => created'[u] = 1
  BY <1>2, <1>3, <1>4
<1>6. TypeOK'
  BY <1>3, <1>5 DEF BInv, TypeOK, Replies, telegram, notificationsLoop
<1>7. HandledInOrder'
  BY <1>2, <1>3, <1>5 DEF BInv, HandledInOrder, Answered, telegram
<1>8. ReplyFitsBatch' /\ AnswersAreTrue'
  BY <1>1, <1>3, <1>5
  DEF BInv, ReplyFitsBatch, AnswersAreTrue, telegram
<1> QED
  BY <1>3, <1>6, <1>7, <1>8
  DEF BInv, PassedOnlyAnswered, AckedOnlyDelivered, BatchInOrder, AckFollowsDelivery,
      Answered, telegram, notificationsLoop

\* An answer is sent, and the offset moved; or the pass over the batch ends.
LEMMA SendReplyBInv == BInv /\ SendReply => BInv'
<1> SUFFICES ASSUME BInv, SendReply PROVE BInv'
  OBVIOUS
<1>1. PICK u : u = First(batch)
  OBVIOUS
<1>2. batch # {} /\ reply \in Replies
  BY DEF SendReply, BInv, ReplyFitsBatch, TypeOK
<1>3. u \in Updates /\ \A v \in Updates : v < u => Answered(v)
  BY <1>1, <1>2, FirstOfBatch
<1>4. reply = "created" => created[u] = 1
  BY <1>1 DEF BInv, ReplyFitsBatch
<1>5. /\ answers' = answers \/ answers' = [answers EXCEPT ![u] = @ \cup {reply}]
      /\ \/ answers' = [answers EXCEPT ![u] = @ \cup {reply}] /\ MoveOffset(u)
         \/ DropBatch
      /\ UNCHANGED <<sent, forgotten, delivered, blocked, coordinator, notificationsLoop,
                     up, crashes>>
  BY <1>1 DEF SendReply
<1>6. answers \in [Updates -> SUBSET Replies]
  BY DEF BInv, TypeOK
<1>7. /\ answers' \in [Updates -> SUBSET Replies]
      /\ \A x \in Updates : answers[x] \subseteq answers'[x]
      /\ \A x \in Updates \ {u} : answers'[x] = answers[x]
      /\ answers'[u] \in {answers[u], answers[u] \cup {reply}}
      /\ answers' = [answers EXCEPT ![u] = @ \cup {reply}] => answers'[u] # {}
  BY <1>2, <1>3, <1>5, <1>6
<1>8. \A v \in Updates : Answered(v) => Answered(v)'
  BY <1>7 DEF Answered
<1>9. /\ BatchInOrder' /\ PassedOnlyAnswered' /\ batch' \subseteq Updates /\ reply' = "none"
      /\ offset' \in 0..(MaxUpdate + 1) /\ saved' \in 0..(MaxUpdate + 1)
  <2>1. CASE answers' = [answers EXCEPT ![u] = @ \cup {reply}] /\ MoveOffset(u)
    <3>1. Answered(u)'
      BY <1>7, <2>1 DEF Answered
    <3> QED
      BY <1>1, <1>2, <1>5, <1>8, <2>1, <3>1, MoveOffsetParts
  <2>2. CASE DropBatch
    BY <1>5, <1>8, <2>2 DEF DropBatch, BInv, BatchInOrder, PassedOnlyAnswered, TypeOK
  <2> QED
    BY <1>5, <2>1, <2>2
<1>10. AnswersAreTrue'
  BY <1>4, <1>5, <1>7 DEF BInv, AnswersAreTrue, coordinator
<1>11. HandledInOrder'
  <2> SUFFICES ASSUME NEW x \in Updates, NEW v \in Updates, v < x,
                      created'[x] > 0 \/ answers'[x] # {}
               PROVE  Answered(v)'
    BY DEF HandledInOrder
  <2>1. CASE x = u
    BY <1>3, <1>8, <2>1
  <2>2. CASE x # u
    BY <1>5, <1>7, <1>8, <2>2 DEF BInv, HandledInOrder, coordinator
  <2> QED
    BY <2>1, <2>2
<1>12. TypeOK' /\ ReplyFitsBatch'
  BY <1>5, <1>7, <1>9
  DEF BInv, TypeOK, ReplyFitsBatch, coordinator, notificationsLoop
<1> QED
  BY <1>5, <1>9, <1>10, <1>11, <1>12
  DEF BInv, AckedOnlyDelivered, AckFollowsDelivery, coordinator, notificationsLoop

-----------------------------------------------------------------------------
(* notifications_loop *)

\* What neither loop's memory nor the messages are touched by.
LEMMA MessagesKept ==
    ASSUME BInv, UNCHANGED <<sent, forgotten, answers, created, offset, saved, batch, reply>>
    PROVE  /\ PassedOnlyAnswered' /\ HandledInOrder' /\ AnswersAreTrue'
           /\ BatchInOrder' /\ ReplyFitsBatch'
BY DEF BInv, PassedOnlyAnswered, HandledInOrder, AnswersAreTrue,
       BatchInOrder, ReplyFitsBatch, Answered

\* The outbox is read.
LEMMA GetNotificationsBInv == BInv /\ GetNotifications => BInv'
<1> SUFFICES ASSUME BInv, GetNotifications PROVE BInv'
  OBVIOUS
<1>1. UNCHANGED <<sent, forgotten, answers, created, offset, saved, batch, reply>>
  BY DEF GetNotifications, telegram, coordinator, updatesLoop
<1>2. TypeOK'
  BY DEF GetNotifications, BInv, TypeOK, telegram, coordinator, updatesLoop
<1> QED
  BY <1>1, <1>2, MessagesKept
  DEF GetNotifications, BInv, AckedOnlyDelivered, AckFollowsDelivery, telegram, coordinator

\* An entry is sent, and is to be acknowledged when Telegram has answered.
LEMMA DeliverNotificationBInv == BInv /\ DeliverNotification => BInv'
<1> SUFFICES ASSUME BInv, DeliverNotification PROVE BInv'
  OBVIOUS
<1>1. PICK n : n = First(feed)
  OBVIOUS
<1>2. n \in feed /\ n \in 1..Len(outbox)
  <2>1. /\ outbox \in Seq(Updates) /\ Len(outbox) \in Nat
        /\ feed \in SUBSET (1..Len(outbox)) /\ feed # {}
    BY DEF DeliverNotification, BInv, TypeOK
  <2>2. feed \in SUBSET Nat
    BY <2>1
  <2>3. First(feed) \in feed
    BY <2>1, <2>2, FirstIsLeast
  <2> QED
    BY <1>1, <2>1, <2>3
<1>3. outbox \in Seq(Updates) /\ outbox[n] \in Updates
  BY <1>2 DEF BInv, TypeOK
<1>4. /\ UNCHANGED <<sent, forgotten, answers, created, offset, saved, batch, reply>>
      /\ UNCHANGED <<blocked, outbox, acked, up, crashes>>
      /\ \/ delivered' = delivered \cup {outbox[n]} /\ toAck' = n /\ feed' = feed
         \/ /\ delivered' \in {delivered, delivered \cup {outbox[n]}}
            /\ feed' = {} /\ toAck' = 0
  BY <1>1 DEF DeliverNotification, DropFeed, coordinator, updatesLoop
<1>5. TypeOK'
  <2>1. Len(outbox) \in Nat /\ toAck \in 0..Len(outbox) /\ n \in 0..Len(outbox)
    BY <1>2 DEF BInv, TypeOK
  <2>2. toAck' \in 0..Len(outbox)
    BY <1>4, <2>1
  <2>3. delivered' \in SUBSET Updates
    BY <1>3, <1>4 DEF BInv, TypeOK
  <2>4. feed' \in SUBSET (1..Len(outbox))
    BY <1>4 DEF BInv, TypeOK
  <2> QED
    BY <1>4, <2>2, <2>3, <2>4 DEF BInv, TypeOK
<1>6. AckedOnlyDelivered' /\ AckFollowsDelivery'
  BY <1>2, <1>4 DEF BInv, AckedOnlyDelivered, AckFollowsDelivery
<1> QED
  BY <1>4, <1>5, <1>6, MessagesKept DEF BInv

\* A delivered entry is acknowledged.
LEMMA AcknowledgeBInv == BInv /\ Acknowledge => BInv'
<1> SUFFICES ASSUME BInv, Acknowledge PROVE BInv'
  OBVIOUS
<1>1. UNCHANGED <<sent, forgotten, answers, created, offset, saved, batch, reply>>
  BY DEF Acknowledge, telegram, updatesLoop
<1>2. /\ acked' \in {acked, acked \cup {toAck}} /\ feed' \subseteq feed /\ toAck' = 0
      /\ UNCHANGED <<delivered, blocked, outbox, up, crashes>>
  BY DEF Acknowledge, DropFeed, telegram
<1>3. toAck \in 1..Len(outbox) /\ outbox[toAck] \in delivered
  BY DEF Acknowledge, BInv, TypeOK, AckFollowsDelivery
<1>4. TypeOK'
  BY <1>1, <1>2, <1>3 DEF BInv, TypeOK
<1>5. AckedOnlyDelivered' /\ AckFollowsDelivery'
  BY <1>2, <1>3 DEF BInv, AckedOnlyDelivered, AckFollowsDelivery
<1> QED
  BY <1>1, <1>4, <1>5, MessagesKept DEF BInv

-----------------------------------------------------------------------------
(* The process, users, the coordinator *)

\* The process dies: all it had in hand is gone, the file stays.
LEMMA CrashBInv == BInv /\ (Crash \/ Restart) => BInv'
<1> SUFFICES ASSUME BInv, Crash \/ Restart PROVE BInv'
  OBVIOUS
<1>1. /\ UNCHANGED <<telegram, coordinator, saved>>
      /\ offset' \in {saved, 0} /\ batch' \subseteq batch /\ feed' \subseteq feed
      /\ batch' \in {{}, batch}
      /\ reply' \in {reply, "none"} /\ (reply' # "none" => batch' = batch)
      /\ toAck' \in {toAck, 0}
      /\ up' \in BOOLEAN
  BY DEF Crash, Restart, updatesLoop, notificationsLoop
<1>2. crashes' \in 0..MaxCrashes
  <2>1. crashes \in 0..MaxCrashes /\ MaxCrashes \in Nat
    BY UpdateAssumption DEF BInv, TypeOK
  <2>2. crashes' = crashes \/ (crashes < MaxCrashes /\ crashes' = crashes + 1)
    BY DEF Crash, Restart
  <2> QED
    BY <2>1, <2>2
<1>3. \A v \in Updates : Answered(v) <=> Answered(v)'
  BY <1>1 DEF Answered, telegram
<1>4. TypeOK'
  BY <1>1, <1>2, UpdateAssumption DEF BInv, TypeOK, telegram, coordinator
<1>5. PassedOnlyAnswered'
  BY <1>1, <1>3, UpdateAssumption DEF BInv, PassedOnlyAnswered, telegram, Updates
<1>6. BatchInOrder' /\ HandledInOrder'
  BY <1>1, <1>3 DEF BInv, BatchInOrder, HandledInOrder, telegram, coordinator
<1>7. ReplyFitsBatch'
  <2>1. CASE reply' = "none"
    BY <2>1 DEF ReplyFitsBatch
  <2>2. CASE reply' = reply /\ batch' = batch
    BY <1>1, <2>2 DEF BInv, ReplyFitsBatch, coordinator
  <2> QED
    BY <1>1, <2>1, <2>2
<1> QED
  BY <1>1, <1>4, <1>5, <1>6, <1>7
  DEF BInv, AnswersAreTrue, AckedOnlyDelivered, AckFollowsDelivery,
      telegram, coordinator

\* Users write, and block the bot.
LEMMA UsersBInv == BInv /\ (UserSends \/ \E u \in Updates : ChatBlocks(u)) => BInv'
<1> SUFFICES ASSUME BInv, UserSends \/ \E u \in Updates : ChatBlocks(u) PROVE BInv'
  OBVIOUS
<1>1. /\ UNCHANGED <<forgotten, answers, delivered, coordinator, updatesLoop,
                     notificationsLoop, up, crashes>>
      /\ sent' \in 0..MaxUpdate /\ blocked' \subseteq Updates
  BY UpdateAssumption DEF UserSends, ChatBlocks, BInv, TypeOK
<1>2. TypeOK'
  BY <1>1 DEF BInv, TypeOK, coordinator, updatesLoop, notificationsLoop
<1> QED
  BY <1>1, <1>2
  DEF BInv, PassedOnlyAnswered, HandledInOrder, AnswersAreTrue,
      AckedOnlyDelivered, BatchInOrder, ReplyFitsBatch, AckFollowsDelivery, Answered,
      coordinator, updatesLoop, notificationsLoop

\* A task is settled: the outbox gets longer, and its entries keep their places.
LEMMA TaskSettlesBInv == ASSUME BInv, NEW u \in Updates, TaskSettles(u) PROVE BInv'
<1>1. UNCHANGED <<sent, forgotten, answers, created, offset, saved, batch, reply>>
  BY DEF TaskSettles, telegram, updatesLoop
<1>2. /\ UNCHANGED <<delivered, blocked, acked, feed, toAck, up, crashes>>
      /\ outbox' = Append(outbox, u)
  BY DEF TaskSettles, telegram, notificationsLoop
<1>3. /\ outbox' \in Seq(Updates) /\ Len(outbox') = Len(outbox) + 1
      /\ \A n \in 1..Len(outbox) : outbox'[n] = outbox[n]
      /\ Len(outbox) \in Nat
  BY <1>2 DEF BInv, TypeOK
<1>4. TypeOK'
  BY <1>1, <1>2, <1>3 DEF BInv, TypeOK
<1>5. AckedOnlyDelivered' /\ AckFollowsDelivery'
  BY <1>2, <1>3 DEF BInv, TypeOK, AckedOnlyDelivered, AckFollowsDelivery
<1> QED
  BY <1>1, <1>4, <1>5, MessagesKept DEF BInv

-----------------------------------------------------------------------------
(* The theorems *)

\* The inductive invariant of the Telegram process.
THEOREM BotInductive == Spec => []BInv
<1>1. BInv /\ [Next]_vars => BInv'
  <2> SUFFICES ASSUME BInv, [Next]_vars PROVE BInv'
    OBVIOUS
  <2>1. CASE UpdatesLoop
    BY <2>1, GetUpdatesBInv, IgnoreUpdateBInv, AnswerBInv, CreateTaskBInv, SendReplyBInv
    DEF UpdatesLoop
  <2>2. CASE NotificationsLoop
    BY <2>2, GetNotificationsBInv, DeliverNotificationBInv, AcknowledgeBInv
    DEF NotificationsLoop
  <2>3. CASE Crash \/ Restart
    BY <2>3, CrashBInv
  <2>4. CASE UserSends \/ \E u \in Updates : ChatBlocks(u) \/ TaskSettles(u)
    BY <2>4, UsersBInv, TaskSettlesBInv
  <2>5. CASE UNCHANGED vars
    BY <2>5
    DEF BInv, TypeOK, PassedOnlyAnswered, HandledInOrder, AnswersAreTrue,
        AckedOnlyDelivered, BatchInOrder, ReplyFitsBatch, AckFollowsDelivery, Answered,
        vars, telegram, coordinator, updatesLoop, notificationsLoop
  <2> QED
    BY <2>1, <2>2, <2>3, <2>4, <2>5 DEF Next
<1> QED
  BY <1>1, InitBInv, PTL DEF Spec

\* Every variable of the process, of Telegram and of the coordinator keeps its
\* type; in particular nothing is acknowledged that the outbox does not hold.
THEOREM BotTypeCorrect == Spec => []TypeOK
BY BotInductive, PTL DEF BInv

\* No message is left behind without an answer, by Telegram, process or file.
THEOREM NoMessageIsSkipped == Spec => []PassedOnlyAnswered
BY BotInductive, PTL DEF BInv

\* Messages are handled in the order in which they were sent.
THEOREM MessagesInOrder == Spec => []HandledInOrder
BY BotInductive, PTL DEF BInv

\* A task that a user was told of is there.
THEOREM NoTaskIsInvented == Spec => []AnswersAreTrue
BY BotInductive, PTL DEF BInv

\* No outcome leaves the outbox before Telegram has taken it.
THEOREM NoOutcomeIsLost == Spec => []AckedOnlyDelivered
BY BotInductive, PTL DEF BInv

=============================================================================
