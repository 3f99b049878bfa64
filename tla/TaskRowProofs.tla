--------------------------- MODULE TaskRowProofs ---------------------------
(***************************************************************************)
(* What the statements of the store keep true of a single row.            *)
(***************************************************************************)
EXTENDS TaskStoreProperties, TLAPS

\* What the row predicates of TaskStoreProperties need to be inductive: an
\* executing or reconciling row is on some attempt of the worker that resolved
\* it, a row that waits for its first or next attempt has no remote run, and
\* one that is still to be planned has no attempt and no time running.
Staged(r) ==
    /\ r.status \in Active \cup {"reconciling"} =>
           /\ r.attempt.count > 0
           /\ r.claim.by # NoWorker
           /\ r.attempt.resolved = r.claim.by
    /\ r.status \in {"absent", "planning_pending", "planning", "pending"} =>
           r.remote.run = NoRun
    /\ r.status \in {"absent", "planning_pending", "planning"} =>
           r.attempt.count = 0 /\ r.attempt.budget = NoTime
    /\ r.status = "absent" => r.planner.attempts = 0

RowInv(r) ==
    /\ r \in Row
    /\ HasLiveClaim(r)
    /\ HasLivePlannerClaim(r)
    /\ RunOfThisAttempt(r)
    /\ CanLeaveReconciliation(r)
    /\ WithinBudget(r)
    /\ NoticeTellsOutcome(r)
    /\ Staged(r)

USE DEF Terminal, Active

-----------------------------------------------------------------------------
(* A record is the function of its fields: how the provers see a row through *)
(* EXCEPT.                                                                 *)

Fields == {"status", "origin", "planner", "claim", "attempt", "remote", "outbox", "cancel"}

IsRecord(r) == r = [f \in Fields |-> r[f]]

\* A row is the record of its fields.
LEMMA RowIsRecord ==
    ASSUME NEW r \in Row
    PROVE  IsRecord(r)
BY DEF Row, Fields, IsRecord

\* A record with the fields of a row, each in its range, is a row.
LEMMA RowByFields ==
    ASSUME NEW r, IsRecord(r),
           r.status \in Status, r.origin \in Origin, r.planner \in Planner,
           r.claim \in Claim, r.attempt \in Attempt, r.remote \in Remote,
           r.outbox \in Outbox, r.cancel \in BOOLEAN
    PROVE  r \in Row
BY DEF Row, Fields, IsRecord

-----------------------------------------------------------------------------
(* Parts of a row *)

\* The durations the store is configured with are values of a timer.
LEMMA TimerFacts ==
    /\ NoTime \in Timer /\ 0 \in Timer /\ TaskLease \in Timer /\ PlannerLease \in Timer
    /\ TaskTimeout \in Timer /\ ReconciliationGrace \in Timer
    /\ ReconciliationBackoff \in Timer
    /\ TaskLease # NoTime /\ PlannerLease # NoTime /\ ReconciliationGrace # NoTime
    /\ ReconciliationBackoff # NoTime /\ 0 # NoTime
BY DurationAssumption DEF Timer, NoTime

\* A unit of time keeps a timer a timer, and neither sets nor clears it.
LEMMA AgeFacts ==
    ASSUME NEW x \in Timer
    PROVE  /\ Age(x) \in Timer
           /\ Age(x) = NoTime <=> x = NoTime
           /\ Age(x) <= x
BY DEF Timer, NoTime, Age

\* A released claim has no token and no lease; its history stays.
LEMMA ReleasedClaim ==
    ASSUME NEW c \in Claim
    PROVE  /\ Released(c) \in Claim
           /\ Released(c).by = c.by
           /\ Released(c).token = 0
           /\ Released(c).lease = NoTime
           /\ Released(c).issued = c.issued
BY TimerFacts DEF Claim, Released

\* The claim of a requeued row has no owner either.
LEMMA ReturnedClaim ==
    ASSUME NEW c \in Claim
    PROVE  LET d == [Released(c) EXCEPT !.by = NoWorker] IN
           /\ d \in Claim
           /\ d.by = NoWorker
           /\ d.token = 0
           /\ d.lease = NoTime
           /\ d.issued = c.issued
<1>1. Released(c) \in Claim
  BY ReleasedClaim
<1> QED
  BY <1>1, ReleasedClaim DEF Claim

\* The remote part of a row without a run.
LEMMA RemoteFacts == NoRemote \in Remote
BY TimerFacts DEF Remote, NoRemote

\* A remote run kept without its reconciliation.
LEMMA KeptRemote ==
    ASSUME NEW run \in Runs \cup {NoRun}, NEW n \in Nat
    PROVE  LET m == [NoRemote EXCEPT !.run = run, !.attempt = n] IN
           m \in Remote /\ m.run = run /\ m.attempt = n
BY TimerFacts DEF Remote, NoRemote

\* What a reconciliation records: a reason, a deadline and a next attempt.
LEMMA SoughtRemote ==
    ASSUME NEW m \in Remote, NEW wait \in Timer, NEW exceeded \in BOOLEAN
    PROVE  /\ Sought(m, wait, exceeded) \in Remote
           /\ Sought(m, wait, exceeded).run = m.run
           /\ Sought(m, wait, exceeded).attempt = m.attempt
           /\ Sought(m, wait, exceeded).reason
           /\ Sought(m, wait, exceeded).grace # NoTime
           /\ m.grace # NoTime => Sought(m, wait, exceeded).grace = m.grace
           /\ Sought(m, wait, exceeded).retry = wait
BY TimerFacts DEF Remote, Sought

\* A granted claim has the newest token, in the hands of the worker.
LEMMA GrantedClaim ==
    ASSUME NEW c \in Claim, NEW w \in Workers
    PROVE  /\ Granted(c, w) \in Claim
           /\ Granted(c, w).by = w
           /\ Granted(c, w).token # 0
           /\ Granted(c, w).lease # NoTime
           /\ Granted(c, w).token = Len(Granted(c, w).issued)
           /\ Granted(c, w).issued[Granted(c, w).token] = w
           /\ Len(Granted(c, w).issued) = Len(c.issued) + 1
BY TimerFacts DEF Claim, Granted

\* A released planner claim has no token and no lease.
LEMMA ReleasedPlanner ==
    ASSUME NEW p \in Planner
    PROVE  /\ PlannerReleased(p) \in Planner
           /\ PlannerReleased(p).attempts = p.attempts
           /\ PlannerReleased(p).token = 0
           /\ PlannerReleased(p).lease = NoTime
BY TimerFacts DEF Planner, PlannerReleased

-----------------------------------------------------------------------------
(* Statements *)

\* Back in the queue: sound, if an attempt is left.
LEMMA RequeuedInv ==
    ASSUME NEW r, RowInv(r), r.status \in Active, r.attempt.count < MaxAttempts
    PROVE  RowInv(Requeued(r))
<1> DEFINE s == Requeued(r)
<1>0. r \in Row
  BY DEF RowInv
<1>1. IsRecord(s)
  BY <1>0, RowIsRecord, Zenon DEF IsRecord, Requeued
<1>2. /\ s.status = "pending"
      /\ s.origin = r.origin /\ s.planner = r.planner
      /\ s.outbox = r.outbox /\ s.cancel = r.cancel
      /\ s.remote = NoRemote
      /\ s.claim = [Released(r.claim) EXCEPT !.by = NoWorker]
      /\ s.attempt = [r.attempt EXCEPT !.resolved = NoWorker]
  BY <1>0 DEF Row, Requeued
<1>3. s.attempt.count = r.attempt.count /\ s.attempt \in Attempt
  BY <1>0, <1>2 DEF Row, Attempt
<1> HIDE DEF s
<1>4. s \in Row
  BY <1>0, <1>1, <1>2, <1>3, RowByFields, ReturnedClaim, RemoteFacts DEF Row, Status
<1>5. /\ HasLiveClaim(s) /\ HasLivePlannerClaim(s) /\ RunOfThisAttempt(s)
      /\ CanLeaveReconciliation(s) /\ WithinBudget(s) /\ NoticeTellsOutcome(s) /\ Staged(s)
  BY <1>0, <1>2, <1>3, ReturnedClaim
  DEF RowInv, Row, HasLiveClaim, HasLivePlannerClaim, RunOfThisAttempt,
      CanLeaveReconciliation, WithinBudget, NoticeTellsOutcome, Staged, NoRemote
<1> QED
  BY <1>4, <1>5, Zenon DEF RowInv, s

\* The settled row, before and after its notification enters the outbox.
LEMMA EnqueuedInv ==
    ASSUME NEW r \in Row, r.status \in Terminal, r.outbox.notice = "none", ~r.outbox.acked
    PROVE  LET s == EnqueueNotification(r) IN
           /\ s \in Row
           /\ NoticeTellsOutcome(s)
           /\ s.status = r.status /\ s.origin = r.origin /\ s.planner = r.planner
           /\ s.claim = r.claim /\ s.attempt = r.attempt /\ s.remote = r.remote
           /\ s.cancel = r.cancel
<1> DEFINE s == EnqueueNotification(r)
<1>1. CASE ~r.origin.chat
  BY <1>1 DEF EnqueueNotification, NoticeTellsOutcome, Row, Origin
<1>2. CASE r.origin.chat
  <2>1. s = [r EXCEPT !.outbox.notice = r.status]
    BY <1>2 DEF EnqueueNotification
  <2>2. IsRecord(s)
    BY <2>1, RowIsRecord, Zenon DEF IsRecord
  <2>3. /\ s.status = r.status /\ s.origin = r.origin /\ s.planner = r.planner
        /\ s.claim = r.claim /\ s.attempt = r.attempt /\ s.remote = r.remote
        /\ s.cancel = r.cancel
        /\ s.outbox = [r.outbox EXCEPT !.notice = r.status]
    BY <2>1 DEF Row
  <2>4. s.outbox \in Outbox /\ s.outbox.notice = r.status /\ ~s.outbox.acked
    BY <2>3 DEF Row, Outbox
  <2> HIDE DEF s
  <2>5. s \in Row
    BY <2>2, <2>3, <2>4, RowByFields DEF Row
  <2>6. NoticeTellsOutcome(s)
    BY <1>2, <2>3, <2>4 DEF NoticeTellsOutcome
  <2> QED
    BY <2>3, <2>5, <2>6, Zenon DEF s
<1> QED
  BY <1>1, <1>2


\* Everything but the outbox of a row that is settled, whichever claim it had.
LEMMA FinishedInv ==
    ASSUME NEW r, RowInv(r), r.status \in Active \cup {"reconciling"},
           NEW outcome \in Terminal
    PROVE  RowInv(Finished(r, outcome)) /\ Finished(r, outcome).status = outcome
<1> DEFINE a == [r EXCEPT !.status = outcome, !.claim = Released(@)]
           s == EnqueueNotification(a)
<1>0. r \in Row
  BY DEF RowInv
<1>1. IsRecord(a)
  BY <1>0, RowIsRecord, Zenon DEF IsRecord
<1>2. /\ a.status = outcome /\ a.claim = Released(r.claim)
      /\ a.origin = r.origin /\ a.planner = r.planner /\ a.attempt = r.attempt
      /\ a.remote = r.remote /\ a.outbox = r.outbox /\ a.cancel = r.cancel
  BY <1>0 DEF Row
<1> HIDE DEF a
<1>3. a \in Row
  BY <1>0, <1>1, <1>2, RowByFields, ReleasedClaim DEF Row, Status
<1>4. a.outbox.notice = "none" /\ ~a.outbox.acked
  BY <1>2 DEF RowInv, NoticeTellsOutcome
<1>5. /\ s \in Row /\ NoticeTellsOutcome(s)
      /\ s.status = outcome /\ s.planner = r.planner /\ s.attempt = r.attempt
      /\ s.remote = r.remote /\ s.claim = Released(r.claim)
  BY <1>2, <1>3, <1>4, EnqueuedInv
<1> HIDE DEF s
<1>6. /\ HasLiveClaim(s) /\ HasLivePlannerClaim(s) /\ RunOfThisAttempt(s)
      /\ CanLeaveReconciliation(s) /\ WithinBudget(s) /\ Staged(s)
  BY <1>0, <1>5, ReleasedClaim
  DEF RowInv, Row, HasLiveClaim, HasLivePlannerClaim, RunOfThisAttempt,
      CanLeaveReconciliation, WithinBudget, Staged
<1>7. Finished(r, outcome) = s
  BY Zenon DEF Finished, s, a
<1> QED
  BY <1>5, <1>6, <1>7, Zenon DEF RowInv

\* Clearing the next attempt of a settled row changes nothing that matters.
LEMMA WithoutRetryInv ==
    ASSUME NEW r, RowInv(r), r.status \in Terminal
    PROVE  RowInv([r EXCEPT !.remote.retry = NoTime])
<1> DEFINE s == [r EXCEPT !.remote.retry = NoTime]
<1>0. r \in Row
  BY DEF RowInv
<1>1. IsRecord(s)
  BY <1>0, RowIsRecord, Zenon DEF IsRecord
<1>2. /\ s.status = r.status /\ s.origin = r.origin /\ s.planner = r.planner
      /\ s.claim = r.claim /\ s.attempt = r.attempt /\ s.outbox = r.outbox
      /\ s.cancel = r.cancel
      /\ s.remote = [r.remote EXCEPT !.retry = NoTime]
  BY <1>0 DEF Row
<1>3. /\ s.remote \in Remote /\ s.remote.run = r.remote.run
      /\ s.remote.attempt = r.remote.attempt
  BY <1>0, <1>2, TimerFacts DEF Row, Remote
<1> HIDE DEF s
<1>4. s \in Row
  BY <1>0, <1>1, <1>2, <1>3, RowByFields DEF Row
<1>5. /\ HasLiveClaim(s) /\ HasLivePlannerClaim(s) /\ RunOfThisAttempt(s)
      /\ CanLeaveReconciliation(s) /\ WithinBudget(s) /\ NoticeTellsOutcome(s) /\ Staged(s)
  BY <1>2, <1>3
  DEF RowInv, HasLiveClaim, HasLivePlannerClaim, RunOfThisAttempt,
      CanLeaveReconciliation, WithinBudget, NoticeTellsOutcome, Staged
<1> QED
  BY <1>4, <1>5, Zenon DEF RowInv, s

\* Settling a row that is being planned.
LEMMA FinishedPlanningInv ==
    ASSUME NEW r, RowInv(r), r.status = "planning", NEW outcome \in Terminal
    PROVE  RowInv(FinishedPlanning(r, outcome))
<1> DEFINE a == [r EXCEPT !.status = outcome, !.planner = PlannerReleased(@)]
           s == EnqueueNotification(a)
<1>0. r \in Row
  BY DEF RowInv
<1>1. IsRecord(a)
  BY <1>0, RowIsRecord, Zenon DEF IsRecord
<1>2. /\ a.status = outcome /\ a.planner = PlannerReleased(r.planner)
      /\ a.origin = r.origin /\ a.claim = r.claim /\ a.attempt = r.attempt
      /\ a.remote = r.remote /\ a.outbox = r.outbox /\ a.cancel = r.cancel
  BY <1>0 DEF Row
<1> HIDE DEF a
<1>3. a \in Row
  BY <1>0, <1>1, <1>2, RowByFields, ReleasedPlanner DEF Row, Status
<1>4. a.outbox.notice = "none" /\ ~a.outbox.acked
  BY <1>2 DEF RowInv, NoticeTellsOutcome
<1>5. /\ s \in Row /\ NoticeTellsOutcome(s)
      /\ s.status = outcome /\ s.planner = PlannerReleased(r.planner)
      /\ s.attempt = r.attempt /\ s.remote = r.remote /\ s.claim = r.claim
  BY <1>2, <1>3, <1>4, EnqueuedInv
<1> HIDE DEF s
<1>6. /\ HasLiveClaim(s) /\ HasLivePlannerClaim(s) /\ RunOfThisAttempt(s)
      /\ CanLeaveReconciliation(s) /\ WithinBudget(s) /\ Staged(s)
  BY <1>0, <1>5, ReleasedPlanner
  DEF RowInv, Row, HasLiveClaim, HasLivePlannerClaim, RunOfThisAttempt,
      CanLeaveReconciliation, WithinBudget, Staged
<1>7. FinishedPlanning(r, outcome) = s
  BY Zenon DEF FinishedPlanning, s, a
<1> QED
  BY <1>5, <1>6, <1>7, Zenon DEF RowInv

\* Back to the planners: sound, if a planner attempt is left.
LEMMA ReturnedToPlannerInv ==
    ASSUME NEW r, RowInv(r), r.status = "planning",
           r.planner.attempts < PlannerMaxAttempts
    PROVE  RowInv(ReturnedToPlanner(r))
<1> DEFINE s == ReturnedToPlanner(r)
<1>0. r \in Row
  BY DEF RowInv
<1>1. IsRecord(s)
  BY <1>0, RowIsRecord, Zenon DEF IsRecord, ReturnedToPlanner
<1>2. /\ s.status = "planning_pending" /\ s.planner = PlannerReleased(r.planner)
      /\ s.origin = r.origin /\ s.claim = r.claim /\ s.attempt = r.attempt
      /\ s.remote = r.remote /\ s.outbox = r.outbox /\ s.cancel = r.cancel
  BY <1>0 DEF Row, ReturnedToPlanner
<1> HIDE DEF s
<1>4. s \in Row
  BY <1>0, <1>1, <1>2, RowByFields, ReleasedPlanner DEF Row, Status
<1>5. /\ HasLiveClaim(s) /\ HasLivePlannerClaim(s) /\ RunOfThisAttempt(s)
      /\ CanLeaveReconciliation(s) /\ WithinBudget(s) /\ NoticeTellsOutcome(s) /\ Staged(s)
  BY <1>0, <1>2, ReleasedPlanner
  DEF RowInv, Row, HasLiveClaim, HasLivePlannerClaim, RunOfThisAttempt,
      CanLeaveReconciliation, WithinBudget, NoticeTellsOutcome, Staged
<1> QED
  BY <1>4, <1>5, Zenon DEF RowInv, s

\* Into reconciliation: sound for a row with a run of its attempt.
LEMMA ToReconciliationInv ==
    ASSUME NEW r, RowInv(r), r.status \in Active, r.remote.run # NoRun,
           NEW wait \in Timer, wait # NoTime, NEW exceeded \in BOOLEAN
    PROVE  RowInv(ToReconciliation(r, wait, exceeded))
<1> DEFINE s == ToReconciliation(r, wait, exceeded)
<1>0. r \in Row
  BY DEF RowInv
<1>1. IsRecord(s)
  BY <1>0, RowIsRecord, Zenon DEF IsRecord, ToReconciliation
<1>2. /\ s.status = "reconciling" /\ s.planner = r.planner
      /\ s.origin = r.origin /\ s.claim = Released(r.claim) /\ s.attempt = r.attempt
      /\ s.remote = Sought(r.remote, wait, exceeded)
      /\ s.outbox = r.outbox /\ s.cancel = r.cancel
  BY <1>0 DEF Row, ToReconciliation
<1>3. /\ s.remote \in Remote /\ s.remote.run = r.remote.run
      /\ s.remote.attempt = r.remote.attempt /\ s.remote.reason
      /\ s.remote.grace # NoTime /\ s.remote.retry = wait
      /\ s.claim \in Claim /\ s.claim.by = r.claim.by /\ s.claim.token = 0
      /\ s.claim.lease = NoTime
  BY <1>0, <1>2, SoughtRemote, ReleasedClaim DEF Row
<1> HIDE DEF s
<1>4. s \in Row
  BY <1>0, <1>1, <1>2, <1>3, RowByFields DEF Row, Status
<1>5. /\ HasLiveClaim(s) /\ HasLivePlannerClaim(s) /\ RunOfThisAttempt(s)
      /\ CanLeaveReconciliation(s) /\ WithinBudget(s) /\ NoticeTellsOutcome(s) /\ Staged(s)
  BY <1>0, <1>2, <1>3
  DEF RowInv, Row, HasLiveClaim, HasLivePlannerClaim, RunOfThisAttempt,
      CanLeaveReconciliation, WithinBudget, NoticeTellsOutcome, Staged
<1> QED
  BY <1>4, <1>5, Zenon DEF RowInv, s

-----------------------------------------------------------------------------
(* Maintenance *)

\* First sweep: lapsed planner leases.
LEMMA ExpirePlanningInv ==
    ASSUME NEW r, RowInv(r)
    PROVE  RowInv(ExpirePlanning(r))
<1>1. CASE r.status = "planning" /\ Past(r.planner.lease)
  <2>1. CASE r.planner.attempts < PlannerMaxAttempts
    BY <1>1, <2>1, ReturnedToPlannerInv DEF ExpirePlanning
  <2>2. CASE ~(r.planner.attempts < PlannerMaxAttempts)
    BY <1>1, <2>2, FinishedPlanningInv DEF ExpirePlanning
  <2> QED
    BY <2>1, <2>2
<1>2. CASE ~(r.status = "planning" /\ Past(r.planner.lease))
  BY <1>2 DEF ExpirePlanning
<1> QED
  BY <1>1, <1>2

\* A lapsed claim with no run to ask about.
LEMMA LapsedInv ==
    ASSUME NEW r, RowInv(r), r.status \in Active
    PROVE  RowInv(Lapsed(r))
<1> DEFINE again == /\ r.status # "cancel_requested"
                    /\ ~Past(r.attempt.budget)
                    /\ r.attempt.count < MaxAttempts
<1>1. CASE r.status = "cancel_requested"
  <2>1. Lapsed(r) = Finished(r, "cancelled")
    BY <1>1 DEF Lapsed
  <2> QED
    BY <2>1, FinishedInv
<1>2. CASE again
  <2>1. Lapsed(r) = Requeued(r)
    BY <1>2 DEF Lapsed
  <2> QED
    BY <1>2, <2>1, RequeuedInv
<1>3. CASE r.status # "cancel_requested" /\ ~again
  <2>1. Lapsed(r) = Finished(r, "timed_out")
    BY <1>3 DEF Lapsed
  <2> QED
    BY <2>1, FinishedInv
<1> QED
  BY <1>1, <1>2, <1>3

\* Second sweep: lapsed claims.
LEMMA ExpireLeaseInv ==
    ASSUME NEW r, RowInv(r)
    PROVE  RowInv(ExpireLease(r))
<1> DEFINE due == r.status \in Active /\ (Past(r.attempt.budget) \/ Past(r.claim.lease))
           overdue == Past(r.attempt.budget)
<1>1. CASE ~due
  BY <1>1 DEF ExpireLease
<1>2. CASE due /\ CurrentRun(r)
  <2>1. r.remote.run # NoRun
    BY <1>2 DEF CurrentRun
  <2>2. ExpireLease(r) = ToReconciliation(r, 0, overdue)
    BY <1>2 DEF ExpireLease
  <2>3. overdue \in BOOLEAN
    BY DEF Past
  <2> QED
    BY <1>2, <2>1, <2>2, <2>3, TimerFacts, ToReconciliationInv
<1>3. CASE due /\ ~CurrentRun(r)
  BY <1>3, LapsedInv DEF ExpireLease
<1> QED
  BY <1>1, <1>2, <1>3

\* Third sweep: reconciliations past their deadline.
LEMMA ExpireReconciliationInv ==
    ASSUME NEW r, RowInv(r)
    PROVE  RowInv(ExpireReconciliation(r))
<1>1. CASE r.status = "reconciling" /\ Past(r.remote.grace)
  <2>1. RowInv(Finished(r, "timed_out")) /\ Finished(r, "timed_out").status = "timed_out"
    BY <1>1, FinishedInv
  <2> QED
    BY <1>1, <2>1, WithoutRetryInv DEF ExpireReconciliation
<1>2. CASE ~(r.status = "reconciling" /\ Past(r.remote.grace))
  BY <1>2 DEF ExpireReconciliation
<1> QED
  BY <1>1, <1>2

\* The three sweeps one after the other.
LEMMA MaintainedInv ==
    ASSUME NEW r, RowInv(r)
    PROVE  RowInv(MaintainedRow(r))
BY ExpirePlanningInv, ExpireLeaseInv, ExpireReconciliationInv DEF MaintainedRow

-----------------------------------------------------------------------------
(* Execution claims *)

\* A heartbeat only moves the lease of a live claim.
LEMMA RenewedInv ==
    ASSUME NEW r, RowInv(r), NEW w, NEW k
    PROVE  RowInv(Renewed(r, w, k))
<1> DEFINE s == [r EXCEPT !.claim.lease = TaskLease]
           named == /\ k # 0
                    /\ r.claim.by = w
                    /\ r.status \in {"claimed", "running"}
                    /\ r.claim.token \in {0, k}
<1>0. r \in Row
  BY DEF RowInv
<1>1. CASE ~named
  BY <1>1 DEF Renewed
<1>2. CASE named
  <2>1. IsRecord(s)
    BY <1>0, RowIsRecord, Zenon DEF IsRecord
  <2>2. /\ s.status = r.status /\ s.origin = r.origin /\ s.planner = r.planner
        /\ s.attempt = r.attempt /\ s.remote = r.remote /\ s.outbox = r.outbox
        /\ s.cancel = r.cancel
        /\ s.claim = [r.claim EXCEPT !.lease = TaskLease]
    BY <1>0 DEF Row
  <2>3. /\ s.claim \in Claim /\ s.claim.by = r.claim.by /\ s.claim.token = r.claim.token
        /\ s.claim.issued = r.claim.issued /\ s.claim.lease # NoTime
    BY <1>0, <2>2, TimerFacts DEF Row, Claim
  <2>4. Renewed(r, w, k) = s
    BY <1>2 DEF Renewed
  <2> HIDE DEF s
  <2>5. s \in Row
    BY <1>0, <2>1, <2>2, <2>3, RowByFields DEF Row
  <2>6. /\ HasLiveClaim(s) /\ HasLivePlannerClaim(s) /\ RunOfThisAttempt(s)
        /\ CanLeaveReconciliation(s) /\ WithinBudget(s) /\ NoticeTellsOutcome(s)
        /\ Staged(s)
    BY <1>2, <2>2, <2>3
    DEF RowInv, HasLiveClaim, HasLivePlannerClaim, RunOfThisAttempt,
        CanLeaveReconciliation, WithinBudget, NoticeTellsOutcome, Staged
  <2> QED
    BY <2>4, <2>5, <2>6, Zenon DEF RowInv
<1> QED
  BY <1>1, <1>2

\* Claiming back the run of a row in reconciliation.
LEMMA ClaimedBackInv ==
    ASSUME NEW r, RowInv(r), r.status = "reconciling",
           NEW w \in Workers, r.attempt.resolved = w
    PROVE  RowInv(ClaimedBack(r, w))
<1> DEFINE s == ClaimedBack(r, w)
<1>0. r \in Row
  BY DEF RowInv
<1>1. IsRecord(s)
  BY <1>0, RowIsRecord, Zenon DEF IsRecord, ClaimedBack
<1>2. /\ s.status = "claimed" /\ s.claim = Granted(r.claim, w)
      /\ s.origin = r.origin /\ s.planner = r.planner /\ s.attempt = r.attempt
      /\ s.outbox = r.outbox /\ s.cancel = r.cancel
      /\ s.remote = [r.remote EXCEPT !.retry = NoTime]
  BY <1>0 DEF Row, ClaimedBack
<1>3. /\ s.remote \in Remote /\ s.remote.run = r.remote.run
      /\ s.remote.attempt = r.remote.attempt
  BY <1>0, <1>2, TimerFacts DEF Row, Remote
<1> HIDE DEF s
<1>4. s \in Row
  BY <1>0, <1>1, <1>2, <1>3, GrantedClaim, RowByFields DEF Row, Status
<1>5. /\ HasLiveClaim(s) /\ HasLivePlannerClaim(s) /\ RunOfThisAttempt(s)
      /\ CanLeaveReconciliation(s) /\ WithinBudget(s) /\ NoticeTellsOutcome(s) /\ Staged(s)
  BY <1>0, <1>2, <1>3, GrantedClaim, NullAssumption
  DEF RowInv, Row, HasLiveClaim, HasLivePlannerClaim, RunOfThisAttempt,
      CanLeaveReconciliation, WithinBudget, NoticeTellsOutcome, Staged
<1> QED
  BY <1>4, <1>5, Zenon DEF RowInv, s

\* Claiming a waiting row for a new attempt.
LEMMA ClaimedAnewInv ==
    ASSUME NEW r, RowInv(r), r.status = "pending", NEW w \in Workers
    PROVE  RowInv(ClaimedAnew(r, w))
<1> DEFINE s == ClaimedAnew(r, w)
<1>0. r \in Row
  BY DEF RowInv
<1>1. IsRecord(s)
  BY <1>0, RowIsRecord, Zenon DEF IsRecord, ClaimedAnew
<1>2. /\ s.status = "claimed" /\ s.claim = Granted(r.claim, w)
      /\ s.origin = r.origin /\ s.planner = r.planner
      /\ s.outbox = r.outbox /\ s.cancel = r.cancel
      /\ s.attempt = [count |-> r.attempt.count + 1, budget |-> r.attempt.budget,
                      resolved |-> w]
      /\ s.remote = [NoRemote EXCEPT !.run = r.remote.run, !.attempt = r.remote.attempt]
  BY <1>0 DEF Row, ClaimedAnew
<1> HIDE DEF s
<1>3. r.remote.run = NoRun /\ r.remote.attempt = 0 /\ r.attempt.count < MaxAttempts
  BY DEF RowInv, Staged, RunOfThisAttempt, WithinBudget
<1>4. s.remote \in Remote /\ s.remote.run = NoRun /\ s.remote.attempt = 0
  <2>1. r.remote.run \in Runs \cup {NoRun} /\ r.remote.attempt \in Nat
    BY <1>0 DEF Row, Remote
  <2> DEFINE m == [NoRemote EXCEPT !.run = r.remote.run, !.attempt = r.remote.attempt]
  <2>2. m \in Remote /\ m.run = r.remote.run /\ m.attempt = r.remote.attempt
    BY <2>1, KeptRemote, Zenon
  <2>3. s.remote = m
    BY <1>2, Zenon
  <2> HIDE DEF m
  <2> QED
    BY <1>3, <2>2, <2>3
<1>5. /\ s.attempt \in Attempt /\ s.attempt.count = r.attempt.count + 1
      /\ s.attempt.resolved = w /\ r.attempt.count \in Nat
  BY <1>0, <1>2 DEF Row, Attempt
<1>6. s \in Row
  BY <1>0, <1>1, <1>2, <1>4, <1>5, GrantedClaim, RowByFields DEF Row, Status
<1>7. /\ HasLiveClaim(s) /\ HasLivePlannerClaim(s) /\ RunOfThisAttempt(s)
      /\ CanLeaveReconciliation(s) /\ WithinBudget(s) /\ NoticeTellsOutcome(s) /\ Staged(s)
  BY <1>0, <1>2, <1>3, <1>4, <1>5, GrantedClaim, NullAssumption, BudgetAssumption
  DEF RowInv, Row, HasLiveClaim, HasLivePlannerClaim, RunOfThisAttempt,
      CanLeaveReconciliation, WithinBudget, NoticeTellsOutcome, Staged
<1> QED
  BY <1>6, <1>7, Zenon DEF RowInv, s

\* Either claim.
LEMMA ClaimedInv ==
    ASSUME NEW r, RowInv(r), NEW w \in Workers,
           r.status = "pending" \/ (r.status = "reconciling" /\ r.attempt.resolved = w)
    PROVE  RowInv(Claimed(r, w))
BY ClaimedBackInv, ClaimedAnewInv DEF Claimed

\* The worker starts the task.
LEMMA StartedInv ==
    ASSUME NEW r, RowInv(r), r.status = "claimed"
    PROVE  RowInv(Started(r))
<1> DEFINE s == Started(r)
<1>0. r \in Row
  BY DEF RowInv
<1>1. IsRecord(s)
  BY <1>0, RowIsRecord, Zenon DEF IsRecord, Started
<1>2. /\ s.status = "running" /\ s.claim = r.claim
      /\ s.origin = r.origin /\ s.planner = r.planner
      /\ s.remote = r.remote /\ s.outbox = r.outbox /\ s.cancel = r.cancel
      /\ s.attempt = [r.attempt EXCEPT !.budget = IF @ = NoTime THEN TaskTimeout ELSE @]
  BY <1>0 DEF Row, Started
<1>3. /\ s.attempt \in Attempt /\ s.attempt.count = r.attempt.count
      /\ s.attempt.resolved = r.attempt.resolved
  BY <1>0, <1>2, TimerFacts DEF Row, Attempt
<1> HIDE DEF s
<1>4. s \in Row
  BY <1>0, <1>1, <1>2, <1>3, RowByFields DEF Row, Status
<1>5. /\ HasLiveClaim(s) /\ HasLivePlannerClaim(s) /\ RunOfThisAttempt(s)
      /\ CanLeaveReconciliation(s) /\ WithinBudget(s) /\ NoticeTellsOutcome(s) /\ Staged(s)
  BY <1>2, <1>3
  DEF RowInv, HasLiveClaim, HasLivePlannerClaim, RunOfThisAttempt,
      CanLeaveReconciliation, WithinBudget, NoticeTellsOutcome, Staged
<1> QED
  BY <1>4, <1>5, Zenon DEF RowInv, s

\* The worker binds a run to the current attempt.
LEMMA AttachedInv ==
    ASSUME NEW r, RowInv(r), r.status \in {"claimed", "running"}, NEW run \in Runs
    PROVE  RowInv(Attached(r, run))
<1> DEFINE s == Attached(r, run)
<1>0. r \in Row
  BY DEF RowInv
<1>1. IsRecord(s)
  BY <1>0, RowIsRecord, Zenon DEF IsRecord, Attached
<1>2. /\ s.status = r.status /\ s.claim = r.claim /\ s.attempt = r.attempt
      /\ s.origin = r.origin /\ s.planner = r.planner
      /\ s.outbox = r.outbox /\ s.cancel = r.cancel
      /\ s.remote = [NoRemote EXCEPT !.run = run, !.attempt = r.attempt.count,
                                     !.overdue = r.remote.overdue]
  BY <1>0 DEF Row, Attached
<1>3. /\ s.remote \in Remote /\ s.remote.run = run
      /\ s.remote.attempt = r.attempt.count
  BY <1>0, <1>2, TimerFacts DEF Row, Remote, Attempt, NoRemote
<1>4. r.attempt.count \in Nat
  BY <1>0 DEF Row, Attempt
<1> HIDE DEF s
<1>5. s \in Row
  BY <1>0, <1>1, <1>2, <1>3, RowByFields DEF Row
<1>6. /\ HasLiveClaim(s) /\ HasLivePlannerClaim(s) /\ RunOfThisAttempt(s)
      /\ CanLeaveReconciliation(s) /\ WithinBudget(s) /\ NoticeTellsOutcome(s) /\ Staged(s)
  BY <1>2, <1>3, <1>4, NullAssumption
  DEF RowInv, HasLiveClaim, HasLivePlannerClaim, RunOfThisAttempt,
      CanLeaveReconciliation, WithinBudget, NoticeTellsOutcome, Staged
<1> QED
  BY <1>5, <1>6, Zenon DEF RowInv, s

\* The worker reports: the row is requeued or settled.
LEMMA ReportedInv ==
    ASSUME NEW r, RowInv(r), r.status \in Active, NEW outcome \in Terminal,
           NEW retryable \in BOOLEAN
    PROVE  RowInv(Reported(r, outcome, retryable))
<1> DEFINE again == /\ r.status # "cancel_requested"
                    /\ outcome = "failed" /\ retryable
                    /\ r.attempt.count < MaxAttempts
<1>1. CASE again
  BY <1>1, RequeuedInv DEF Reported
<1>2. CASE ~again
  <2>1. Reported(r, outcome, retryable) = [Finished(r, outcome) EXCEPT !.remote.retry = NoTime]
    BY <1>2, Zenon DEF Reported
  <2> QED
    BY <2>1, FinishedInv, WithoutRetryInv
<1> QED
  BY <1>1, <1>2


-----------------------------------------------------------------------------
(* Planner claims *)

\* A planner claims the row.
LEMMA PlanningClaimedInv ==
    ASSUME NEW r, RowInv(r), r.status = "planning_pending"
    PROVE  RowInv(PlanningClaimed(r))
<1> DEFINE s == PlanningClaimed(r)
<1>0. r \in Row
  BY DEF RowInv
<1>1. IsRecord(s)
  BY <1>0, RowIsRecord, Zenon DEF IsRecord, PlanningClaimed
<1>2. /\ s.status = "planning" /\ s.origin = r.origin /\ s.claim = r.claim
      /\ s.attempt = r.attempt /\ s.remote = r.remote /\ s.outbox = r.outbox
      /\ s.cancel = r.cancel
      /\ s.planner = [attempts |-> r.planner.attempts + 1,
                      token |-> r.planner.attempts + 1, lease |-> PlannerLease]
  BY <1>0 DEF Row, PlanningClaimed
<1>3. /\ s.planner \in Planner /\ r.planner.attempts \in Nat
      /\ s.planner.attempts = r.planner.attempts + 1
      /\ s.planner.token = r.planner.attempts + 1 /\ s.planner.lease # NoTime
  BY <1>0, <1>2, TimerFacts DEF Row, Planner
<1> HIDE DEF s
<1>4. s \in Row
  BY <1>0, <1>1, <1>2, <1>3, RowByFields DEF Row, Status
<1>5. /\ HasLiveClaim(s) /\ HasLivePlannerClaim(s) /\ RunOfThisAttempt(s)
      /\ CanLeaveReconciliation(s) /\ WithinBudget(s) /\ NoticeTellsOutcome(s) /\ Staged(s)
  BY <1>2, <1>3, BudgetAssumption
  DEF RowInv, HasLiveClaim, HasLivePlannerClaim, RunOfThisAttempt,
      CanLeaveReconciliation, WithinBudget, NoticeTellsOutcome, Staged
<1> QED
  BY <1>4, <1>5, Zenon DEF RowInv, s

\* A planner extends its lease.
LEMMA ExtendedInv ==
    ASSUME NEW r, RowInv(r), r.status = "planning"
    PROVE  RowInv([r EXCEPT !.planner.lease = PlannerLease])
<1> DEFINE s == [r EXCEPT !.planner.lease = PlannerLease]
<1>0. r \in Row
  BY DEF RowInv
<1>1. IsRecord(s)
  BY <1>0, RowIsRecord, Zenon DEF IsRecord
<1>2. /\ s.status = r.status /\ s.origin = r.origin /\ s.claim = r.claim
      /\ s.attempt = r.attempt /\ s.remote = r.remote /\ s.outbox = r.outbox
      /\ s.cancel = r.cancel
      /\ s.planner = [r.planner EXCEPT !.lease = PlannerLease]
  BY <1>0 DEF Row
<1>3. /\ s.planner \in Planner /\ s.planner.attempts = r.planner.attempts
      /\ s.planner.token = r.planner.token /\ s.planner.lease # NoTime
  BY <1>0, <1>2, TimerFacts DEF Row, Planner
<1> HIDE DEF s
<1>4. s \in Row
  BY <1>0, <1>1, <1>2, <1>3, RowByFields DEF Row
<1>5. /\ HasLiveClaim(s) /\ HasLivePlannerClaim(s) /\ RunOfThisAttempt(s)
      /\ CanLeaveReconciliation(s) /\ WithinBudget(s) /\ NoticeTellsOutcome(s) /\ Staged(s)
  BY <1>2, <1>3
  DEF RowInv, HasLiveClaim, HasLivePlannerClaim, RunOfThisAttempt,
      CanLeaveReconciliation, WithinBudget, NoticeTellsOutcome, Staged
<1> QED
  BY <1>4, <1>5, Zenon DEF RowInv, s

\* A plan arrives: the row waits for its first attempt.
LEMMA PlannedInv ==
    ASSUME NEW r, RowInv(r), r.status = "planning"
    PROVE  RowInv(Planned(r))
<1> DEFINE s == Planned(r)
<1>0. r \in Row
  BY DEF RowInv
<1>1. IsRecord(s)
  BY <1>0, RowIsRecord, Zenon DEF IsRecord, Planned
<1>2. /\ s.status = "pending" /\ s.planner = PlannerReleased(r.planner)
      /\ s.origin = r.origin /\ s.claim = r.claim /\ s.attempt = r.attempt
      /\ s.remote = r.remote /\ s.outbox = r.outbox /\ s.cancel = r.cancel
  BY <1>0 DEF Row, Planned
<1> HIDE DEF s
<1>3. s \in Row
  BY <1>0, <1>1, <1>2, RowByFields, ReleasedPlanner DEF Row, Status
<1>4. r.attempt.count = 0 /\ 0 < MaxAttempts
  BY BudgetAssumption DEF RowInv, Staged
<1>5. /\ HasLiveClaim(s) /\ HasLivePlannerClaim(s) /\ RunOfThisAttempt(s)
      /\ CanLeaveReconciliation(s) /\ WithinBudget(s) /\ NoticeTellsOutcome(s) /\ Staged(s)
  BY <1>0, <1>2, <1>4, ReleasedPlanner
  DEF RowInv, Row, HasLiveClaim, HasLivePlannerClaim, RunOfThisAttempt,
      CanLeaveReconciliation, WithinBudget, NoticeTellsOutcome, Staged
<1> QED
  BY <1>3, <1>5, Zenon DEF RowInv, s

\* A planner gives up: the row goes back or is settled.
LEMMA PlanningFailedInv ==
    ASSUME NEW r, RowInv(r), r.status = "planning",
           NEW outcome \in Terminal, NEW retryable \in BOOLEAN
    PROVE  RowInv(PlanningFailed(r, outcome, retryable))
<1>1. CASE retryable /\ r.planner.attempts < PlannerMaxAttempts
  BY <1>1, ReturnedToPlannerInv DEF PlanningFailed
<1>2. CASE ~(retryable /\ r.planner.attempts < PlannerMaxAttempts)
  BY <1>2, FinishedPlanningInv DEF PlanningFailed
<1> QED
  BY <1>1, <1>2

-----------------------------------------------------------------------------
(* Cancellation, acknowledgement, creation, time *)

\* A row between the first assignments of a cancellation and its new status.
LEMMA CancelMarked ==
    ASSUME NEW r, RowInv(r)
    PROVE  LET c == [r EXCEPT !.cancel = TRUE, !.planner = PlannerReleased(@)] IN
           /\ c \in Row
           /\ c.status = r.status /\ c.origin = r.origin /\ c.claim = r.claim
           /\ c.attempt = r.attempt /\ c.remote = r.remote /\ c.outbox = r.outbox
           /\ c.planner = PlannerReleased(r.planner)
<1> DEFINE c == [r EXCEPT !.cancel = TRUE, !.planner = PlannerReleased(@)]
<1>0. r \in Row
  BY DEF RowInv
<1>1. IsRecord(c)
  BY <1>0, RowIsRecord, Zenon DEF IsRecord
<1>2. /\ c.status = r.status /\ c.origin = r.origin /\ c.claim = r.claim
      /\ c.attempt = r.attempt /\ c.remote = r.remote /\ c.outbox = r.outbox
      /\ c.planner = PlannerReleased(r.planner)
      /\ c.cancel
  BY <1>0 DEF Row
<1> HIDE DEF c
<1>3. c \in Row
  BY <1>0, <1>1, <1>2, RowByFields, ReleasedPlanner DEF Row
<1> QED
  BY <1>2, <1>3, Zenon DEF c

\* The director cancels: the row is settled, or waits for its worker or its run.
LEMMA CancelledRowInv ==
    ASSUME NEW r, RowInv(r), r.status \notin Terminal \cup {"absent"}
    PROVE  RowInv(CancelledRow(r))
<1> DEFINE c == [r EXCEPT !.cancel = TRUE, !.planner = PlannerReleased(@)]
<1>0. r \in Row
  BY DEF RowInv
<1>1. /\ c \in Row
      /\ c.status = r.status /\ c.origin = r.origin /\ c.claim = r.claim
      /\ c.attempt = r.attempt /\ c.remote = r.remote /\ c.outbox = r.outbox
      /\ c.planner = PlannerReleased(r.planner)
  BY CancelMarked
<1>2. IsRecord(c)
  BY <1>1, RowIsRecord
<1>3. CASE r.status \in {"planning_pending", "planning", "pending"}
  <2> DEFINE a == [c EXCEPT !.status = "cancelled"]
             s == EnqueueNotification(a)
  <2>0. CancelledRow(r) = s
    BY <1>3 DEF CancelledRow
  <2> HIDE DEF c
  <2>1. IsRecord(a)
    BY <1>2, Zenon DEF IsRecord
  <2>2. /\ a.status = "cancelled" /\ a.origin = r.origin /\ a.claim = r.claim
        /\ a.attempt = r.attempt /\ a.remote = r.remote /\ a.outbox = r.outbox
        /\ a.planner = PlannerReleased(r.planner) /\ a.cancel = c.cancel
    BY <1>1 DEF Row
  <2> HIDE DEF a
  <2>3. a \in Row
    BY <1>0, <1>1, <2>1, <2>2, RowByFields, ReleasedPlanner DEF Row, Status
  <2>4. a.outbox.notice = "none" /\ ~a.outbox.acked
    BY <1>3, <2>2 DEF RowInv, NoticeTellsOutcome
  <2>5. /\ s \in Row /\ NoticeTellsOutcome(s)
        /\ s.status = "cancelled" /\ s.planner = PlannerReleased(r.planner)
        /\ s.attempt = r.attempt /\ s.remote = r.remote /\ s.claim = r.claim
    BY <2>2, <2>3, <2>4, EnqueuedInv
  <2> HIDE DEF s
  <2>6. /\ HasLiveClaim(s) /\ HasLivePlannerClaim(s) /\ RunOfThisAttempt(s)
        /\ CanLeaveReconciliation(s) /\ WithinBudget(s) /\ Staged(s)
    BY <1>0, <1>3, <2>5, ReleasedPlanner
    DEF RowInv, Row, HasLiveClaim, HasLivePlannerClaim, RunOfThisAttempt,
        CanLeaveReconciliation, WithinBudget, Staged
  <2> QED
    BY <2>0, <2>5, <2>6, Zenon DEF RowInv
<1>4. CASE r.status = "reconciling"
  <2> DEFINE s == [c EXCEPT !.remote.retry = 0]
  <2>0. CancelledRow(r) = s
    BY <1>4 DEF CancelledRow
  <2> HIDE DEF c
  <2>1. IsRecord(s)
    BY <1>2, Zenon DEF IsRecord
  <2>2. /\ s.status = r.status /\ s.origin = r.origin /\ s.claim = r.claim
        /\ s.attempt = r.attempt /\ s.outbox = r.outbox
        /\ s.planner = PlannerReleased(r.planner) /\ s.cancel = c.cancel
        /\ s.remote = [r.remote EXCEPT !.retry = 0]
    BY <1>1 DEF Row
  <2>3. /\ s.remote \in Remote /\ s.remote.run = r.remote.run
        /\ s.remote.attempt = r.remote.attempt /\ s.remote.reason = r.remote.reason
        /\ s.remote.grace = r.remote.grace /\ s.remote.retry # NoTime
    BY <1>0, <2>2, TimerFacts DEF Row, Remote
  <2> HIDE DEF s
  <2>4. s \in Row
    BY <1>0, <1>1, <2>1, <2>2, <2>3, RowByFields, ReleasedPlanner DEF Row
  <2>5. /\ HasLiveClaim(s) /\ HasLivePlannerClaim(s) /\ RunOfThisAttempt(s)
        /\ CanLeaveReconciliation(s) /\ WithinBudget(s) /\ NoticeTellsOutcome(s)
        /\ Staged(s)
    BY <1>0, <1>4, <2>2, <2>3, ReleasedPlanner
    DEF RowInv, Row, HasLiveClaim, HasLivePlannerClaim, RunOfThisAttempt,
        CanLeaveReconciliation, WithinBudget, NoticeTellsOutcome, Staged
  <2> QED
    BY <2>0, <2>4, <2>5, Zenon DEF RowInv
<1>5. CASE r.status \in Active
  <2> DEFINE s == [c EXCEPT !.status = "cancel_requested"]
  <2>0. CancelledRow(r) = s
    BY <1>5 DEF CancelledRow
  <2> HIDE DEF c
  <2>1. IsRecord(s)
    BY <1>2, Zenon DEF IsRecord
  <2>2. /\ s.status = "cancel_requested" /\ s.origin = r.origin /\ s.claim = r.claim
        /\ s.attempt = r.attempt /\ s.outbox = r.outbox /\ s.remote = r.remote
        /\ s.planner = PlannerReleased(r.planner) /\ s.cancel = c.cancel
    BY <1>1 DEF Row
  <2> HIDE DEF s
  <2>4. s \in Row
    BY <1>0, <1>1, <2>1, <2>2, RowByFields, ReleasedPlanner DEF Row, Status
  <2>5. /\ HasLiveClaim(s) /\ HasLivePlannerClaim(s) /\ RunOfThisAttempt(s)
        /\ CanLeaveReconciliation(s) /\ WithinBudget(s) /\ NoticeTellsOutcome(s)
        /\ Staged(s)
    BY <1>0, <1>5, <2>2, ReleasedPlanner
    DEF RowInv, Row, HasLiveClaim, HasLivePlannerClaim, RunOfThisAttempt,
        CanLeaveReconciliation, WithinBudget, NoticeTellsOutcome, Staged
  <2> QED
    BY <2>0, <2>4, <2>5, Zenon DEF RowInv
<1> QED
  BY <1>0, <1>3, <1>4, <1>5 DEF Row, Status

\* Acknowledging a notification only marks it.
LEMMA AcknowledgedInv ==
    ASSUME NEW r, RowInv(r), r.outbox.notice # "none"
    PROVE  RowInv([r EXCEPT !.outbox.acked = TRUE])
<1> DEFINE s == [r EXCEPT !.outbox.acked = TRUE]
<1>0. r \in Row
  BY DEF RowInv
<1>1. IsRecord(s)
  BY <1>0, RowIsRecord, Zenon DEF IsRecord
<1>2. /\ s.status = r.status /\ s.origin = r.origin /\ s.claim = r.claim
      /\ s.attempt = r.attempt /\ s.remote = r.remote /\ s.planner = r.planner
      /\ s.cancel = r.cancel
      /\ s.outbox = [r.outbox EXCEPT !.acked = TRUE]
  BY <1>0 DEF Row
<1>3. s.outbox \in Outbox /\ s.outbox.notice = r.outbox.notice
  BY <1>0, <1>2 DEF Row, Outbox
<1> HIDE DEF s
<1>4. s \in Row
  BY <1>0, <1>1, <1>2, <1>3, RowByFields DEF Row
<1>5. /\ HasLiveClaim(s) /\ HasLivePlannerClaim(s) /\ RunOfThisAttempt(s)
      /\ CanLeaveReconciliation(s) /\ WithinBudget(s) /\ NoticeTellsOutcome(s) /\ Staged(s)
  BY <1>2, <1>3
  DEF RowInv, HasLiveClaim, HasLivePlannerClaim, RunOfThisAttempt,
      CanLeaveReconciliation, WithinBudget, NoticeTellsOutcome, Staged
<1> QED
  BY <1>4, <1>5, Zenon DEF RowInv, s

\* A claim that has a lease still has one a unit later.
LEMMA AgedClaim ==
    ASSUME NEW c \in Claim
    PROVE  LET d == [c EXCEPT !.lease = Age(@)] IN
           /\ d \in Claim /\ d.by = c.by /\ d.token = c.token /\ d.issued = c.issued
           /\ d.lease = Age(c.lease)
BY AgeFacts DEF Claim

\* Time passes over a row.
LEMMA AgedInv ==
    ASSUME NEW r, RowInv(r)
    PROVE  RowInv(Aged(r))
<1> DEFINE s == Aged(r)
<1>0. r \in Row
  BY DEF RowInv
<1>1. CASE r.status \in Terminal
  BY <1>1 DEF Aged
<1>2. CASE r.status \notin Terminal
  <2>0. /\ r.planner.lease \in Timer /\ r.claim.lease \in Timer
        /\ r.attempt.budget \in Timer /\ r.remote.grace \in Timer
        /\ r.remote.retry \in Timer
    BY <1>0 DEF Row, Planner, Claim, Attempt, Remote
  <2>1. IsRecord(s)
    BY <1>0, <1>2, RowIsRecord, Zenon DEF IsRecord, Aged
  <2>2. s.status = r.status /\ s.origin = r.origin /\ s.outbox = r.outbox /\ s.cancel = r.cancel
    BY <1>0, <1>2 DEF Row, Aged
  <2>3. s.planner = [r.planner EXCEPT !.lease = Age(@)]
    BY <1>0, <1>2 DEF Row, Aged
  <2>4. s.claim = [r.claim EXCEPT !.lease = Age(@)]
    BY <1>0, <1>2 DEF Row, Aged
  <2>5. s.attempt = [r.attempt EXCEPT !.budget = Age(@)]
    BY <1>0, <1>2 DEF Row, Aged
  <2>6. s.remote = [r.remote EXCEPT !.grace = Age(r.remote.grace), !.retry = Age(r.remote.retry)]
    BY <1>0, <1>2 DEF Row, Aged
  <2> HIDE DEF s
  <2>7. /\ s.planner \in Planner /\ s.planner.attempts = r.planner.attempts
        /\ s.planner.token = r.planner.token
        /\ s.planner.lease = NoTime <=> r.planner.lease = NoTime
    BY <1>0, <2>0, <2>3, AgeFacts DEF Row, Planner
  <2>8. /\ s.claim \in Claim /\ s.claim.by = r.claim.by /\ s.claim.token = r.claim.token
        /\ s.claim.issued = r.claim.issued
        /\ s.claim.lease = NoTime <=> r.claim.lease = NoTime
    BY <1>0, <2>0, <2>4, AgedClaim, AgeFacts DEF Row
  <2>9. /\ s.attempt \in Attempt /\ s.attempt.count = r.attempt.count
        /\ s.attempt.resolved = r.attempt.resolved
        /\ s.attempt.budget = NoTime <=> r.attempt.budget = NoTime
    BY <1>0, <2>0, <2>5, AgeFacts DEF Row, Attempt
  <2>10. /\ s.remote \in Remote /\ s.remote.run = r.remote.run
         /\ s.remote.attempt = r.remote.attempt /\ s.remote.reason = r.remote.reason
         /\ s.remote.grace = NoTime <=> r.remote.grace = NoTime
         /\ s.remote.retry = NoTime <=> r.remote.retry = NoTime
    BY <1>0, <2>0, <2>6, AgeFacts DEF Row, Remote
  <2>11. s \in Row
    BY <1>0, <2>1, <2>2, <2>7, <2>8, <2>9, <2>10, RowByFields DEF Row
  <2>12. /\ HasLiveClaim(s) /\ HasLivePlannerClaim(s) /\ RunOfThisAttempt(s)
         /\ CanLeaveReconciliation(s) /\ WithinBudget(s) /\ NoticeTellsOutcome(s)
         /\ Staged(s)
    BY <2>2, <2>7, <2>8, <2>9, <2>10
    DEF RowInv, HasLiveClaim, HasLivePlannerClaim, RunOfThisAttempt,
        CanLeaveReconciliation, WithinBudget, NoticeTellsOutcome, Staged
  <2> QED
    BY <2>11, <2>12, Zenon DEF RowInv, s
<1> QED
  BY <1>1, <1>2

\* The row that is not there yet.
LEMMA AbsentInv == RowInv(Absent)
<1>1. Absent \in Row
  BY TimerFacts DEF Absent, NoRemote, Row, Status, Origin, Planner, Claim, Attempt,
                    Remote, Outbox
<1> QED
  BY <1>1, BudgetAssumption
  DEF Absent, NoRemote, NoTime, RowInv, HasLiveClaim, HasLivePlannerClaim, RunOfThisAttempt,
      CanLeaveReconciliation, WithinBudget, NoticeTellsOutcome, Staged

\* The director creates the row.
LEMMA CreatedInv ==
    ASSUME NEW q \in Requests, NEW rank \in Int
    PROVE  RowInv(Created(q, rank))
<1> DEFINE s == Created(q, rank)
           st == IF q.planned THEN "planning_pending" ELSE "pending"
<1>0. q.priority \in Int /\ q.chat \in BOOLEAN
  BY RequestAssumption
<1>1. IsRecord(s)
  BY AbsentInv, RowIsRecord, Zenon DEF IsRecord, Created, RowInv
<1>2. /\ s.status = st
      /\ s.origin = [priority |-> q.priority, born |-> rank, chat |-> q.chat]
      /\ s.planner = Absent.planner /\ s.claim = Absent.claim
      /\ s.attempt = Absent.attempt /\ s.remote = Absent.remote
      /\ s.outbox = Absent.outbox /\ s.cancel = Absent.cancel
  BY AbsentInv DEF RowInv, Row, Created
<1>3. s.origin \in Origin /\ s.origin.chat \in BOOLEAN
  BY <1>0, <1>2 DEF Origin
<1> HIDE DEF s
<1>4. s \in Row
  BY <1>1, <1>2, <1>3, AbsentInv, RowByFields DEF RowInv, Row, Status
<1>5. /\ HasLiveClaim(s) /\ HasLivePlannerClaim(s) /\ RunOfThisAttempt(s)
      /\ CanLeaveReconciliation(s) /\ WithinBudget(s) /\ NoticeTellsOutcome(s) /\ Staged(s)
  BY <1>2, BudgetAssumption
  DEF Absent, NoRemote, NoTime, HasLiveClaim, HasLivePlannerClaim, RunOfThisAttempt,
      CanLeaveReconciliation, WithinBudget, NoticeTellsOutcome, Staged
<1> QED
  BY <1>4, <1>5, Zenon DEF RowInv, s

=============================================================================
