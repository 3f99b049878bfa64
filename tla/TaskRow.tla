------------------------------ MODULE TaskRow ------------------------------
(***************************************************************************)
(* One row of the coordinator's tasks table, with the outbox entry that    *)
(* belongs to it, and what each statement of SQLiteStore makes of a row.   *)
(* Module TaskStore says when the statements run.                          *)
(*                                                                         *)
(* Time.  The store only ever compares a stored instant x with the current *)
(* one, as x < now or x <= now.  A row therefore keeps, in place of x, the *)
(* time left until x: negative when x < now, zero when x = now.  Age takes *)
(* one unit from it and stops at -1, which keeps both comparisons exact    *)
(* and the state space finite without a bound on the clock.                *)
(***************************************************************************)
EXTENDS Integers, Sequences

CONSTANTS
    Workers,                \* worker ids
    Runs,                   \* ids of runs on a Hermes gateway
    NoWorker, NoRun,        \* NULL in claimed_by / resolved_worker_id, remote_run_id
    MaxAttempts,            \* tasks.max_attempts
    PlannerMaxAttempts,     \* tasks.planner_max_attempts
    TaskLease,              \* lease_seconds of a claim and of a heartbeat
    PlannerLease,           \* lease_seconds of a planner claim
    TaskTimeout,            \* tasks.timeout_seconds
    ReconciliationGrace,    \* reconciliation_grace_seconds
    ReconciliationBackoff   \* reconciliation_backoff_seconds

ASSUME NullAssumption == NoWorker \notin Workers /\ NoRun \notin Runs
ASSUME BudgetAssumption == MaxAttempts \in Nat \ {0} /\ PlannerMaxAttempts \in Nat \ {0}
ASSUME DurationAssumption ==
    /\ TaskLease \in Nat
    /\ PlannerLease \in Nat
    /\ TaskTimeout \in Nat
    /\ ReconciliationGrace \in Nat
    /\ ReconciliationBackoff \in Nat

-----------------------------------------------------------------------------
(* Timers *)

NoTime == -2                            \* NULL
Past(x) == x = -1                       \* x < now
Reached(x) == x \in {-1, 0}             \* x <= now
Age(x) == IF x >= 0 THEN x - 1 ELSE x
Timer == {x \in Int : x >= NoTime}

-----------------------------------------------------------------------------
(* Rows *)

Terminal == {"succeeded", "failed", "cancelled", "timed_out"}
Active == {"claimed", "running", "cancel_requested"}
Status == {"absent", "planning_pending", "planning", "pending", "reconciling"}
              \cup Active \cup Terminal

Origin == [priority: Int, born: Int, chat: BOOLEAN]
                    \* priority, rank of created_at, telegram_chat_id is set
Planner == [attempts: Nat, token: Nat, lease: Timer]
                    \* planner_attempt_count, planner_claim_token (0 for NULL),
                    \* planner_lease_expires_at
Claim == [by: Workers \cup {NoWorker}, token: Nat, lease: Timer, issued: Seq(Workers)]
                    \* claimed_by, claim_token (0 for NULL), lease_expires_at;
                    \* history: token n was issued to worker issued[n]
Attempt == [count: Nat, budget: Timer, resolved: Workers \cup {NoWorker}]
                    \* attempt_count, started_at + timeout_seconds, resolved_worker_id
Remote == [run: Runs \cup {NoRun}, attempt: Nat, reason: BOOLEAN, grace: Timer,
           retry: Timer, overdue: BOOLEAN]
                    \* remote_run_id, remote_run_attempt (0 for NULL),
                    \* reconciliation_reason is set, reconciliation_deadline_at,
                    \* reconciliation_next_attempt_at, deadline_exceeded_at is set
Outbox == [notice: {"none"} \cup Terminal, acked: BOOLEAN]
                    \* status in the task's notification, acknowledged_at is set

Row == [status: Status, origin: Origin, planner: Planner, claim: Claim,
        attempt: Attempt, remote: Remote, outbox: Outbox,
        cancel: BOOLEAN]                            \* cancel_requested_at is set

NoRemote == [run |-> NoRun, attempt |-> 0, reason |-> FALSE, grace |-> NoTime,
             retry |-> NoTime, overdue |-> FALSE]

Absent == [
    status |-> "absent",
    origin |-> [priority |-> 0, born |-> 0, chat |-> FALSE],
    planner |-> [attempts |-> 0, token |-> 0, lease |-> NoTime],
    claim |-> [by |-> NoWorker, token |-> 0, lease |-> NoTime, issued |-> <<>>],
    attempt |-> [count |-> 0, budget |-> NoTime, resolved |-> NoWorker],
    remote |-> NoRemote,
    outbox |-> [notice |-> "none", acked |-> FALSE],
    cancel |-> FALSE]

Created(q, rank) ==
    [Absent EXCEPT
        !.status = IF q.planned THEN "planning_pending" ELSE "pending",
        !.origin = [priority |-> q.priority, born |-> rank, chat |-> q.chat]]

\* Timers of a settled row are never read again, so they stop.
Aged(r) ==
    IF r.status \in Terminal THEN r
    ELSE [r EXCEPT !.planner.lease = Age(@), !.claim.lease = Age(@),
                   !.attempt.budget = Age(@),
                   !.remote = [@ EXCEPT !.grace = Age(r.remote.grace),
                                        !.retry = Age(r.remote.retry)]]

-----------------------------------------------------------------------------
(* Ways a row moves on *)

\* INSERT OR IGNORE against UNIQUE (task_id, channel)
EnqueueNotification(r) ==
    IF r.origin.chat /\ r.status \in Terminal /\ r.outbox.notice = "none"
    THEN [r EXCEPT !.outbox.notice = r.status]
    ELSE r

\* claim_token = NULL, lease_expires_at = NULL; claimed_by stays
Released(c) == [c EXCEPT !.token = 0, !.lease = NoTime]

PlannerReleased(p) == [p EXCEPT !.token = 0, !.lease = NoTime]

\* Fault: a requeued row keeps the remote run of the attempt it gave up.
RequeuedWithRun(r) ==
    [r EXCEPT !.status = "pending", !.claim = [Released(@) EXCEPT !.by = NoWorker]]

\* Back to the queue: everything the previous attempt resolved is forgotten,
\* but neither started_at nor cancel_requested_at.
Requeued(r) ==
    [r EXCEPT !.status = "pending",
              !.claim = [Released(@) EXCEPT !.by = NoWorker],
              !.attempt.resolved = NoWorker,
              !.remote = NoRemote]

Finished(r, outcome) ==
    EnqueueNotification([r EXCEPT !.status = outcome, !.claim = Released(@)])

\* Fault: a planning failure is settled without a notification.
FinishedPlanningSilently(r, outcome) ==
    [r EXCEPT !.status = outcome, !.planner = PlannerReleased(@)]

FinishedPlanning(r, outcome) ==
    EnqueueNotification([r EXCEPT !.status = outcome, !.planner = PlannerReleased(@)])

ReturnedToPlanner(r) ==
    [r EXCEPT !.status = "planning_pending", !.planner = PlannerReleased(@)]

Sought(m, wait, exceeded) ==
    [m EXCEPT !.reason = TRUE,
              !.grace = IF @ = NoTime THEN ReconciliationGrace ELSE @,
              !.retry = wait,
              !.overdue = @ \/ exceeded]

\* Faults: reconciliation keeps the claim token, or sets no deadline.
ToReconciliationWithToken(r, wait, exceeded) ==
    [r EXCEPT !.status = "reconciling", !.claim.lease = NoTime,
              !.remote = Sought(@, wait, exceeded)]
ToReconciliationForEver(r, wait, exceeded) ==
    [r EXCEPT !.status = "reconciling", !.claim = Released(@),
              !.remote = [Sought(@, wait, exceeded) EXCEPT !.grace = r.remote.grace]]

ToReconciliation(r, wait, exceeded) ==
    [r EXCEPT !.status = "reconciling", !.claim = Released(@),
              !.remote = Sought(@, wait, exceeded)]

-----------------------------------------------------------------------------
(* _maintenance: three sweeps over the tasks, in this order *)

CurrentRun(r) == r.remote.run # NoRun /\ r.remote.attempt = r.attempt.count

ExpirePlanning(r) ==
    IF r.status = "planning" /\ Past(r.planner.lease)
    THEN IF r.planner.attempts < PlannerMaxAttempts
         THEN ReturnedToPlanner(r)
         ELSE FinishedPlanning(r, "timed_out")
    ELSE r

\* Fault: a retry is tried before the pending cancellation is looked at.
LapsedRetryFirst(r) ==
    CASE ~Past(r.attempt.budget) /\ r.attempt.count < MaxAttempts -> Requeued(r)
      [] OTHER -> Finished(r, IF r.status = "cancel_requested"
                              THEN "cancelled" ELSE "timed_out")

\* What becomes of a lapsed claim that has no remote run to ask about.
Lapsed(r) ==
    CASE r.status = "cancel_requested" -> Finished(r, "cancelled")
      [] /\ r.status # "cancel_requested"
         /\ ~Past(r.attempt.budget)
         /\ r.attempt.count < MaxAttempts -> Requeued(r)
      [] OTHER -> Finished(r, "timed_out")

\* Fault: lease_expires_at <= now for lease_expires_at < now.
ExpireLeaseEarly(r) ==
    IF r.status \in Active /\ (Past(r.attempt.budget) \/ Reached(r.claim.lease))
    THEN IF CurrentRun(r)
         THEN ToReconciliation(r, 0, Past(r.attempt.budget))
         ELSE Lapsed(r)
    ELSE r

ExpireLease(r) ==
    IF r.status \in Active /\ (Past(r.attempt.budget) \/ Past(r.claim.lease))
    THEN IF CurrentRun(r)
         THEN ToReconciliation(r, 0, Past(r.attempt.budget))
         ELSE Lapsed(r)
    ELSE r

\* Fault: a cancelled task is exempt from the reconciliation deadline.
ExpireReconciliationUnlessCancelled(r) ==
    IF r.status = "reconciling" /\ ~r.cancel /\ Past(r.remote.grace)
    THEN [Finished(r, "timed_out") EXCEPT !.remote.retry = NoTime]
    ELSE r

ExpireReconciliation(r) ==
    IF r.status = "reconciling" /\ Past(r.remote.grace)
    THEN [Finished(r, "timed_out") EXCEPT !.remote.retry = NoTime]
    ELSE r

MaintainedRow(r) == ExpireReconciliation(ExpireLease(ExpirePlanning(r)))

-----------------------------------------------------------------------------
(* Execution claims *)

\* Fault: a heartbeat also renews the lease of a claim that is being cancelled.
RenewedWhileCancelling(r, w, k) ==
    IF /\ k # 0
       /\ r.claim.by = w
       /\ r.status \in Active
       /\ r.claim.token \in {0, k}
    THEN [r EXCEPT !.claim.lease = TaskLease]
    ELSE r

\* A row named by id is renewed when it has no token, a row named by claim
\* when the token matches.
Renewed(r, w, k) ==
    IF /\ k # 0
       /\ r.claim.by = w
       /\ r.status \in {"claimed", "running"}
       /\ r.claim.token \in {0, k}
    THEN [r EXCEPT !.claim.lease = TaskLease]
    ELSE r

Granted(c, w) == [by |-> w, token |-> Len(c.issued) + 1, lease |-> TaskLease,
                  issued |-> Append(c.issued, w)]

\* Fault: claiming a run back clears the deadline of its reconciliation too, and the
\* next loss sets a fresh one.
ClaimedBackAfresh(r, w) ==
    [r EXCEPT !.status = "claimed", !.claim = Granted(@, w),
              !.remote = [@ EXCEPT !.retry = NoTime, !.grace = NoTime]]

\* The same attempt goes on, to find out what became of its remote run.
ClaimedBack(r, w) ==
    [r EXCEPT !.status = "claimed", !.claim = Granted(@, w), !.remote.retry = NoTime]

ClaimedAnew(r, w) ==
    [r EXCEPT !.status = "claimed", !.claim = Granted(@, w),
              !.attempt = [count |-> @.count + 1, budget |-> @.budget, resolved |-> w],
              !.remote = [NoRemote EXCEPT !.run = r.remote.run,
                                          !.attempt = r.remote.attempt]]

Claimed(r, w) == IF r.status = "reconciling" THEN ClaimedBack(r, w) ELSE ClaimedAnew(r, w)

RequireClaim(r, w, k) == r.claim.by = w /\ k # 0 /\ r.claim.token = k

\* When the store takes a call about claim k of worker w; it answers 409 otherwise.
MayStart(r, w, k) == RequireClaim(r, w, k) /\ r.status = "claimed"

\* Fault: whoever knows the task may bind a run to it, whatever claim it holds.
MayAttachUnclaimed(r, w, k, run) ==
    /\ r.status \in {"claimed", "running"}
    /\ ~(r.claim.lease = NoTime \/ Reached(r.claim.lease))
    /\ ~(r.remote.run # run /\ CurrentRun(r) /\ ~r.remote.reason)

MayAttach(r, w, k, run) ==
    /\ r.status \in {"claimed", "running"}
    /\ RequireClaim(r, w, k)
    /\ ~(r.claim.lease = NoTime \/ Reached(r.claim.lease))
    /\ ~(r.remote.run # run /\ CurrentRun(r) /\ ~r.remote.reason)

MayReconcile(r, w, k, exceeded) ==
    /\ RequireClaim(r, w, k)
    /\ r.status \in {"claimed", "running"}
    /\ CurrentRun(r)
    /\ exceeded => Reached(r.attempt.budget)

MayReport(r, w, k, run, outcome) ==
    /\ RequireClaim(r, w, k)
    /\ run = r.remote.run
    /\ r.remote.run # NoRun => r.remote.attempt = r.attempt.count
    /\ \/ r.status = "cancel_requested" /\ outcome = "cancelled"
       \/ r.status \in {"running", "reconciling"}

\* Fault: every attempt starts the clock anew.
StartedAnew(r) == [r EXCEPT !.status = "running", !.attempt.budget = TaskTimeout]

\* started_at = COALESCE(started_at, now)
Started(r) ==
    [r EXCEPT !.status = "running",
              !.attempt.budget = IF @ = NoTime THEN TaskTimeout ELSE @]

Attached(r, run) ==
    [r EXCEPT !.remote = [NoRemote EXCEPT !.run = run, !.attempt = r.attempt.count,
                                          !.overdue = r.remote.overdue]]

\* Fault: attempt_count <= max_attempts for attempt_count < max_attempts.
ReportedWithExtraAttempt(r, outcome, retryable) ==
    IF /\ r.status # "cancel_requested"
       /\ outcome = "failed" /\ retryable
       /\ r.attempt.count <= MaxAttempts
    THEN Requeued(r)
    ELSE [Finished(r, outcome) EXCEPT !.remote.retry = NoTime]

\* A cancel_requested row only takes the answer "cancelled", never a retry.
Reported(r, outcome, retryable) ==
    IF /\ r.status # "cancel_requested"
       /\ outcome = "failed" /\ retryable
       /\ r.attempt.count < MaxAttempts
    THEN Requeued(r)
    ELSE [Finished(r, outcome) EXCEPT !.remote.retry = NoTime]

-----------------------------------------------------------------------------
(* Planner claims; tokens are numbered by the attempt they open *)

RequirePlannerClaim(r, k) ==
    /\ k # 0 /\ r.planner.token = k
    /\ ~(r.planner.lease = NoTime \/ Reached(r.planner.lease))

PlanningClaimed(r) ==
    [r EXCEPT !.status = "planning",
              !.planner = [attempts |-> @.attempts + 1, token |-> @.attempts + 1,
                           lease |-> PlannerLease]]

Planned(r) == [r EXCEPT !.status = "pending", !.planner = PlannerReleased(@)]

\* Fault: the planner's budget is not looked at.
PlanningFailedUnbounded(r, outcome, retryable) ==
    IF retryable THEN ReturnedToPlanner(r) ELSE FinishedPlanning(r, outcome)

PlanningFailed(r, outcome, retryable) ==
    IF retryable /\ r.planner.attempts < PlannerMaxAttempts
    THEN ReturnedToPlanner(r)
    ELSE FinishedPlanning(r, outcome)

-----------------------------------------------------------------------------
(* Cancellation *)

\* Faults: cancellation leaves the planner's claim in place, loses the
\* notification, or writes the phase "cancelling" into the status column.
CancelledRowWithPlanner(r) ==
    CASE r.status \in {"planning_pending", "planning", "pending"} ->
            EnqueueNotification([r EXCEPT !.status = "cancelled", !.cancel = TRUE])
      [] r.status = "reconciling" -> [r EXCEPT !.cancel = TRUE, !.remote.retry = 0]
      [] OTHER -> [r EXCEPT !.status = "cancel_requested", !.cancel = TRUE]
CancelledRowSilently(r) ==
    LET c == [r EXCEPT !.cancel = TRUE, !.planner = PlannerReleased(@)] IN
    CASE r.status \in {"planning_pending", "planning", "pending"} ->
            [c EXCEPT !.status = "cancelled"]
      [] r.status = "reconciling" -> [c EXCEPT !.remote.retry = 0]
      [] OTHER -> [c EXCEPT !.status = "cancel_requested"]
CancelledRowByPhase(r) ==
    LET c == [r EXCEPT !.cancel = TRUE, !.planner = PlannerReleased(@)] IN
    CASE r.status \in {"planning_pending", "planning", "pending"} ->
            EnqueueNotification([c EXCEPT !.status = "cancelled"])
      [] r.status = "reconciling" -> [c EXCEPT !.remote.retry = 0]
      [] OTHER -> [c EXCEPT !.status = "cancelling"]

CancelledRow(r) ==
    LET c == [r EXCEPT !.cancel = TRUE, !.planner = PlannerReleased(@)] IN
    CASE r.status \in {"planning_pending", "planning", "pending"} ->
            EnqueueNotification([c EXCEPT !.status = "cancelled"])
      [] r.status = "reconciling" -> [c EXCEPT !.remote.retry = 0]
      [] OTHER -> [c EXCEPT !.status = "cancel_requested"]

=============================================================================
