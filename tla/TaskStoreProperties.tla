------------------------ MODULE TaskStoreProperties ------------------------
(***************************************************************************)
(* What the task store promises to workers, planners and the director.    *)
(***************************************************************************)
EXTENDS TaskStore

\* Every row is a row of the schema, with statuses of TaskStatus only.
TypeOK ==
    /\ tasks \in [Tasks -> Row]
    /\ silence \in [Workers -> Timer]

-----------------------------------------------------------------------------
(* State invariants, each a predicate of one row *)

\* A row under execution has a lease and a token, any other row has neither,
\* and the token is the newest one ever issued, in the hands of claimed_by.
\* So no process that lost its claim passes _require_claim (storage.py:351),
\* whatever it does and however late.
HasLiveClaim(r) ==
    /\ r.status \in Active <=> r.claim.token # 0
    /\ r.status \in Active <=> r.claim.lease # NoTime
    /\ r.claim.token # 0 => /\ r.claim.token = Len(r.claim.issued)
                      /\ r.claim.issued[r.claim.token] = r.claim.by
ClaimDiscipline == \A t \in Tasks : HasLiveClaim(tasks[t])

\* The same for planners: a planner token is live exactly while the row is in
\* planning, and it is the token of the newest planner attempt.
HasLivePlannerClaim(r) ==
    /\ r.status = "planning" <=> r.planner.token # 0
    /\ r.status = "planning" <=> r.planner.lease # NoTime
    /\ r.planner.token \in {0, r.planner.attempts}
PlannerClaimDiscipline == \A t \in Tasks : HasLivePlannerClaim(tasks[t])

\* A recorded remote run always belongs to the current attempt and to the
\* worker that resolved it: a run of an attempt that was given up is never
\* polled, stopped or credited on behalf of a later one.
RunOfThisAttempt(r) ==
    /\ r.remote.run = NoRun <=> r.remote.attempt = 0
    /\ r.remote.run # NoRun => /\ r.remote.attempt = r.attempt.count
                        /\ r.attempt.resolved # NoWorker
                        /\ r.attempt.resolved = r.claim.by
RunBelongsToAttempt == \A t \in Tasks : RunOfThisAttempt(tasks[t])

\* A row waits in reconciliation only with all that leads out of it: a run to
\* ask about, the worker that can ask, a next attempt and a deadline.
CanLeaveReconciliation(r) ==
    r.status = "reconciling" =>
        /\ r.remote.run # NoRun
        /\ r.attempt.resolved # NoWorker
        /\ r.remote.reason
        /\ r.remote.retry # NoTime
        /\ r.remote.grace # NoTime
ReconciliationHasExit == \A t \in Tasks : CanLeaveReconciliation(tasks[t])

\* max_attempts and planner_max_attempts are never exceeded, and a row waits
\* for a claim only if an attempt is left for it: nothing is requeued for ever.
WithinBudget(r) ==
    /\ r.attempt.count <= MaxAttempts
    /\ r.planner.attempts <= PlannerMaxAttempts
    /\ r.status = "pending" => r.attempt.count < MaxAttempts
    /\ r.status = "planning_pending" =>
           r.planner.attempts < PlannerMaxAttempts /\ r.attempt.count = 0
AttemptBudget == \A t \in Tasks : WithinBudget(tasks[t])

\* The outbox has an entry for a task exactly when the task is settled and was
\* created from a chat, and the entry tells the outcome the row has: there is
\* no path to a terminal status that loses the notification, or repeats it.
NoticeTellsOutcome(r) ==
    /\ r.outbox.notice # "none" <=> r.origin.chat /\ r.status \in Terminal
    /\ r.outbox.notice \in {"none", r.status}
    /\ r.outbox.acked => r.outbox.notice # "none"
OutboxMatchesOutcome == \A t \in Tasks : NoticeTellsOutcome(tasks[t])

-----------------------------------------------------------------------------
(* An invariant over several rows *)

\* Never more rows under execution by a worker than its max_concurrency, also
\* while cancellations are pending and runs are claimed back for reconciliation.
CapacityRespected ==
    \A w \in Workers :
        Cardinality({t \in Tasks : /\ tasks[t].claim.by = w
                                   /\ tasks[t].status \in Active})
            <= MaxConcurrency[w]

-----------------------------------------------------------------------------
(* Action properties *)

\* A settled row never changes again: no late report, cancellation, lease sweep
\* or second outcome touches it.
SettledStays(r, s) == r.status \in Terminal => s = [r EXCEPT !.outbox.acked = s.outbox.acked]
SettledForEver == [][\A t \in Tasks : SettledStays(tasks[t], tasks'[t])]_vars

\* A claim is superseded only after its lease or its execution budget ran out
\* (strictly: a claim whose lease ends at this very instant is still good).
SupersededOnlyLate(r, s) ==
    r.claim.token # 0 /\ s.claim.token \notin {0, r.claim.token}
        => Past(r.claim.lease) \/ Past(r.attempt.budget)
LeaseIsExclusive == [][\A t \in Tasks : SupersededOnlyLate(tasks[t], tasks'[t])]_vars

\* Once a run is lost, the deadline of its reconciliation only comes nearer: it is
\* neither put off nor cleared by claiming the run back and losing it again, by a
\* cancellation or by a sweep.  It goes when the holder of the live claim binds a
\* run, or with everything else of an attempt that is given up.
GraceOnlyRunsDown(r, s) ==
    r.remote.grace # NoTime =>
        \/ s.remote.grace \in {r.remote.grace, Age(r.remote.grace)}
        \/ /\ s.remote.grace = NoTime
           /\ \/ r.claim.token # 0 /\ s.claim.token = r.claim.token
              \/ s.remote.run = NoRun
GraceIsNotRenewed == [][\A t \in Tasks : GraceOnlyRunsDown(tasks[t], tasks'[t])]_vars

\* A pending cancellation is never overtaken by another outcome: the row ends
\* up cancelled, or its remote run has to be reconciled first.
CancelNotOvertaken(r, s) ==
    r.status = "cancel_requested" =>
        \/ s.status \in {"cancel_requested", "cancelled"}
        \/ s.status \in {"reconciling", "timed_out"} /\ r.remote.run # NoRun
        \/ s.status = "claimed" /\ r.remote.run # NoRun /\ s.remote.run = r.remote.run
CancelRequestHonoured ==
    [][\A t \in Tasks : CancelNotOvertaken(tasks[t], tasks'[t])]_vars

\* The clock of an execution is started once and never set again: attempts share
\* the time of the first one.  When it is used up, the task is neither started nor
\* queued again, whatever attempts are left.
TimeOnlyRunsDown(r, s) ==
    r.attempt.budget # NoTime =>
        /\ s.attempt.budget \in {r.attempt.budget, Age(r.attempt.budget)}
        /\ Past(r.attempt.budget) /\ s.status # r.status
               => s.status \notin {"pending", "running"}
ExecutionTimeIsShared ==
    [][\A t \in Tasks : TimeOnlyRunsDown(tasks[t], tasks'[t])]_vars

-----------------------------------------------------------------------------
(* The abstract lifecycle *)

StageOf(r) ==
    CASE r.status = "absent" -> "none"
      [] r.status \in {"planning_pending", "planning"} -> "planning"
      [] r.status = "pending" -> "queued"
      [] r.status \in Active -> "held"
      [] r.status = "reconciling" -> "unsure"
      [] r.status \in Terminal -> "settled"

View(r) == [stage |-> StageOf(r),
            attempt |-> r.attempt.count,
            claim |-> Len(r.claim.issued),
            holder |-> r.claim.by,
            outcome |-> IF r.status \in Terminal THEN r.status ELSE "open",
            chat |-> r.origin.chat,
            told |-> r.outbox.notice # "none"]

Lifecycle == INSTANCE TaskLifecycle WITH life <- [t \in Tasks |-> View(tasks[t])]

\* The store implements the abstract lifecycle: each transaction, sweep and
\* refused call included, is a step of it.
ImplementsLifecycle == Lifecycle!Spec

-----------------------------------------------------------------------------
(* Liveness, under FairSpec: worker and planner may be silent for ever *)

\* A task that was started is settled in the end, or goes back to the queue.
StartedTaskSettles ==
    \A t \in Tasks : tasks[t].attempt.budget # NoTime
                         ~> tasks[t].status \in Terminal \cup {"pending"}

\* A pending cancellation does not hang, even if the worker keeps its heartbeat
\* going and never answers.
CancelRequestResolves ==
    \A t \in Tasks : tasks[t].status = "cancel_requested"
                         ~> tasks[t].status # "cancel_requested"

-----------------------------------------------------------------------------
(* What the documentation says, and the code does not do *)

\* docs/architecture.md:213-222: cancel leads to cancelled or cancel_requested
\* and from there only to cancelled, so a task is not queued again after it.
CancelledTaskNotRequeued ==
    \A t \in Tasks : tasks[t].cancel => tasks[t].status # "pending"

=============================================================================
