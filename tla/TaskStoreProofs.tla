-------------------------- MODULE TaskStoreProofs --------------------------
(***************************************************************************)
(* The invariants of the task store, proved for any set of workers, any    *)
(* finite set of tasks, any lease, budget, grace period and retry limit.   *)
(*                                                                         *)
(* IInv says that every row satisfies RowInv: the row predicates of        *)
(* TaskStoreProperties together with Staged, which makes them inductive.   *)
(***************************************************************************)
EXTENDS TaskRowProofs, FiniteSetTheorems

IInv ==
    /\ tasks \in [Tasks -> Row]
    /\ silence \in [Workers -> Timer]
    /\ \A t \in Tasks : RowInv(tasks[t])

\* The empty table is sound.
LEMMA InitIInv == Init => IInv
<1> SUFFICES ASSUME Init PROVE IInv
  OBVIOUS
<1>1. \A t \in Tasks : tasks[t] = Absent
  BY DEF Init
<1>2. Absent \in Row
  BY AbsentInv DEF RowInv
<1>3. silence \in [Workers -> Timer]
  BY TimerFacts DEF Init
<1>4. tasks \in [Tasks -> Row]
  BY <1>2 DEF Init
<1> QED
  BY <1>1, <1>3, <1>4, AbsentInv DEF IInv

-----------------------------------------------------------------------------
(* What maintenance leaves, and what a transaction makes of it *)

\* Maintenance leaves a sound table.
LEMMA MaintainedRows ==
    ASSUME IInv
    PROVE  /\ DOMAIN Maintained = Tasks
           /\ \A t \in Tasks : Maintained[t] = MaintainedRow(tasks[t])
           /\ \A t \in Tasks : RowInv(Maintained[t])
BY MaintainedInv DEF IInv, Maintained

\* Eviction keeps the workers table in its ranges.
LEMMA ListedTimers ==
    ASSUME IInv
    PROVE  Listed \in [Workers -> Timer]
BY TimerFacts DEF IInv, Listed

\* A step is sound if it leaves every row sound.
LEMMA RowsSuffice ==
    ASSUME IInv, tasks' = [t \in Tasks |-> tasks'[t]],
           \A t \in Tasks : RowInv(tasks'[t]),
           silence' \in [Workers -> Timer]
    PROVE  IInv'
<1>1. \A t \in Tasks : tasks'[t] \in Row
  BY DEF RowInv
<1>2. tasks' \in [Tasks -> Row]
  BY <1>1
<1> QED
  BY <1>2, Zenon DEF IInv

\* Maintenance followed by one statement on one row.
LEMMA TransactionIInv ==
    ASSUME IInv, NEW t \in Tasks, NEW r, RowInv(r), Transaction(t, r)
    PROVE  IInv'
<1>1. tasks' = [Maintained EXCEPT ![t] = r] /\ silence' = Listed
  BY DEF Transaction
<1>2. tasks' = [u \in Tasks |-> tasks'[u]]
  BY <1>1, MaintainedRows
<1>3. \A u \in Tasks : RowInv(tasks'[u])
  BY <1>1, MaintainedRows
<1> QED
  BY <1>1, <1>2, <1>3, ListedTimers, RowsSuffice

\* A statement on the rows as they are stored.
LEMMA StatementIInv ==
    ASSUME IInv, NEW t \in Tasks, NEW r, RowInv(r),
           tasks' = [tasks EXCEPT ![t] = r], UNCHANGED silence
    PROVE  IInv'
<1>1. tasks' = [u \in Tasks |-> tasks'[u]]
  BY DEF IInv
<1>2. \A u \in Tasks : RowInv(tasks'[u])
  BY DEF IInv
<1> QED
  BY <1>1, <1>2, RowsSuffice DEF IInv

-----------------------------------------------------------------------------
(* One lemma per group of actions *)

\* The coordinator's own sweep.
LEMMA RunMaintenanceIInv == IInv /\ RunMaintenance => IInv'
<1> SUFFICES ASSUME IInv, RunMaintenance PROVE IInv'
  OBVIOUS
<1>1. tasks' = Maintained /\ silence' = Listed
  BY DEF RunMaintenance
<1>2. tasks' = [t \in Tasks |-> tasks'[t]]
  BY <1>1 DEF Maintained
<1>3. \A t \in Tasks : RowInv(tasks'[t])
  BY <1>1, MaintainedRows
<1> QED
  BY <1>1, <1>2, <1>3, ListedTimers, RowsSuffice

\* Time passes.
LEMMA TickIInv == IInv /\ Tick => IInv'
<1> SUFFICES ASSUME IInv, Tick PROVE IInv'
  OBVIOUS
<1>1. \A t \in Tasks : RowInv(tasks'[t])
  BY AgedInv DEF IInv, Tick
<1>2. \A w \in Workers : silence'[w] \in Timer
  BY AgeFacts DEF IInv, Tick
<1>3. silence' \in [Workers -> Timer]
  BY <1>2 DEF Tick
<1>4. tasks' = [t \in Tasks |-> tasks'[t]]
  BY DEF Tick
<1> QED
  BY <1>1, <1>3, <1>4, RowsSuffice

\* register_worker, heartbeat and claim_task.
LEMMA WorkerCallIInv ==
    ASSUME IInv, NEW w \in Workers, WorkerCall(w)
    PROVE  IInv'
<1>0. WorkerEviction \in Timer
  BY WorkerAssumption DEF Timer, NoTime
<1>1. CASE RegisterWorker(w)
  BY <1>0, <1>1 DEF RegisterWorker, IInv
<1>2. ASSUME NEW claims \in ClaimsOf(w), Heartbeat(w, claims)
      PROVE  IInv'
  <2>1. /\ tasks' = [t \in Tasks |-> Renewed(Maintained[t], w, claims[t])]
        /\ silence' = [Listed EXCEPT ![w] = WorkerEviction]
    BY <1>2 DEF Heartbeat
  <2>2. \A t \in Tasks : RowInv(tasks'[t])
    BY <2>1, MaintainedRows, RenewedInv
  <2>3. silence' \in [Workers -> Timer]
    BY <1>0, <2>1, ListedTimers
  <2>4. tasks' = [t \in Tasks |-> tasks'[t]]
    BY <2>1
  <2> QED
    BY <2>2, <2>3, <2>4, RowsSuffice
<1>3. CASE ClaimTask(w)
  <2>1. PICK t \in Tasks : /\ Claimable(Maintained[t], RouteOf[w][t], w)
                           /\ Transaction(t, Claimed(Maintained[t], w))
    BY <1>3 DEF ClaimTask, FirstOf
  <2> DEFINE r == Maintained[t]
  <2>2. RowInv(r)
    BY MaintainedRows
  <2>3. r.status = "pending" \/ (r.status = "reconciling" /\ r.attempt.resolved = w)
    BY <2>1, Zenon DEF Claimable
  <2> HIDE DEF r
  <2>4. RowInv(Claimed(r, w))
    BY <2>2, <2>3, ClaimedInv
  <2> QED
    BY <2>1, <2>4, TransactionIInv DEF r
<1> QED
  BY <1>1, <1>2, <1>3 DEF WorkerCall

\* The calls about one claim, which may be long lost.
LEMMA ClaimCallIInv ==
    ASSUME IInv, NEW w \in Workers, NEW t \in Tasks, NEW k, ClaimCall(w, t, k)
    PROVE  IInv'
<1> DEFINE r == Maintained[t]
<1>0. RowInv(r)
  BY MaintainedRows
<1>1. CASE UpdateTaskStatus(t, w, k)
  <2>1. RowInv(Started(r)) /\ Transaction(t, Started(r))
    BY <1>0, <1>1, StartedInv DEF UpdateTaskStatus, MayStart
  <2> QED
    BY <2>1, TransactionIInv
<1>2. ASSUME NEW run \in Runs, AttachRemoteRun(t, w, k, run)
      PROVE  IInv'
  <2>1. RowInv(Attached(r, run)) /\ Transaction(t, Attached(r, run))
    BY <1>0, <1>2, AttachedInv DEF AttachRemoteRun, MayAttach
  <2> QED
    BY <2>1, TransactionIInv
<1>3. ASSUME NEW exceeded \in BOOLEAN, MarkReconciling(t, w, k, exceeded)
      PROVE  IInv'
  <2>0. CurrentRun(r) /\ r.status \in {"claimed", "running"}
    BY <1>3, Zenon DEF MarkReconciling, MayReconcile
  <2>1. r.remote.run # NoRun /\ r.status \in Active
    BY <2>0 DEF CurrentRun, Active
  <2>2. RowInv(ToReconciliation(r, ReconciliationBackoff, exceeded))
    BY <1>0, <2>1, TimerFacts, ToReconciliationInv
  <2>3. Transaction(t, ToReconciliation(r, ReconciliationBackoff, exceeded))
    BY <1>3 DEF MarkReconciling, MayReconcile
  <2> QED
    BY <2>2, <2>3, TransactionIInv
<1>4. ASSUME NEW run, NEW outcome \in Terminal, NEW retryable \in BOOLEAN,
             ReportResult(t, w, k, run, outcome, retryable)
      PROVE  IInv'
  \* The live token rules the reconciling branch of report_result out.
  <2>1. r.claim.token # 0
    BY <1>4 DEF ReportResult, MayReport, RequireClaim
  <2>2. r.status \in Active
    BY <1>0, <2>1 DEF RowInv, HasLiveClaim
  <2>3. RowInv(Reported(r, outcome, retryable))
    BY <1>0, <2>2, ReportedInv
  <2>4. Transaction(t, Reported(r, outcome, retryable))
    BY <1>4 DEF ReportResult, MayReport
  <2> QED
    BY <2>3, <2>4, TransactionIInv
<1> QED
  BY <1>1, <1>2, <1>3, <1>4 DEF ClaimCall

\* claim_planning_task.
LEMMA ClaimPlanningTaskIInv == IInv /\ ClaimPlanningTask => IInv'
<1> SUFFICES ASSUME IInv, ClaimPlanningTask PROVE IInv'
  OBVIOUS
<1>1. PICK t \in Tasks : /\ Maintained[t].status = "planning_pending"
                         /\ Transaction(t, PlanningClaimed(Maintained[t]))
  BY DEF ClaimPlanningTask, FirstOf
<1>2. RowInv(PlanningClaimed(Maintained[t]))
  BY <1>1, MaintainedRows, PlanningClaimedInv
<1> QED
  BY <1>1, <1>2, TransactionIInv

\* The calls about one planner claim, which may be long lost.
LEMMA PlannerCallIInv ==
    ASSUME IInv, NEW t \in Tasks, NEW k, PlannerCall(t, k)
    PROVE  IInv'
<1> DEFINE r == Maintained[t]
<1>0. RowInv(r) /\ RowInv(tasks[t])
  BY MaintainedRows DEF IInv
<1>1. CASE ExtendPlanningLease(t, k)
  <2> DEFINE s == [tasks[t] EXCEPT !.planner.lease = PlannerLease]
  <2>1. RowInv(s)
    BY <1>0, <1>1, ExtendedInv DEF ExtendPlanningLease
  <2>2. tasks' = [tasks EXCEPT ![t] = s] /\ UNCHANGED silence
    BY <1>1 DEF ExtendPlanningLease
  <2> HIDE DEF s
  <2> QED
    BY <2>1, <2>2, StatementIInv
<1>2. CASE CompletePlanning(t, k)
  <2>1. RowInv(Planned(r)) /\ Transaction(t, Planned(r))
    BY <1>0, <1>2, PlannedInv DEF CompletePlanning
  <2> QED
    BY <2>1, TransactionIInv
<1>3. ASSUME NEW outcome \in {"failed", "timed_out"}, NEW retryable \in BOOLEAN,
             FailPlanning(t, k, outcome, retryable)
      PROVE  IInv'
  <2>0. r.status = "planning" /\ outcome \in Terminal
    BY <1>3 DEF FailPlanning, Terminal
  <2>1. RowInv(PlanningFailed(r, outcome, retryable))
    BY <1>0, <2>0, PlanningFailedInv
  <2>2. Transaction(t, PlanningFailed(r, outcome, retryable))
    BY <1>3 DEF FailPlanning
  <2> QED
    BY <2>1, <2>2, TransactionIInv
<1> QED
  BY <1>1, <1>2, <1>3 DEF PlannerCall

\* create_task, cancel_task and acknowledge_notification.
LEMMA DirectorCallIInv ==
    ASSUME IInv, NEW t \in Tasks, DirectorCall(t)
    PROVE  IInv'
<1>0. RowInv(tasks[t])
  BY DEF IInv
<1>1. ASSUME NEW q \in Requests, CreateTask(t, q)
      PROVE  IInv'
  <2> DEFINE present == {u \in Tasks : tasks[u].status # "absent"}
  <2>1. IsFiniteSet(present)
    BY TasksAssumption, FS_Subset
  <2>2. Cardinality(present) \in Int
    BY <2>1, FS_CardinalityType
  <2>3. RowInv(Created(q, Cardinality(present)))
    BY <2>2, CreatedInv
  <2>4. tasks' = [tasks EXCEPT ![t] = Created(q, Cardinality(present))]
    BY <1>1 DEF CreateTask
  <2> QED
    BY <1>1, <2>3, <2>4, StatementIInv DEF CreateTask
<1>2. CASE CancelTask(t)
  BY <1>0, <1>2, CancelledRowInv, StatementIInv DEF CancelTask
<1>3. CASE AcknowledgeNotification(t)
  <2> DEFINE s == [tasks[t] EXCEPT !.outbox.acked = TRUE]
  <2>1. RowInv(s)
    BY <1>0, <1>3, AcknowledgedInv DEF AcknowledgeNotification
  <2>2. tasks' = [tasks EXCEPT ![t] = s] /\ UNCHANGED silence
    BY <1>3 DEF AcknowledgeNotification
  <2> HIDE DEF s
  <2> QED
    BY <2>1, <2>2, StatementIInv
<1> QED
  BY <1>1, <1>2, <1>3 DEF DirectorCall

\* Every step, the stuttering one included.
LEMMA StepIInv == IInv /\ [Next]_vars => IInv'
<1> SUFFICES ASSUME IInv, [Next]_vars PROVE IInv'
  OBVIOUS
<1>1. ASSUME NEW w \in Workers, WorkerCall(w) PROVE IInv'
  BY <1>1, WorkerCallIInv
<1>2. ASSUME NEW w \in Workers, NEW t \in Tasks, NEW k \in 1..MaxClaims, ClaimCall(w, t, k)
      PROVE  IInv'
  BY <1>2, ClaimCallIInv
<1>3. ASSUME NEW t \in Tasks, NEW k \in 1..PlannerMaxAttempts, PlannerCall(t, k)
      PROVE  IInv'
  BY <1>3, PlannerCallIInv
<1>4. ASSUME NEW t \in Tasks, DirectorCall(t) PROVE IInv'
  BY <1>4, DirectorCallIInv
<1>5. CASE UNCHANGED vars
  BY <1>5 DEF vars, IInv
<1> QED
  BY <1>1, <1>2, <1>3, <1>4, <1>5, ClaimPlanningTaskIInv, RunMaintenanceIInv, TickIInv
  DEF Next

\* The rows are sound in every state the store can reach.
THEOREM Inductive == Spec => []IInv
BY InitIInv, StepIInv, PTL DEF Spec


\* The schema: statuses, counters and timers stay in their ranges.
THEOREM TypeCorrect == Spec => []TypeOK
<1>1. IInv => TypeOK
  BY DEF IInv, TypeOK
<1> QED
  BY <1>1, Inductive, PTL

\* storage.py:350: the token _require_claim compares with is the newest one, in
\* the hands of claimed_by, and there is one exactly while the row is executed.
THEOREM ClaimsAreExclusive == Spec => []ClaimDiscipline
<1>1. IInv => ClaimDiscipline
  BY DEF IInv, RowInv, ClaimDiscipline
<1> QED
  BY <1>1, Inductive, PTL

\* storage.py:359: the same for planners.
THEOREM PlannerClaimsAreExclusive == Spec => []PlannerClaimDiscipline
<1>1. IInv => PlannerClaimDiscipline
  BY DEF IInv, RowInv, PlannerClaimDiscipline
<1> QED
  BY <1>1, Inductive, PTL

\* A remote run on record is a run of the current attempt.
THEOREM RunsBelongToAttempts == Spec => []RunBelongsToAttempt
<1>1. IInv => RunBelongsToAttempt
  BY DEF IInv, RowInv, RunBelongsToAttempt
<1> QED
  BY <1>1, Inductive, PTL

\* A row in reconciliation has a run to ask about, a worker to ask, and a deadline.
THEOREM ReconciliationCanEnd == Spec => []ReconciliationHasExit
<1>1. IInv => ReconciliationHasExit
  BY DEF IInv, RowInv, ReconciliationHasExit
<1> QED
  BY <1>1, Inductive, PTL

\* Neither retry limit is ever passed.
THEOREM RetriesAreBounded == Spec => []AttemptBudget
<1>1. IInv => AttemptBudget
  BY DEF IInv, RowInv, AttemptBudget
<1> QED
  BY <1>1, Inductive, PTL

\* The outbox has the outcome of every settled task that came from a chat, and
\* nothing else.
THEOREM OutcomesAreTold == Spec => []OutboxMatchesOutcome
<1>1. IInv => OutboxMatchesOutcome
  BY DEF IInv, RowInv, OutboxMatchesOutcome
<1> QED
  BY <1>1, Inductive, PTL

-----------------------------------------------------------------------------
(* A settled row never changes again *)

\* Maintenance leaves a settled row alone.
LEMMA SettledMaintained ==
    ASSUME NEW r, r.status \in Terminal
    PROVE  MaintainedRow(r) = r
<1>1. /\ r.status # "planning" /\ r.status \notin Active /\ r.status # "reconciling"
  BY DEF Terminal, Active
<1> QED
  BY <1>1 DEF MaintainedRow, ExpirePlanning, ExpireLease, ExpireReconciliation

\* A row that stays as it is stays settled.
LEMMA UnchangedSettled ==
    ASSUME NEW r \in Row
    PROVE  SettledStays(r, r)
BY DEF SettledStays, Row, Outbox

\* No settled row is touched by a sweep of the table.
LEMMA SettledUnderMaintenance ==
    ASSUME IInv, NEW t \in Tasks
    PROVE  SettledStays(tasks[t], Maintained[t])
<1>1. CASE tasks[t].status \in Terminal
  BY <1>1, SettledMaintained, MaintainedRows, UnchangedSettled DEF IInv
<1>2. CASE tasks[t].status \notin Terminal
  BY <1>2 DEF SettledStays
<1> QED
  BY <1>1, <1>2

\* Nor by a transaction whose own statement spares it.
LEMMA SettledTransaction ==
    ASSUME IInv, NEW t \in Tasks, NEW r, Maintained[t].status \notin Terminal,
           Transaction(t, r)
    PROVE  \A u \in Tasks : SettledStays(tasks[u], tasks'[u])
<1> SUFFICES ASSUME NEW u \in Tasks PROVE SettledStays(tasks[u], tasks'[u])
  OBVIOUS
<1>1. CASE u = t
  <2>1. tasks[t].status \notin Terminal
    BY SettledMaintained, MaintainedRows
  <2> QED
    BY <1>1, <2>1 DEF SettledStays
<1>2. CASE u # t
  <2>1. tasks'[u] = Maintained[u]
    BY <1>2, MaintainedRows DEF Transaction
  <2> QED
    BY <2>1, SettledUnderMaintenance
<1> QED
  BY <1>1, <1>2

\* Nor by a statement that spares it.
LEMMA SettledStatement ==
    ASSUME IInv, NEW t \in Tasks, NEW r, tasks[t].status \notin Terminal,
           tasks' = [tasks EXCEPT ![t] = r]
    PROVE  \A u \in Tasks : SettledStays(tasks[u], tasks'[u])
<1> SUFFICES ASSUME NEW u \in Tasks PROVE SettledStays(tasks[u], tasks'[u])
  OBVIOUS
<1>1. CASE u = t
  BY <1>1 DEF SettledStays
<1>2. CASE u # t
  <2>1. tasks'[u] = tasks[u] /\ tasks[u] \in Row
    BY <1>2 DEF IInv
  <2> QED
    BY <2>1, UnchangedSettled
<1> QED
  BY <1>1, <1>2

\* register_worker, heartbeat and claim_task spare settled rows.
LEMMA SettledWorkerCall ==
    ASSUME IInv, NEW w \in Workers, WorkerCall(w)
    PROVE  \A t \in Tasks : SettledStays(tasks[t], tasks'[t])
<1>1. CASE RegisterWorker(w)
  BY <1>1, UnchangedSettled DEF RegisterWorker, IInv
<1>2. ASSUME NEW claims \in ClaimsOf(w), Heartbeat(w, claims), NEW t \in Tasks
      PROVE  SettledStays(tasks[t], tasks'[t])
  <2>1. tasks'[t] = Renewed(Maintained[t], w, claims[t])
    BY <1>2 DEF Heartbeat
  <2>2. CASE tasks[t].status \in Terminal
    <3>1. Maintained[t] = tasks[t]
      BY <2>2, SettledMaintained, MaintainedRows
    <3>2. tasks'[t] = tasks[t]
      BY <2>1, <2>2, <3>1 DEF Renewed, Terminal
    <3> QED
      BY <3>2, UnchangedSettled DEF IInv
  <2>3. CASE tasks[t].status \notin Terminal
    BY <2>3 DEF SettledStays
  <2> QED
    BY <2>2, <2>3
<1>3. CASE ClaimTask(w)
  <2>1. PICK t \in Tasks : /\ Claimable(Maintained[t], RouteOf[w][t], w)
                           /\ Transaction(t, Claimed(Maintained[t], w))
    BY <1>3 DEF ClaimTask, FirstOf
  <2>2. Maintained[t].status \in {"pending", "reconciling"}
    BY <2>1 DEF Claimable
  <2> QED
    BY <2>1, <2>2, SettledTransaction DEF Terminal
<1> QED
  BY <1>1, <1>2, <1>3 DEF WorkerCall

\* A call about a claim finds no live token on a settled row.
LEMMA SettledClaimCall ==
    ASSUME IInv, NEW w \in Workers, NEW t \in Tasks, NEW k, ClaimCall(w, t, k)
    PROVE  \A u \in Tasks : SettledStays(tasks[u], tasks'[u])
\* _require_claim asks for a live token, which a settled row has not.
<1>1. Maintained[t].claim.token # 0
  BY Zenon DEF ClaimCall, UpdateTaskStatus, AttachRemoteRun, MarkReconciling, ReportResult,
         MayStart, MayAttach, MayReconcile, MayReport, RequireClaim
<1>2. Maintained[t].status \in Active
  BY <1>1, MaintainedRows DEF RowInv, HasLiveClaim
<1>3. \E r : Transaction(t, r)
  BY Zenon DEF ClaimCall, UpdateTaskStatus, AttachRemoteRun, MarkReconciling, ReportResult
<1> QED
  BY <1>2, <1>3, SettledTransaction DEF Active, Terminal

\* A planner call finds the row out of planning.
LEMMA SettledPlannerCall ==
    ASSUME IInv, NEW t \in Tasks, NEW k, PlannerCall(t, k)
    PROVE  \A u \in Tasks : SettledStays(tasks[u], tasks'[u])
<1>1. CASE ExtendPlanningLease(t, k)
  <2>1. tasks[t].status = "planning"
    BY <1>1 DEF ExtendPlanningLease
  <2> QED
    BY <1>1, <2>1, SettledStatement DEF ExtendPlanningLease, Terminal
<1>2. CASE ~ExtendPlanningLease(t, k)
  <2>1. Maintained[t].status = "planning" /\ \E r : Transaction(t, r)
    BY <1>2, Zenon DEF PlannerCall, CompletePlanning, FailPlanning
  <2> QED
    BY <2>1, SettledTransaction DEF Terminal
<1> QED
  BY <1>1, <1>2

\* cancel_task returns a settled row as it is.
LEMMA SettledDirectorCall ==
    ASSUME IInv, NEW t \in Tasks, DirectorCall(t)
    PROVE  \A u \in Tasks : SettledStays(tasks[u], tasks'[u])
<1>1. ASSUME NEW q \in Requests, CreateTask(t, q)
      PROVE  \A u \in Tasks : SettledStays(tasks[u], tasks'[u])
  BY <1>1, SettledStatement DEF CreateTask, Terminal
<1>2. CASE CancelTask(t)
  BY <1>2, SettledStatement DEF CancelTask
<1>3. CASE AcknowledgeNotification(t)
  <2> SUFFICES ASSUME NEW u \in Tasks PROVE SettledStays(tasks[u], tasks'[u])
    OBVIOUS
  <2>1. tasks[u] \in Row
    BY DEF IInv
  <2>2. tasks'[u] = tasks[u] \/ tasks'[u] = [tasks[u] EXCEPT !.outbox.acked = TRUE]
    BY <1>3 DEF AcknowledgeNotification, IInv
  <2>3. [tasks[u] EXCEPT !.outbox.acked = TRUE].outbox.acked = TRUE
    BY <2>1 DEF Row, Outbox
  <2> QED
    BY <2>1, <2>2, <2>3, UnchangedSettled DEF SettledStays
<1> QED
  BY <1>1, <1>2, <1>3 DEF DirectorCall

\* Every step spares settled rows.
LEMMA SettledStep ==
    IInv /\ [Next]_vars => \A t \in Tasks : SettledStays(tasks[t], tasks'[t])
<1> DEFINE Settled == \A t \in Tasks : SettledStays(tasks[t], tasks'[t])
<1> SUFFICES ASSUME IInv, [Next]_vars PROVE Settled
  OBVIOUS
<1>1. ASSUME NEW w \in Workers, WorkerCall(w) PROVE Settled
  BY <1>1, SettledWorkerCall
<1>2. ASSUME NEW w \in Workers, NEW t \in Tasks, NEW k \in 1..MaxClaims, ClaimCall(w, t, k)
      PROVE  Settled
  BY <1>2, SettledClaimCall
<1>3. ASSUME NEW t \in Tasks, NEW k \in 1..PlannerMaxAttempts, PlannerCall(t, k)
      PROVE  Settled
  BY <1>3, SettledPlannerCall
<1>4. ASSUME NEW t \in Tasks, DirectorCall(t) PROVE Settled
  BY <1>4, SettledDirectorCall
<1>5. CASE UNCHANGED vars
  BY <1>5, UnchangedSettled DEF vars, IInv
<1>6. CASE ClaimPlanningTask
  <2>1. PICK t \in Tasks : /\ Maintained[t].status = "planning_pending"
                           /\ Transaction(t, PlanningClaimed(Maintained[t]))
    BY <1>6 DEF ClaimPlanningTask, FirstOf
  <2> QED
    BY <2>1, SettledTransaction DEF Terminal
<1>7. CASE RunMaintenance
  BY <1>7, SettledUnderMaintenance DEF RunMaintenance
<1>8. CASE Tick
  <2> SUFFICES ASSUME NEW t \in Tasks, tasks[t].status \in Terminal
               PROVE  SettledStays(tasks[t], tasks'[t])
    BY DEF SettledStays
  <2>1. tasks'[t] = tasks[t] /\ tasks[t] \in Row
    BY <1>8 DEF Tick, Aged, IInv
  <2> QED
    BY <2>1, UnchangedSettled
<1> QED
  BY <1>1, <1>2, <1>3, <1>4, <1>5, <1>6, <1>7, <1>8 DEF Next

\* No late report, cancellation, lease sweep or second outcome touches a settled
\* row; only its notification is acknowledged.
THEOREM OutcomesAreFinal == Spec => SettledForEver
<1>1. IInv /\ [Next]_vars => [\A t \in Tasks : SettledStays(tasks[t], tasks'[t])]_vars
  BY SettledStep
<1> QED
  BY <1>1, Inductive, PTL DEF Spec, SettledForEver

=============================================================================
