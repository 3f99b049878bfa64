------------------------ MODULE TaskStoreStepProofs ------------------------
(***************************************************************************)
(* What a step of the store may make of a row: the action properties of    *)
(* TaskStoreProperties, proved for all values of the constants, and the    *)
(* capacity of a worker, which is about several rows.                      *)
(*                                                                         *)
(* RowStep names everything that may happen to one row in one step; the    *)
(* lemma StepsByRow shows that nothing else does.  Each property is then   *)
(* a fact about RowStep.                                                   *)
(***************************************************************************)
EXTENDS TaskStoreProofs

USE DEF Terminal, Active

\* A statement on the row as it is stored.
Stated(r, s) ==
    \/ \E q \in Requests, rank \in Int : r.status = "absent" /\ s = Created(q, rank)
    \/ r.status \notin Terminal \cup {"absent"} /\ s = CancelledRow(r)
    \/ s = [r EXCEPT !.outbox.acked = TRUE]
    \/ r.status = "planning" /\ s = [r EXCEPT !.planner.lease = PlannerLease]

\* A statement about a claim, on a row that maintenance has seen to: what
\* claim k of worker w can make of it, and a claim or a heartbeat of w.
ByClaim(m, s, w, k) ==
    \/ MayStart(m, w, k) /\ s = Started(m)
    \/ \E run \in Runs : MayAttach(m, w, k, run) /\ s = Attached(m, run)
    \/ \E exceeded \in BOOLEAN :
          /\ MayReconcile(m, w, k, exceeded)
          /\ s = ToReconciliation(m, ReconciliationBackoff, exceeded)
    \/ \E run \in Runs \cup {NoRun}, outcome \in Terminal, retryable \in BOOLEAN :
          MayReport(m, w, k, run, outcome) /\ s = Reported(m, outcome, retryable)

ByHolder(m, s, w) ==
    \/ \E k : s = Renewed(m, w, k)
    \/ \E k : ByClaim(m, s, w, k)

ByClaimant(m, s, w) ==
    /\ m.status = "pending" \/ (m.status = "reconciling" /\ m.attempt.resolved = w)
    /\ s = Claimed(m, w)

Executed(m, s) == \E w \in Workers : ByHolder(m, s, w)

\* A statement about a planner claim, on such a row.
PlannedBy(m, s) ==
    \/ m.status = "planning_pending" /\ s = PlanningClaimed(m)
    \/ m.status = "planning" /\ s = Planned(m)
    \/ \E outcome \in {"failed", "timed_out"}, retryable \in BOOLEAN :
          m.status = "planning" /\ s = PlanningFailed(m, outcome, retryable)

QuietStep(r, s) ==
    \/ s = r
    \/ s = Aged(r)
    \/ Stated(r, s)
    \/ s = MaintainedRow(r)
    \/ Executed(MaintainedRow(r), s)
    \/ PlannedBy(MaintainedRow(r), s)

\* Every step but a claim.
AllQuiet == \A t \in Tasks : QuietStep(tasks[t], tasks'[t])

RowStep(r, s) ==
    \/ QuietStep(r, s)
    \/ \E w \in Workers : ByClaimant(MaintainedRow(r), s, w)

AllSteps == \A t \in Tasks : RowStep(tasks[t], tasks'[t])

-----------------------------------------------------------------------------
(* Nothing else happens to a row *)

\* A transaction maintains all rows and treats one of them.
LEMMA TransactionByRow ==
    ASSUME IInv, NEW t \in Tasks, NEW s, Transaction(t, s),
           Executed(Maintained[t], s) \/ PlannedBy(Maintained[t], s)
    PROVE  AllQuiet
<1>1. /\ \A u \in Tasks : tasks'[u] = IF u = t THEN s ELSE Maintained[u]
      /\ \A u \in Tasks : Maintained[u] = MaintainedRow(tasks[u])
  BY MaintainedRows DEF Transaction
<1> QED
  BY <1>1, Zenon DEF AllQuiet, QuietStep

\* A statement without maintenance treats one row.
LEMMA StatementByRow ==
    ASSUME IInv, NEW t \in Tasks, NEW s, tasks' = [tasks EXCEPT ![t] = s],
           Stated(tasks[t], s)
    PROVE  AllQuiet
<1>1. \A u \in Tasks : tasks'[u] = IF u = t THEN s ELSE tasks[u]
  BY DEF IInv
<1> QED
  BY <1>1, Zenon DEF AllQuiet, QuietStep

\* register_worker and heartbeat.
LEMMA HolderCallByRow ==
    ASSUME IInv, NEW w \in Workers,
           RegisterWorker(w) \/ \E claims \in ClaimsOf(w) : Heartbeat(w, claims)
    PROVE  AllQuiet
<1>1. CASE RegisterWorker(w)
  BY <1>1 DEF RegisterWorker, AllQuiet, QuietStep
<1>2. ASSUME NEW claims \in ClaimsOf(w), Heartbeat(w, claims)
      PROVE  AllQuiet
  <2>1. \A t \in Tasks : tasks'[t] = Renewed(MaintainedRow(tasks[t]), w, claims[t])
    BY <1>2, MaintainedRows DEF Heartbeat
  <2>2. \A t \in Tasks : Executed(MaintainedRow(tasks[t]), tasks'[t])
    BY <2>1, Zenon DEF Executed, ByHolder
  <2> QED
    BY <2>2, Zenon DEF AllQuiet, QuietStep
<1> QED
  BY <1>1, <1>2

\* claim_task: one row is granted, the others are maintained.
LEMMA ClaimByRow ==
    ASSUME IInv, NEW w \in Workers, ClaimTask(w)
    PROVE  \E t \in Tasks :
              /\ ByClaimant(MaintainedRow(tasks[t]), tasks'[t], w)
              /\ \A u \in Tasks \ {t} : tasks'[u] = MaintainedRow(tasks[u])
<1>1. PICK t \in Tasks : /\ Claimable(Maintained[t], RouteOf[w][t], w)
                         /\ Transaction(t, Claimed(Maintained[t], w))
  BY DEF ClaimTask, FirstOf
<1>2. \/ Maintained[t].status = "pending"
      \/ Maintained[t].status = "reconciling" /\ Maintained[t].attempt.resolved = w
  BY <1>1, Zenon DEF Claimable
<1>3. ByClaimant(Maintained[t], Claimed(Maintained[t], w), w)
  BY <1>2, Zenon DEF ByClaimant
<1>4. /\ \A u \in Tasks : tasks'[u] = IF u = t THEN Claimed(Maintained[t], w) ELSE Maintained[u]
      /\ \A u \in Tasks : Maintained[u] = MaintainedRow(tasks[u])
  BY <1>1, MaintainedRows DEF Transaction
<1> QED
  BY <1>3, <1>4, Zenon

\* The calls about one claim.
LEMMA ClaimCallByRow ==
    ASSUME IInv, NEW w \in Workers, NEW t \in Tasks, NEW k, ClaimCall(w, t, k)
    PROVE  AllQuiet
<1>1. \E s : Transaction(t, s) /\ ByClaim(Maintained[t], s, w, k)
  BY Zenon DEF ClaimCall, UpdateTaskStatus, AttachRemoteRun, MarkReconciling,
               ReportResult, ByClaim
<1>2. PICK s : Transaction(t, s) /\ ByClaim(Maintained[t], s, w, k)
  BY <1>1
<1>3. Executed(Maintained[t], s)
  BY <1>2, Zenon DEF Executed, ByHolder
<1> QED
  BY <1>2, <1>3, TransactionByRow

\* The calls about one planner claim.
LEMMA PlannerCallByRow ==
    ASSUME IInv, NEW t \in Tasks, NEW k, PlannerCall(t, k)
    PROVE  AllQuiet
<1>1. CASE ExtendPlanningLease(t, k)
  <2> DEFINE s == [tasks[t] EXCEPT !.planner.lease = PlannerLease]
  <2>1. tasks' = [tasks EXCEPT ![t] = s] /\ Stated(tasks[t], s)
    BY <1>1 DEF ExtendPlanningLease, Stated
  <2> HIDE DEF s
  <2> QED
    BY <2>1, StatementByRow
<1>2. CASE CompletePlanning(t, k) \/ \E outcome \in {"failed", "timed_out"},
              retryable \in BOOLEAN : FailPlanning(t, k, outcome, retryable)
  <2>1. \E s : Transaction(t, s) /\ PlannedBy(Maintained[t], s)
    BY <1>2, Zenon DEF CompletePlanning, FailPlanning, PlannedBy
  <2> QED
    BY <2>1, TransactionByRow
<1> QED
  BY <1>1, <1>2 DEF PlannerCall

\* create_task, cancel_task and acknowledge_notification.
LEMMA DirectorCallByRow ==
    ASSUME IInv, NEW t \in Tasks, DirectorCall(t)
    PROVE  AllQuiet
<1>1. ASSUME NEW q \in Requests, CreateTask(t, q)
      PROVE  AllQuiet
  <2> DEFINE present == {u \in Tasks : tasks[u].status # "absent"}
             s == Created(q, Cardinality(present))
  <2>1. IsFiniteSet(present)
    BY TasksAssumption, FS_Subset
  <2>2. Cardinality(present) \in Int
    BY <2>1, FS_CardinalityType
  <2>3. tasks' = [tasks EXCEPT ![t] = s] /\ tasks[t].status = "absent"
    BY <1>1 DEF CreateTask
  <2>4. Stated(tasks[t], s)
    BY <2>2, <2>3, Zenon DEF Stated
  <2> HIDE DEF s
  <2> QED
    BY <2>3, <2>4, StatementByRow
<1>2. CASE CancelTask(t)
  <2>1. Stated(tasks[t], CancelledRow(tasks[t]))
    BY <1>2, Zenon DEF CancelTask, Stated
  <2> QED
    BY <1>2, <2>1, StatementByRow DEF CancelTask
<1>3. CASE AcknowledgeNotification(t)
  <2> DEFINE s == [tasks[t] EXCEPT !.outbox.acked = TRUE]
  <2>1. tasks' = [tasks EXCEPT ![t] = s] /\ Stated(tasks[t], s)
    BY <1>3 DEF AcknowledgeNotification, Stated
  <2> HIDE DEF s
  <2> QED
    BY <2>1, StatementByRow
<1> QED
  BY <1>1, <1>2, <1>3 DEF DirectorCall

\* Every step but a claim takes every row by a QuietStep.
LEMMA StepsQuiet == IInv /\ [Next]_vars => AllQuiet \/ \E w \in Workers : ClaimTask(w)
<1> SUFFICES ASSUME IInv, [Next]_vars
             PROVE  AllQuiet \/ \E w \in Workers : ClaimTask(w)
  OBVIOUS
<1>1. ASSUME NEW w \in Workers, WorkerCall(w)
      PROVE  AllQuiet \/ ClaimTask(w)
  BY <1>1, HolderCallByRow DEF WorkerCall
<1>2. ASSUME NEW w \in Workers, NEW t \in Tasks, NEW k \in 1..MaxClaims, ClaimCall(w, t, k)
      PROVE  AllQuiet
  BY <1>2, ClaimCallByRow
<1>3. ASSUME NEW t \in Tasks, NEW k \in 1..PlannerMaxAttempts, PlannerCall(t, k)
      PROVE  AllQuiet
  BY <1>3, PlannerCallByRow
<1>4. ASSUME NEW t \in Tasks, DirectorCall(t) PROVE AllQuiet
  BY <1>4, DirectorCallByRow
<1>5. CASE UNCHANGED vars
  BY <1>5 DEF vars, AllQuiet, QuietStep
<1>6. CASE ClaimPlanningTask
  <2>1. PICK t \in Tasks : /\ Maintained[t].status = "planning_pending"
                           /\ Transaction(t, PlanningClaimed(Maintained[t]))
    BY <1>6 DEF ClaimPlanningTask, FirstOf
  <2>2. PlannedBy(Maintained[t], PlanningClaimed(Maintained[t]))
    BY <2>1 DEF PlannedBy
  <2> QED
    BY <2>1, <2>2, TransactionByRow
<1>7. CASE RunMaintenance
  BY <1>7, MaintainedRows DEF RunMaintenance, AllQuiet, QuietStep
<1>8. CASE Tick
  BY <1>8 DEF Tick, AllQuiet, QuietStep
<1> QED
  BY <1>1, <1>2, <1>3, <1>4, <1>5, <1>6, <1>7, <1>8 DEF Next

\* Every step takes every row by a RowStep.
LEMMA StepsByRow == IInv /\ [Next]_vars => AllSteps
<1> SUFFICES ASSUME IInv, [Next]_vars PROVE AllSteps
  OBVIOUS
<1>1. CASE AllQuiet
  BY <1>1, Zenon DEF AllQuiet, AllSteps, RowStep
<1>2. ASSUME NEW w \in Workers, ClaimTask(w) PROVE AllSteps
  BY <1>2, ClaimByRow, Zenon DEF AllSteps, RowStep, QuietStep
<1> QED
  BY <1>1, <1>2, StepsQuiet

-----------------------------------------------------------------------------
(* What the row operators leave of the parts that the properties are about *)

\* The parts of s that a step of an attempt does not touch.
SameTask(r, s) == s.origin = r.origin /\ s.attempt.count = r.attempt.count

\* A notification changes nothing but the outbox.
LEMMA EnqueuedParts ==
    ASSUME NEW r, IsRecord(r)
    PROVE  LET s == EnqueueNotification(r) IN
           /\ s.status = r.status /\ s.origin = r.origin /\ s.claim = r.claim
           /\ s.attempt = r.attempt /\ s.remote = r.remote /\ s.cancel = r.cancel
           /\ IsRecord(s)
BY DEF EnqueueNotification, IsRecord, Fields

\* A claim that is released keeps its owner and its history.
LEMMA ReleasedParts ==
    ASSUME NEW c \in Claim
    PROVE  /\ Released(c).token = 0 /\ Released(c).by = c.by
           /\ Released(c).issued = c.issued
BY DEF Released, Claim

\* A settled row has lost its claim, and nothing else.
LEMMA FinishedParts ==
    ASSUME NEW r \in Row, NEW outcome
    PROVE  LET s == Finished(r, outcome) IN
           /\ s.status = outcome /\ s.origin = r.origin /\ s.claim = Released(r.claim)
           /\ s.attempt = r.attempt /\ s.remote = r.remote /\ s.cancel = r.cancel
           /\ IsRecord(s)
<1> DEFINE q == [r EXCEPT !.status = outcome, !.claim = Released(@)]
<1>1. /\ q.status = outcome /\ q.origin = r.origin /\ q.claim = Released(r.claim)
      /\ q.attempt = r.attempt /\ q.remote = r.remote /\ q.cancel = r.cancel
      /\ IsRecord(q)
  BY RowIsRecord DEF IsRecord, Fields
<1>2. Finished(r, outcome) = EnqueueNotification(q)
  BY DEF Finished
<1> HIDE DEF q
<1> QED
  BY <1>1, <1>2, EnqueuedParts

\* The same without a time for the next attempt at reconciliation.
LEMMA WithoutRetryParts ==
    ASSUME NEW r \in Row, NEW outcome
    PROVE  LET s == [Finished(r, outcome) EXCEPT !.remote.retry = NoTime] IN
           /\ s.status = outcome /\ s.origin = r.origin /\ s.claim = Released(r.claim)
           /\ s.attempt = r.attempt /\ s.cancel = r.cancel
           /\ s.remote.run = r.remote.run /\ s.remote.grace = r.remote.grace
           /\ s.remote.reason = r.remote.reason
<1> DEFINE f == Finished(r, outcome)
<1>1. /\ f.status = outcome /\ f.origin = r.origin /\ f.claim = Released(r.claim)
      /\ f.attempt = r.attempt /\ f.remote = r.remote /\ f.cancel = r.cancel
      /\ IsRecord(f)
  BY FinishedParts
<1>2. r.remote \in Remote
  BY DEF Row
<1> HIDE DEF f
<1>3. LET s == [f EXCEPT !.remote.retry = NoTime] IN
      /\ s.status = f.status /\ s.origin = f.origin /\ s.claim = f.claim
      /\ s.attempt = f.attempt /\ s.cancel = f.cancel
      /\ s.remote = [f.remote EXCEPT !.retry = NoTime]
  BY <1>1 DEF IsRecord, Fields
<1>4. LET m == [r.remote EXCEPT !.retry = NoTime] IN
      m.run = r.remote.run /\ m.grace = r.remote.grace /\ m.reason = r.remote.reason
  BY <1>2 DEF Remote
<1> QED
  BY <1>1, <1>3, <1>4 DEF f

\* A row that is queued again has no claim and no run.
LEMMA RequeuedParts ==
    ASSUME NEW r \in Row
    PROVE  LET s == Requeued(r) IN
           /\ s.status = "pending" /\ SameTask(r, s) /\ s.remote = NoRemote
           /\ s.cancel = r.cancel
           /\ s.claim.token = 0 /\ s.claim.by = NoWorker
           /\ s.claim.issued = r.claim.issued
BY DEF Requeued, Released, SameTask, Row, Claim, Attempt

\* A row that goes into reconciliation keeps its run, and its deadline if any.
LEMMA ToReconciliationParts ==
    ASSUME NEW r \in Row, NEW wait, NEW exceeded
    PROVE  LET s == ToReconciliation(r, wait, exceeded) IN
           /\ s.status = "reconciling" /\ SameTask(r, s)
           /\ s.claim = Released(r.claim) /\ s.attempt = r.attempt /\ s.cancel = r.cancel
           /\ s.remote.run = r.remote.run
           /\ r.remote.grace # NoTime => s.remote.grace = r.remote.grace
BY DEF ToReconciliation, Sought, SameTask, Row, Remote

\* A planner's claim is none of the parts that execution is about.
LEMMA PlannerParts ==
    ASSUME NEW r \in Row, NEW outcome
    PROVE  \A s \in {FinishedPlanning(r, outcome), ReturnedToPlanner(r), Planned(r),
                     PlanningClaimed(r)} :
           s.claim = r.claim /\ s.attempt = r.attempt /\ s.remote = r.remote
           /\ s.origin = r.origin /\ s.cancel = r.cancel
<1> DEFINE q == [r EXCEPT !.status = outcome, !.planner = PlannerReleased(@)]
<1>1. /\ q.claim = r.claim /\ q.attempt = r.attempt /\ q.remote = r.remote
      /\ q.origin = r.origin /\ q.cancel = r.cancel /\ IsRecord(q)
  BY RowIsRecord DEF IsRecord, Fields
<1>2. FinishedPlanning(r, outcome) = EnqueueNotification(q)
  BY DEF FinishedPlanning
<1> HIDE DEF q
<1>3. LET s == FinishedPlanning(r, outcome) IN
      /\ s.claim = r.claim /\ s.attempt = r.attempt /\ s.remote = r.remote
      /\ s.origin = r.origin /\ s.cancel = r.cancel
  BY <1>1, <1>2, EnqueuedParts
<1>4. \A s \in {ReturnedToPlanner(r), Planned(r), PlanningClaimed(r)} :
      /\ s.claim = r.claim /\ s.attempt = r.attempt /\ s.remote = r.remote
      /\ s.origin = r.origin /\ s.cancel = r.cancel
  BY DEF ReturnedToPlanner, Planned, PlanningClaimed, Row
<1> QED
  BY <1>3, <1>4

\* What becomes of a lapsed claim without a run.
LEMMA LapsedParts ==
    ASSUME NEW r \in Row
    PROVE  LET s == Lapsed(r) IN
           /\ s.status \in {"pending", "cancelled", "timed_out"}
           /\ r.status = "cancel_requested" <=> s.status = "cancelled"
           /\ s.status = "pending" => r.attempt.count < MaxAttempts /\ s.claim.by = NoWorker
           /\ s.status # "pending" => s.claim.by = r.claim.by
           /\ SameTask(r, s) /\ s.cancel = r.cancel
           /\ s.claim.token = 0 /\ s.claim.issued = r.claim.issued
           /\ s.remote \in {NoRemote, r.remote}
<1> DEFINE q == Requeued(r)
           d == Finished(r, "cancelled")
           o == Finished(r, "timed_out")
<1>1. q.status = "pending" /\ SameTask(r, q) /\ q.remote = NoRemote /\ q.cancel = r.cancel
      /\ q.claim.token = 0 /\ q.claim.by = NoWorker /\ q.claim.issued = r.claim.issued
  BY RequeuedParts
<1>2. Released(r.claim).token = 0 /\ Released(r.claim).by = r.claim.by
      /\ Released(r.claim).issued = r.claim.issued
  BY ReleasedParts DEF Row
<1>3. d.status = "cancelled" /\ SameTask(r, d) /\ d.remote = r.remote
      /\ d.claim = Released(r.claim) /\ d.cancel = r.cancel
  BY FinishedParts DEF SameTask
<1>4. o.status = "timed_out" /\ SameTask(r, o) /\ o.remote = r.remote
      /\ o.claim = Released(r.claim) /\ o.cancel = r.cancel
  BY FinishedParts DEF SameTask
<1>5. \/ r.status = "cancel_requested" /\ Lapsed(r) = d
      \/ r.status # "cancel_requested" /\ r.attempt.count < MaxAttempts /\ Lapsed(r) = q
      \/ r.status # "cancel_requested" /\ Lapsed(r) = o
  BY DEF Lapsed
<1> HIDE DEF q, d, o
<1> QED
  BY <1>1, <1>2, <1>3, <1>4, <1>5

\* What maintenance makes of a row under execution.  If the claim has lapsed it
\* is released; the run, if there is one, is kept and has to be asked about.
Swept(r, m) ==
    /\ Past(r.attempt.budget) \/ Past(r.claim.lease)
    /\ SameTask(r, m) /\ m.cancel = r.cancel
    /\ m.claim.token = 0 /\ m.claim.issued = r.claim.issued
    /\ \/ /\ m.status \in {"reconciling", "timed_out"}
          /\ r.remote.run # NoRun /\ m.remote.run = r.remote.run
          /\ m.claim.by = r.claim.by
          /\ r.remote.grace # NoTime => m.remote.grace = r.remote.grace
       \/ /\ r.remote.run = NoRun
          /\ m.status \in {"pending", "cancelled", "timed_out"}
          /\ r.status = "cancel_requested" <=> m.status = "cancelled"
          /\ m.status = "pending" => r.attempt.count < MaxAttempts /\ m.claim.by = NoWorker
          /\ m.status # "pending" => m.claim.by = r.claim.by
          /\ m.remote \in {NoRemote, r.remote}

\* What maintenance makes of any other row.
Kept(r, m) ==
    /\ r.status \notin Active
    /\ SameTask(r, m) /\ m.cancel = r.cancel
    /\ m.claim.token = r.claim.token /\ m.claim.by = r.claim.by
    /\ m.claim.issued = r.claim.issued
    /\ m.remote.run = r.remote.run /\ m.remote.grace = r.remote.grace
    /\ \/ r.status = "planning" /\ m.status \in {"planning_pending", "timed_out"}
       \/ r.status = "reconciling" /\ m.status = "timed_out"

\* The last sweep changes rows in reconciliation only, and settles them.
LEMMA ExpireReconciliationParts ==
    ASSUME NEW r \in Row
    PROVE  LET s == ExpireReconciliation(r) IN
           \/ s = r
           \/ /\ r.status = "reconciling" /\ s.status = "timed_out" /\ SameTask(r, s)
              /\ s.claim = Released(r.claim) /\ s.cancel = r.cancel
              /\ s.remote.run = r.remote.run /\ s.remote.grace = r.remote.grace
BY WithoutRetryParts DEF ExpireReconciliation, SameTask

\* Maintenance leaves a row as it is, sweeps a lapsed claim, or ends planning or
\* reconciliation.
LEMMA MaintainedParts ==
    ASSUME NEW r, RowInv(r)
    PROVE  LET m == MaintainedRow(r) IN
           \/ m = r
           \/ r.status \in Active /\ Swept(r, m)
           \/ Kept(r, m)
<1> DEFINE p == ExpirePlanning(r)
           l == ExpireLease(p)
           m == MaintainedRow(r)
<1>0. r \in Row /\ r.claim \in Claim
  BY DEF RowInv, Row
<1>1. m = ExpireReconciliation(l)
  BY DEF MaintainedRow
<1>2. CASE r.status = "planning"
  <2>1. \/ p = r
        \/ p = ReturnedToPlanner(r) /\ p.status = "planning_pending"
        \/ p = FinishedPlanning(r, "timed_out") /\ p.status = "timed_out"
    <3>1. ReturnedToPlanner(r).status = "planning_pending"
      BY <1>0 DEF ReturnedToPlanner, Row
    <3>2. FinishedPlanning(r, "timed_out").status = "timed_out"
      <4> DEFINE q == [r EXCEPT !.status = "timed_out", !.planner = PlannerReleased(@)]
      <4>1. q.status = "timed_out" /\ IsRecord(q)
        BY <1>0, RowIsRecord DEF IsRecord, Fields
      <4>2. FinishedPlanning(r, "timed_out") = EnqueueNotification(q)
        BY DEF FinishedPlanning
      <4> HIDE DEF q
      <4> QED
        BY <4>1, <4>2, EnqueuedParts
    <3> QED
      BY <3>1, <3>2, Zenon DEF ExpirePlanning
  <2>2. p.status \in {"planning", "planning_pending", "timed_out"}
    BY <1>2, <2>1
  <2>3. l = p /\ m = p
    BY <1>1, <2>2 DEF ExpireLease, ExpireReconciliation
  <2>4. p = r \/ (p.claim = r.claim /\ p.attempt = r.attempt /\ p.remote = r.remote
                  /\ p.origin = r.origin /\ p.cancel = r.cancel)
    BY <1>0, <2>1, PlannerParts
  <2> HIDE DEF p, l, m
  <2> QED
    BY <1>2, <2>1, <2>3, <2>4 DEF Kept, SameTask, m
<1>3. CASE r.status \in Active
  <2>1. p = r
    BY <1>3 DEF ExpirePlanning
  <2>2. CASE ~(Past(r.attempt.budget) \/ Past(r.claim.lease))
    <3>1. l = r
      BY <2>1, <2>2 DEF ExpireLease
    <3> QED
      BY <1>1, <1>3, <3>1 DEF ExpireReconciliation
  <2>3. CASE (Past(r.attempt.budget) \/ Past(r.claim.lease)) /\ CurrentRun(r)
    <3> DEFINE e == Past(r.attempt.budget)
    <3>1. l = ToReconciliation(r, 0, e)
      BY <1>3, <2>1, <2>3 DEF ExpireLease
    <3>0. e \in BOOLEAN
      BY DEF Past
    <3> HIDE DEF e
    <3>2. RowInv(l) /\ r.remote.run # NoRun
      BY <1>3, <2>3, <3>0, <3>1, TimerFacts, ToReconciliationInv DEF CurrentRun
    <3>3. l \in Row /\ l.claim \in Claim
      BY <3>2 DEF RowInv, Row
    <3>4. /\ l.status = "reconciling" /\ SameTask(r, l) /\ l.claim = Released(r.claim)
          /\ l.remote.run = r.remote.run /\ l.cancel = r.cancel
          /\ r.remote.grace # NoTime => l.remote.grace = r.remote.grace
      BY <1>0, <3>1, ToReconciliationParts
    <3>5. /\ Released(r.claim).token = 0 /\ Released(r.claim).by = r.claim.by
          /\ Released(r.claim).issued = r.claim.issued
          /\ Released(l.claim).token = 0 /\ Released(l.claim).by = l.claim.by
          /\ Released(l.claim).issued = l.claim.issued
      BY <1>0, <3>3, ReleasedParts
    <3>6. \/ m = l
          \/ /\ m.status = "timed_out" /\ SameTask(l, m) /\ m.claim = Released(l.claim)
             /\ m.cancel = l.cancel /\ m.remote.run = l.remote.run /\ m.remote.grace = l.remote.grace
      BY <1>1, <3>3, ExpireReconciliationParts
    <3> HIDE DEF l, m
    <3>7. Swept(r, m)
      BY <2>3, <3>2, <3>4, <3>5, <3>6 DEF Swept, SameTask
    <3> QED
      BY <1>3, <3>7 DEF m
  <2>4. CASE (Past(r.attempt.budget) \/ Past(r.claim.lease)) /\ ~CurrentRun(r)
    <3>1. l = Lapsed(r)
      BY <1>3, <2>1, <2>4 DEF ExpireLease
    <3>2. r.remote.run = NoRun
      BY <2>4 DEF RowInv, RunOfThisAttempt, CurrentRun
    <3>3. /\ l.status \in {"pending", "cancelled", "timed_out"}
          /\ r.status = "cancel_requested" <=> l.status = "cancelled"
          /\ l.status = "pending" => r.attempt.count < MaxAttempts /\ l.claim.by = NoWorker
          /\ l.status # "pending" => l.claim.by = r.claim.by
          /\ SameTask(r, l) /\ l.cancel = r.cancel
          /\ l.claim.token = 0 /\ l.claim.issued = r.claim.issued
          /\ l.remote \in {NoRemote, r.remote}
      BY <1>0, <3>1, LapsedParts
    <3>4. m = l
      BY <1>1, <3>3 DEF ExpireReconciliation
    <3> HIDE DEF l, m
    <3>5. Swept(r, m)
      BY <2>4, <3>2, <3>3, <3>4 DEF Swept
    <3> QED
      BY <1>3, <3>5 DEF m
  <2> QED
    BY <2>2, <2>3, <2>4
<1>4. CASE r.status \notin Active \cup {"planning"}
  <2>1. l = r
    BY <1>4 DEF ExpirePlanning, ExpireLease
  <2>2. \/ m = r
        \/ /\ r.status = "reconciling" /\ m.status = "timed_out" /\ SameTask(r, m)
           /\ m.claim = Released(r.claim) /\ m.cancel = r.cancel
           /\ m.remote.run = r.remote.run /\ m.remote.grace = r.remote.grace
    BY <1>0, <1>1, <2>1, ExpireReconciliationParts
  <2>3. /\ Released(r.claim).token = 0 /\ Released(r.claim).by = r.claim.by
        /\ Released(r.claim).issued = r.claim.issued
    BY <1>0, ReleasedParts
  <2>4. r.status \notin Active => r.claim.token = 0
    BY DEF RowInv, HasLiveClaim
  <2> HIDE DEF l, m
  <2> QED
    BY <1>4, <2>2, <2>3, <2>4 DEF Kept, m
<1> QED
  BY <1>2, <1>3, <1>4

-----------------------------------------------------------------------------
(* What a call makes of a row that maintenance has seen to *)

SameClaim(r, s) ==
    s.claim.token = r.claim.token /\ s.claim.by = r.claim.by /\ s.claim.issued = r.claim.issued

\* The claim goes on: a lease is renewed, or the execution starts.
WentOn(m, s) ==
    /\ s.status = m.status \/ (m.status = "claimed" /\ s.status = "running")
    /\ SameTask(m, s) /\ SameClaim(m, s) /\ s.remote = m.remote /\ s.cancel = m.cancel

\* A new claim is granted to w, for a new attempt or for the run of this one.
WasGranted(m, s, w) ==
    /\ s.status = "claimed" /\ s.origin = m.origin /\ s.cancel = m.cancel
    /\ s.claim.by = w /\ s.claim.issued = Append(m.claim.issued, w)
    /\ s.remote.run = m.remote.run
    /\ \/ /\ m.status = "pending" /\ s.attempt.count = m.attempt.count + 1
          /\ m.attempt.count < MaxAttempts
          /\ m.remote.run = NoRun /\ s.remote.grace = NoTime
       \/ /\ m.status = "reconciling" /\ s.attempt.count = m.attempt.count
          /\ m.claim.by = w /\ s.remote.grace = m.remote.grace

\* A run is bound to the attempt.
WasAttached(m, s) ==
    /\ m.status \in {"claimed", "running"} /\ s.status = m.status
    /\ SameTask(m, s) /\ SameClaim(m, s) /\ s.cancel = m.cancel
    /\ s.remote.grace = NoTime

\* The claim is given up to find out what became of the run.
WasParked(m, s) ==
    /\ m.status \in {"claimed", "running"} /\ s.status = "reconciling"
    /\ SameTask(m, s) /\ s.cancel = m.cancel /\ s.claim.token = 0 /\ s.claim.by = m.claim.by
    /\ s.claim.issued = m.claim.issued
    /\ s.remote.run = m.remote.run
    /\ m.remote.grace # NoTime => s.remote.grace = m.remote.grace

\* The execution has an outcome, or is to be tried again.
WasReported(m, s) ==
    /\ SameTask(m, s) /\ s.cancel = m.cancel
    /\ s.claim.token = 0 /\ s.claim.issued = m.claim.issued
    /\ \/ /\ m.status = "running" /\ s.status = "pending" /\ s.claim.by = NoWorker
          /\ m.attempt.count < MaxAttempts /\ s.remote = NoRemote
       \/ /\ \/ m.status = "running" /\ s.status \in Terminal
             \/ m.status = "cancel_requested" /\ s.status = "cancelled"
          /\ s.claim.by = m.claim.by
          /\ s.remote.run = m.remote.run /\ s.remote.grace = m.remote.grace

\* A heartbeat renews the claim or leaves the row alone.
LEMMA RenewedParts ==
    ASSUME NEW m \in Row, NEW w, NEW k
    PROVE  WentOn(m, Renewed(m, w, k))
<1> DEFINE s == [m EXCEPT !.claim.lease = TaskLease]
           named == /\ k # 0
                    /\ m.claim.by = w
                    /\ m.status \in {"claimed", "running"}
                    /\ m.claim.token \in {0, k}
<1>1. /\ s.status = m.status /\ s.origin = m.origin /\ s.attempt = m.attempt
      /\ s.cancel = m.cancel /\ s.remote = m.remote /\ s.claim = [m.claim EXCEPT !.lease = TaskLease]
  BY DEF Row
<1>2. LET c == [m.claim EXCEPT !.lease = TaskLease] IN
      c.token = m.claim.token /\ c.by = m.claim.by /\ c.issued = m.claim.issued
  BY DEF Row, Claim
<1>3. Renewed(m, w, k) = IF named THEN s ELSE m
  BY Zenon DEF Renewed
<1> HIDE DEF s, named
<1>4. WentOn(m, s)
  BY <1>1, <1>2 DEF WentOn, SameTask, SameClaim
<1>5. WentOn(m, m)
  BY DEF WentOn, SameTask, SameClaim
<1> QED
  BY <1>3, <1>4, <1>5

\* A claim opens an attempt, or goes on with the one that lost its run.
LEMMA ClaimedParts ==
    ASSUME NEW m, RowInv(m), NEW w \in Workers,
           m.status = "pending" \/ (m.status = "reconciling" /\ m.attempt.resolved = w)
    PROVE  WasGranted(m, Claimed(m, w), w)
<1>0. m \in Row
  BY DEF RowInv
<1>1. Granted(m.claim, w).by = w /\ Granted(m.claim, w).issued = Append(m.claim.issued, w)
  BY DEF Granted
<1>2. CASE m.status = "pending"
  <2> DEFINE s == ClaimedAnew(m, w)
             n == [NoRemote EXCEPT !.run = m.remote.run, !.attempt = m.remote.attempt]
  <2>1. /\ s.status = "claimed" /\ s.claim = Granted(m.claim, w) /\ s.origin = m.origin
        /\ s.attempt.count = m.attempt.count + 1 /\ s.remote = n /\ s.cancel = m.cancel
    BY <1>0 DEF Row, ClaimedAnew
  <2>2. m.remote.run = NoRun /\ m.attempt.count < MaxAttempts
    BY <1>2 DEF RowInv, Staged, WithinBudget
  <2>3. n.run = m.remote.run /\ n.grace = NoTime
    BY DEF NoRemote
  <2>4. Claimed(m, w) = s
    BY <1>2 DEF Claimed
  <2> HIDE DEF s, n
  <2> QED
    BY <1>1, <1>2, <2>1, <2>2, <2>3, <2>4 DEF WasGranted
<1>3. CASE m.status = "reconciling" /\ m.attempt.resolved = w
  <2> DEFINE s == ClaimedBack(m, w)
  <2>1. /\ s.status = "claimed" /\ s.claim = Granted(m.claim, w) /\ s.origin = m.origin
        /\ s.attempt = m.attempt /\ s.cancel = m.cancel
        /\ s.remote = [m.remote EXCEPT !.retry = NoTime]
    BY <1>0 DEF Row, ClaimedBack
  <2>2. s.remote.run = m.remote.run /\ s.remote.grace = m.remote.grace
    BY <1>0, <2>1 DEF Row, Remote
  <2>3. m.claim.by = w
    BY <1>3 DEF RowInv, Staged
  <2>4. Claimed(m, w) = s
    BY <1>3 DEF Claimed
  <2> HIDE DEF s
  <2> QED
    BY <1>1, <1>3, <2>1, <2>2, <2>3, <2>4 DEF WasGranted
<1> QED
  BY <1>2, <1>3

\* The execution starts.
LEMMA StartedParts ==
    ASSUME NEW m \in Row, m.status = "claimed"
    PROVE  WentOn(m, Started(m))
BY DEF Started, WentOn, SameTask, SameClaim, Row, Attempt

\* A run is bound.
LEMMA AttachedParts ==
    ASSUME NEW m, RowInv(m), NEW w, NEW k, NEW run \in Runs, MayAttach(m, w, k, run)
    PROVE  WasAttached(m, Attached(m, run))
<1> DEFINE s == Attached(m, run)
           n == [NoRemote EXCEPT !.run = run, !.attempt = m.attempt.count,
                                 !.overdue = m.remote.overdue]
<1>0. m \in Row
  BY DEF RowInv
<1>1. /\ s.status = m.status /\ s.origin = m.origin /\ s.claim = m.claim
      /\ s.attempt = m.attempt /\ s.remote = n /\ s.cancel = m.cancel
  BY <1>0 DEF Row, Attached
<1>2. n.run = run /\ n.grace = NoTime
  BY DEF NoRemote
<1>3. m.status \in {"claimed", "running"}
  BY DEF MayAttach
<1> HIDE DEF s, n
<1>4. WasAttached(m, s)
  BY <1>1, <1>2, <1>3 DEF WasAttached, SameTask, SameClaim
<1> QED
  BY <1>4 DEF s

\* The claim is given up with its run unresolved.
LEMMA ParkedParts ==
    ASSUME NEW m \in Row, NEW w, NEW k, NEW exceeded, MayReconcile(m, w, k, exceeded)
    PROVE  WasParked(m, ToReconciliation(m, ReconciliationBackoff, exceeded))
BY ToReconciliationParts, ReleasedParts DEF WasParked, MayReconcile, Row

\* A result is stored, or leads back to the queue.
LEMMA ReportedParts ==
    ASSUME NEW m, RowInv(m), NEW w, NEW k, NEW run, NEW outcome \in Terminal,
           NEW retryable \in BOOLEAN, MayReport(m, w, k, run, outcome)
    PROVE  WasReported(m, Reported(m, outcome, retryable))
<1> DEFINE again == /\ m.status # "cancel_requested"
                    /\ outcome = "failed" /\ retryable
                    /\ m.attempt.count < MaxAttempts
           s == Reported(m, outcome, retryable)
           f == [Finished(m, outcome) EXCEPT !.remote.retry = NoTime]
<1>0. m \in Row /\ m.claim \in Claim
  BY DEF RowInv, Row
<1>1. \/ m.status = "running"
      \/ m.status = "cancel_requested" /\ outcome = "cancelled"
  BY DEF MayReport, RequireClaim, RowInv, HasLiveClaim
<1>2. s = IF again THEN Requeued(m) ELSE f
  BY Zenon DEF Reported
<1>3. /\ Requeued(m).status = "pending" /\ SameTask(m, Requeued(m))
      /\ Requeued(m).remote = NoRemote /\ Requeued(m).claim.token = 0
      /\ Requeued(m).cancel = m.cancel
      /\ Requeued(m).claim.by = NoWorker /\ Requeued(m).claim.issued = m.claim.issued
  BY <1>0, RequeuedParts
<1>4. /\ f.status = outcome /\ SameTask(m, f) /\ f.claim = Released(m.claim)
      /\ f.cancel = m.cancel
      /\ f.remote.run = m.remote.run /\ f.remote.grace = m.remote.grace
  BY <1>0, WithoutRetryParts DEF SameTask
<1>5. /\ Released(m.claim).token = 0 /\ Released(m.claim).by = m.claim.by
      /\ Released(m.claim).issued = m.claim.issued
  BY <1>0, ReleasedParts
<1>6. again => m.status = "running" /\ m.attempt.count < MaxAttempts
  BY <1>1
<1> HIDE DEF again, s, f
<1>7. WasReported(m, s)
  BY <1>1, <1>2, <1>3, <1>4, <1>5, <1>6 DEF WasReported
<1> QED
  BY <1>7 DEF s

HolderEffect(m, s) ==
    WentOn(m, s) \/ WasAttached(m, s) \/ WasParked(m, s) \/ WasReported(m, s)

Effect(m, s) == HolderEffect(m, s) \/ \E w \in Workers : WasGranted(m, s, w)

\* A call of a worker that holds a claim has one of these effects.
LEMMA ExecutedParts ==
    ASSUME NEW m, RowInv(m), NEW s, Executed(m, s)
    PROVE  HolderEffect(m, s)
<1>0. m \in Row
  BY DEF RowInv
<1>1. PICK w \in Workers : ByHolder(m, s, w)
  BY Zenon DEF Executed
<1>2. CASE \E k : s = Renewed(m, w, k)
  BY <1>0, <1>2, RenewedParts DEF HolderEffect
<1>3. ASSUME NEW k, ByClaim(m, s, w, k)
      PROVE  HolderEffect(m, s)
  <2>1. CASE MayStart(m, w, k) /\ s = Started(m)
    BY <1>0, <2>1, StartedParts DEF HolderEffect, MayStart
  <2>2. CASE \E run \in Runs : MayAttach(m, w, k, run) /\ s = Attached(m, run)
    BY <2>2, AttachedParts DEF HolderEffect
  <2>3. CASE \E exceeded \in BOOLEAN :
                /\ MayReconcile(m, w, k, exceeded)
                /\ s = ToReconciliation(m, ReconciliationBackoff, exceeded)
    BY <1>0, <2>3, ParkedParts, Zenon DEF HolderEffect
  <2>4. CASE \E run \in Runs \cup {NoRun}, outcome \in Terminal, retryable \in BOOLEAN :
                MayReport(m, w, k, run, outcome) /\ s = Reported(m, outcome, retryable)
    <3>1. PICK run \in Runs \cup {NoRun}, outcome \in Terminal, retryable \in BOOLEAN :
                MayReport(m, w, k, run, outcome) /\ s = Reported(m, outcome, retryable)
      BY <2>4
    <3> QED
      BY <3>1, ReportedParts, Zenon DEF HolderEffect
  <2> QED
    BY <1>3, <2>1, <2>2, <2>3, <2>4, Zenon DEF ByClaim
<1> QED
  BY <1>1, <1>2, <1>3, Zenon DEF ByHolder

-----------------------------------------------------------------------------
(* What the other steps make of a row *)

\* Time passes: timers run down and nothing else changes.
LEMMA AgedParts ==
    ASSUME NEW r \in Row
    PROVE  LET s == Aged(r) IN
           /\ s.status = r.status /\ SameTask(r, s) /\ SameClaim(r, s) /\ s.cancel = r.cancel
           /\ s.remote.run = r.remote.run
           /\ s.remote.grace \in {r.remote.grace, Age(r.remote.grace)}
<1>0. r.claim \in Claim /\ r.remote \in Remote /\ r.remote.grace \in Timer
      /\ r.attempt \in Attempt
  BY DEF Row, Remote
<1>1. CASE r.status \in Terminal
  BY <1>0, <1>1 DEF Aged, SameTask, SameClaim, Timer
<1>2. CASE r.status \notin Terminal
  <2> DEFINE s == Aged(r)
             n == [r.remote EXCEPT !.grace = Age(r.remote.grace),
                                   !.retry = Age(r.remote.retry)]
             c == [r.claim EXCEPT !.lease = Age(@)]
             a == [r.attempt EXCEPT !.budget = Age(@)]
  <2>1. /\ s.status = r.status /\ s.origin = r.origin /\ s.cancel = r.cancel
        /\ s.claim = c /\ s.attempt = a /\ s.remote = n
    BY <1>2 DEF Row, Aged
  <2>2. c.token = r.claim.token /\ c.by = r.claim.by /\ c.issued = r.claim.issued
    BY <1>0, AgedClaim
  <2>3. a.count = r.attempt.count
    BY <1>0 DEF Attempt
  <2>4. n.run = r.remote.run /\ n.grace = Age(r.remote.grace)
    BY <1>0 DEF Remote
  <2> HIDE DEF s, n, c, a
  <2>6. s.status = r.status /\ SameTask(r, s) /\ SameClaim(r, s) /\ s.cancel = r.cancel
        /\ s.remote.run = r.remote.run
        /\ s.remote.grace \in {r.remote.grace, Age(r.remote.grace)}
    BY <2>1, <2>2, <2>3, <2>4 DEF SameTask, SameClaim
  <2> QED
    BY <2>6 DEF s
<1> QED
  BY <1>1, <1>2

\* The director's statements and the planner's heartbeat.
WasStated(r, s) ==
    \/ r.status = "absent" /\ \E q \in Requests, rank \in Int : s = Created(q, rank)
    \/ /\ SameTask(r, s) /\ SameClaim(r, s)
       /\ s.remote.run = r.remote.run /\ s.remote.grace = r.remote.grace
       /\ \/ /\ s.status = r.status /\ s.cancel \in {r.cancel, TRUE}
             /\ r.status = "absent" => s.cancel = r.cancel
          \/ /\ r.status \in {"planning_pending", "planning", "pending"}
             /\ s.status = "cancelled" /\ s.cancel = TRUE
          \/ r.status \in Active /\ s.status = "cancel_requested" /\ s.cancel = TRUE

\* A cancellation settles a row that waits, and marks one that is executed.
LEMMA CancelledParts ==
    ASSUME NEW r \in Row, r.status \notin Terminal \cup {"absent"}
    PROVE  WasStated(r, CancelledRow(r))
<1> DEFINE c == [r EXCEPT !.cancel = TRUE, !.planner = PlannerReleased(@)]
           x == [c EXCEPT !.status = "cancelled"]
           y == [c EXCEPT !.remote.retry = 0]
           z == [c EXCEPT !.status = "cancel_requested"]
<1>0. r.remote \in Remote
  BY DEF Row
<1>1. /\ c.status = r.status /\ c.origin = r.origin /\ c.claim = r.claim
      /\ c.attempt = r.attempt /\ c.remote = r.remote /\ c.cancel = TRUE /\ IsRecord(c)
  BY RowIsRecord DEF IsRecord, Fields
<1>2. CancelledRow(r) =
          CASE r.status \in {"planning_pending", "planning", "pending"} -> EnqueueNotification(x)
            [] r.status = "reconciling" -> y
            [] OTHER -> z
  BY Zenon DEF CancelledRow
<1> HIDE DEF c
<1>3. /\ x.status = "cancelled" /\ x.origin = c.origin /\ x.claim = c.claim
      /\ x.attempt = c.attempt /\ x.remote = c.remote /\ x.cancel = TRUE /\ IsRecord(x)
  BY <1>1 DEF IsRecord, Fields
<1>4. /\ z.status = "cancel_requested" /\ z.origin = c.origin /\ z.claim = c.claim
      /\ z.attempt = c.attempt /\ z.remote = c.remote /\ z.cancel = TRUE
  BY <1>1 DEF IsRecord, Fields
<1>5. /\ y.status = c.status /\ y.origin = c.origin /\ y.claim = c.claim
      /\ y.attempt = c.attempt /\ y.remote = [c.remote EXCEPT !.retry = 0] /\ y.cancel = TRUE
  BY <1>1 DEF IsRecord, Fields
<1>6. y.remote.run = r.remote.run /\ y.remote.grace = r.remote.grace
  BY <1>0, <1>1, <1>5 DEF Remote
<1> HIDE DEF x, y, z
<1>7. LET e == EnqueueNotification(x) IN
      /\ e.status = "cancelled" /\ e.origin = r.origin /\ e.claim = r.claim
      /\ e.attempt = r.attempt /\ e.remote = r.remote /\ e.cancel = TRUE
  BY <1>1, <1>3, EnqueuedParts
<1>8. CASE r.status \in {"planning_pending", "planning", "pending"}
  BY <1>2, <1>7, <1>8 DEF WasStated, SameTask, SameClaim
<1>9. CASE r.status = "reconciling"
  BY <1>1, <1>2, <1>5, <1>6, <1>9 DEF WasStated, SameTask, SameClaim
<1>10. CASE r.status \in Active
  BY <1>1, <1>2, <1>4, <1>10 DEF WasStated, SameTask, SameClaim
<1> QED
  BY <1>8, <1>9, <1>10 DEF Row, Status

\* What a statement that runs without maintenance does.
LEMMA StatedParts ==
    ASSUME NEW r \in Row, NEW s, Stated(r, s)
    PROVE  WasStated(r, s)
<1>1. CASE r.status = "absent" /\ \E q \in Requests, rank \in Int : s = Created(q, rank)
  BY <1>1, Zenon DEF WasStated
<1>2. CASE r.status \notin Terminal \cup {"absent"} /\ s = CancelledRow(r)
  BY <1>2, CancelledParts
<1>3. CASE s = [r EXCEPT !.outbox.acked = TRUE]
  BY <1>3 DEF WasStated, SameTask, SameClaim, Row
<1>4. CASE s = [r EXCEPT !.planner.lease = PlannerLease]
  BY <1>4 DEF WasStated, SameTask, SameClaim, Row
<1> QED
  BY <1>1, <1>2, <1>3, <1>4, Zenon DEF Stated

\* What a planner's call does: claim, attempt and run are not its business.
WasPlanned(m, s) ==
    /\ s.claim = m.claim /\ s.attempt = m.attempt /\ s.remote = m.remote
    /\ s.origin = m.origin /\ s.cancel = m.cancel
    /\ \/ m.status = "planning_pending" /\ s.status = "planning"
       \/ /\ m.status = "planning"
          /\ s.status \in {"pending", "planning_pending", "failed", "timed_out"}

\* The statuses that a planner's call leads to.
LEMMA PlannedParts ==
    ASSUME NEW m \in Row, NEW s, PlannedBy(m, s)
    PROVE  WasPlanned(m, s)
<1>1. /\ PlanningClaimed(m).status = "planning"
      /\ Planned(m).status = "pending"
      /\ ReturnedToPlanner(m).status = "planning_pending"
  BY DEF PlanningClaimed, Planned, ReturnedToPlanner, Row
<1>2. ASSUME NEW outcome PROVE FinishedPlanning(m, outcome).status = outcome
  <2> DEFINE q == [m EXCEPT !.status = outcome, !.planner = PlannerReleased(@)]
  <2>1. q.status = outcome /\ IsRecord(q)
    BY RowIsRecord DEF IsRecord, Fields
  <2>2. FinishedPlanning(m, outcome) = EnqueueNotification(q)
    BY DEF FinishedPlanning
  <2> HIDE DEF q
  <2> QED
    BY <2>1, <2>2, EnqueuedParts
<1>3. CASE m.status = "planning_pending" /\ s = PlanningClaimed(m)
  BY <1>1, <1>3, PlannerParts DEF WasPlanned
<1>4. CASE m.status = "planning" /\ s = Planned(m)
  BY <1>1, <1>4, PlannerParts DEF WasPlanned
<1>5. CASE \E outcome \in {"failed", "timed_out"}, retryable \in BOOLEAN :
              m.status = "planning" /\ s = PlanningFailed(m, outcome, retryable)
  <2>1. PICK outcome \in {"failed", "timed_out"} :
            m.status = "planning"
            /\ (s = ReturnedToPlanner(m) \/ s = FinishedPlanning(m, outcome))
    BY <1>5, Zenon DEF PlanningFailed
  <2> QED
    BY <1>1, <1>2, <2>1, PlannerParts DEF WasPlanned
<1> QED
  BY <1>3, <1>4, <1>5, Zenon DEF PlannedBy

-----------------------------------------------------------------------------
(* The properties of a step *)

\* What any step makes of a row, in one place.
Moved(r, s) ==
    \/ s = r
    \/ /\ s.status = r.status /\ SameTask(r, s) /\ SameClaim(r, s) /\ s.cancel = r.cancel
       /\ s.remote.run = r.remote.run
       /\ s.remote.grace \in {r.remote.grace, Age(r.remote.grace)}
    \/ WasStated(r, s)
    \/ \E m : /\ RowInv(m)
              /\ m = r \/ (r.status \in Active /\ Swept(r, m)) \/ Kept(r, m)
              /\ s = m \/ Effect(m, s) \/ WasPlanned(m, s)

\* A RowStep is such a step.
LEMMA StepParts ==
    ASSUME NEW r, RowInv(r), NEW s, RowStep(r, s)
    PROVE  Moved(r, s)
<1> DEFINE m == MaintainedRow(r)
<1>0. r \in Row
  BY DEF RowInv
<1>1. m = r \/ (r.status \in Active /\ Swept(r, m)) \/ Kept(r, m)
  BY MaintainedParts
<1>2. RowInv(m)
  BY MaintainedInv
<1>3. m \in Row
  BY <1>2 DEF RowInv
<1> HIDE DEF m
<1>4. CASE s = m
  BY <1>1, <1>2, <1>4, Zenon DEF Moved
<1>5. CASE Executed(m, s)
  BY <1>1, <1>2, <1>5, ExecutedParts, Zenon DEF Moved, Effect
<1>6. CASE PlannedBy(m, s)
  BY <1>1, <1>2, <1>3, <1>6, PlannedParts, Zenon DEF Moved
<1>7. CASE s = r
  BY <1>7 DEF Moved
<1>8. CASE s = Aged(r)
  BY <1>0, <1>8, AgedParts DEF Moved
<1>9. CASE Stated(r, s)
  BY <1>0, <1>9, StatedParts DEF Moved
<1>10. ASSUME NEW w \in Workers, ByClaimant(m, s, w)
       PROVE  Moved(r, s)
  BY <1>1, <1>2, <1>10, ClaimedParts, Zenon DEF Moved, Effect, ByClaimant
<1> QED
  BY <1>4, <1>5, <1>6, <1>7, <1>8, <1>9, <1>10, Zenon DEF RowStep, QuietStep, m

\* A claim that maintenance did not sweep is not granted again.
LEMMA MovedSupersedes ==
    ASSUME NEW r, RowInv(r), NEW s, Moved(r, s)
    PROVE  SupersededOnlyLate(r, s)
<1> SUFFICES ASSUME r.claim.token # 0, s.claim.token \notin {0, r.claim.token}
             PROVE  Past(r.claim.lease) \/ Past(r.attempt.budget)
  BY DEF SupersededOnlyLate
<1>1. r.status \in Active
  BY DEF RowInv, HasLiveClaim
<1>2. ~(s = r) /\ ~(SameTask(r, s) /\ SameClaim(r, s)) /\ ~WasStated(r, s)
  BY <1>1 DEF SameClaim, WasStated
<1>3. PICK m : /\ RowInv(m)
               /\ m = r \/ (r.status \in Active /\ Swept(r, m)) \/ Kept(r, m)
               /\ s = m \/ Effect(m, s) \/ WasPlanned(m, s)
  BY <1>2, Zenon DEF Moved
<1>4. m = r \/ Swept(r, m)
  BY <1>1, <1>3 DEF Kept
<1>5. m # r
  <2>1. ASSUME m = r, Effect(r, s) PROVE FALSE
    BY <1>1, <2>1 DEF Effect, HolderEffect, WentOn, WasGranted, WasAttached, WasParked, WasReported, SameClaim
  <2> QED
    BY <1>1, <1>3, <2>1 DEF WasPlanned
<1> QED
  BY <1>4, <1>5 DEF Swept

\* What GraceOnlyRunsDown allows, by the way it happens.
LEMMA GraceWays ==
    ASSUME NEW r, NEW s,
           \/ s.remote.grace = r.remote.grace
           \/ s.remote = NoRemote
           \/ s.remote.run = NoRun /\ s.remote.grace = NoTime
           \/ WasAttached(r, s) /\ r.claim.token # 0
    PROVE  GraceOnlyRunsDown(r, s)
BY DEF GraceOnlyRunsDown, WasAttached, SameClaim, NoRemote

\* Neither maintenance nor a call that follows it puts the deadline off.
LEMMA TreatedGrace ==
    ASSUME NEW r, RowInv(r), NEW m, RowInv(m),
           m = r \/ (r.status \in Active /\ Swept(r, m)) \/ Kept(r, m),
           NEW s, s = m \/ Effect(m, s) \/ WasPlanned(m, s)
    PROVE  GraceOnlyRunsDown(r, s)
<1>1. \/ m = r
      \/ /\ m.status \in {"reconciling", "timed_out", "pending", "cancelled", "planning_pending"}
         /\ r.remote.grace # NoTime
               => m.remote.grace = r.remote.grace \/ m.remote = NoRemote
  BY DEF Swept, Kept
<1>2. CASE s = m \/ WasPlanned(m, s) \/ WentOn(m, s)
  <2>1. s.remote = m.remote
    BY <1>2 DEF WasPlanned, WentOn
  <2> QED
    BY <1>1, <2>1, GraceWays DEF GraceOnlyRunsDown
<1>3. CASE WasAttached(m, s)
  <2>1. m = r
    BY <1>1, <1>3 DEF WasAttached
  <2>2. r.claim.token # 0
    BY <1>3, <2>1 DEF WasAttached, RowInv, HasLiveClaim
  <2> QED
    BY <1>3, <2>1, <2>2, GraceWays
<1>4. CASE WasParked(m, s)
  <2>1. m = r
    BY <1>1, <1>4 DEF WasParked
  <2> QED
    BY <1>4, <2>1 DEF WasParked, GraceOnlyRunsDown
<1>5. CASE WasReported(m, s)
  <2>1. m = r
    BY <1>1, <1>5 DEF WasReported, Terminal
  <2> QED
    BY <1>5, <2>1, GraceWays DEF WasReported
<1>6. ASSUME NEW w \in Workers, WasGranted(m, s, w)
      PROVE  GraceOnlyRunsDown(r, s)
  <2>1. \/ s.remote.run = NoRun /\ s.remote.grace = NoTime
        \/ m.status = "reconciling" /\ s.remote.grace = m.remote.grace
    BY <1>6 DEF WasGranted
  <2>2. m.status = "reconciling" => m.remote.run # NoRun
    BY DEF RowInv, CanLeaveReconciliation
  <2>3. m.remote = NoRemote => m.remote.run = NoRun
    BY DEF NoRemote
  <2> QED
    BY <1>1, <2>1, <2>2, <2>3, GraceWays DEF GraceOnlyRunsDown
<1> QED
  BY <1>2, <1>3, <1>4, <1>5, <1>6, Zenon DEF Effect, HolderEffect

\* The deadline of a lost run comes nearer, or goes with its attempt, or with the
\* loss itself, when a run is bound.
LEMMA MovedGrace ==
    ASSUME NEW r, RowInv(r), NEW s, Moved(r, s)
    PROVE  GraceOnlyRunsDown(r, s)
<1>1. ASSUME NEW q, NEW rank PROVE Created(q, rank).remote = NoRemote
  BY DEF Created, Absent
<1>2. CASE WasStated(r, s)
  <2>1. s.remote = NoRemote \/ s.remote.grace = r.remote.grace
    BY <1>1, <1>2, Zenon DEF WasStated
  <2> QED
    BY <2>1, GraceWays
<1>3. CASE s = r \/ s.remote.grace \in {r.remote.grace, Age(r.remote.grace)}
  BY <1>3 DEF GraceOnlyRunsDown
<1> QED
  BY <1>2, <1>3, TreatedGrace, Zenon DEF Moved

\* A pending cancellation leaves a row only as cancelled, or with its run unresolved.
LEMMA MovedCancel ==
    ASSUME NEW r, RowInv(r), NEW s, Moved(r, s)
    PROVE  CancelNotOvertaken(r, s)
<1> SUFFICES ASSUME r.status = "cancel_requested"
             PROVE  \/ s.status \in {"cancel_requested", "cancelled"}
                    \/ s.status \in {"reconciling", "timed_out"} /\ r.remote.run # NoRun
                    \/ s.status = "claimed" /\ r.remote.run # NoRun
                       /\ s.remote.run = r.remote.run
  BY DEF CancelNotOvertaken
<1>1. CASE WasStated(r, s)
  BY <1>1 DEF WasStated
<1>2. ASSUME NEW m, m = r \/ (r.status \in Active /\ Swept(r, m)) \/ Kept(r, m),
             s = m \/ Effect(m, s) \/ WasPlanned(m, s)
      PROVE  \/ s.status \in {"cancel_requested", "cancelled"}
             \/ s.status \in {"reconciling", "timed_out"} /\ r.remote.run # NoRun
             \/ s.status = "claimed" /\ r.remote.run # NoRun /\ s.remote.run = r.remote.run
  <2>1. \/ m.status \in {"cancel_requested", "cancelled"}
        \/ /\ m.status \in {"reconciling", "timed_out"} /\ r.remote.run # NoRun
           /\ m.remote.run = r.remote.run
    BY <1>2 DEF Swept, Kept
  <2>2. \/ s.status = m.status /\ (s = m \/ Effect(m, s))
        \/ m.status = "cancel_requested" /\ s.status = "cancelled"
        \/ m.status = "reconciling" /\ s.status = "claimed" /\ s.remote.run = m.remote.run
    BY <1>2, <2>1 DEF Effect, HolderEffect, WentOn, WasGranted, WasAttached, WasParked, WasReported, WasPlanned
  <2> QED
    BY <2>1, <2>2
<1> QED
  BY <1>1, <1>2, Zenon DEF Moved

\* In one step, all rows at once.
LEMMA StepProperties ==
    ASSUME IInv, [Next]_vars
    PROVE  /\ \A t \in Tasks : SupersededOnlyLate(tasks[t], tasks'[t])
           /\ \A t \in Tasks : GraceOnlyRunsDown(tasks[t], tasks'[t])
           /\ \A t \in Tasks : CancelNotOvertaken(tasks[t], tasks'[t])
<1>1. \A t \in Tasks : RowInv(tasks[t])
  BY DEF IInv
<1>2. \A t \in Tasks : Moved(tasks[t], tasks'[t])
  BY <1>1, StepsByRow, StepParts, Zenon DEF AllSteps
<1> QED
  BY <1>1, <1>2, MovedSupersedes, MovedGrace, MovedCancel

-----------------------------------------------------------------------------
(* The theorems *)

\* A claim is superseded only after its lease or its execution budget ran out:
\* no call of another worker, planner or director takes a task from a worker
\* whose lease is good.
THEOREM ClaimsAreNotStolen == Spec => LeaseIsExclusive
<1>1. IInv /\ [Next]_vars
          => [\A t \in Tasks : SupersededOnlyLate(tasks[t], tasks'[t])]_vars
  BY StepProperties
<1> QED
  BY <1>1, Inductive, PTL DEF Spec, LeaseIsExclusive

\* The deadline of a lost run is never put off, and goes only when the holder of
\* the live claim binds a run or the attempt is given up.
THEOREM GraceRunsDown == Spec => GraceIsNotRenewed
<1>1. IInv /\ [Next]_vars
          => [\A t \in Tasks : GraceOnlyRunsDown(tasks[t], tasks'[t])]_vars
  BY StepProperties
<1> QED
  BY <1>1, Inductive, PTL DEF Spec, GraceIsNotRenewed

\* A pending cancellation is not overtaken by success, failure or a retry.
THEOREM CancellationsStand == Spec => CancelRequestHonoured
<1>1. IInv /\ [Next]_vars
          => [\A t \in Tasks : CancelNotOvertaken(tasks[t], tasks'[t])]_vars
  BY StepProperties
<1> QED
  BY <1>1, Inductive, PTL DEF Spec, CancelRequestHonoured

-----------------------------------------------------------------------------
(* The clock of an execution: started_at is written once, so every attempt    *)
(* has what the earlier ones left, and maintenance, which every call that     *)
(* executes runs first, takes the task from a worker whose time is over.      *)

\* Going back to the queue does not give the task more time.
LEMMA RequeuedClock ==
    ASSUME NEW r \in Row
    PROVE  Requeued(r).attempt.budget = r.attempt.budget
BY DEF Requeued, Row, Attempt

\* Nor does any way out of a lapsed claim; without time it settles the task.
LEMMA LapsedClock ==
    ASSUME NEW r \in Row
    PROVE  LET s == Lapsed(r) IN
           /\ s.attempt.budget = r.attempt.budget
           /\ Past(r.attempt.budget) => s.status \in {"cancelled", "timed_out"}
<1>1. Requeued(r).attempt.budget = r.attempt.budget
  BY RequeuedClock
<1>2. \A o \in Terminal : Finished(r, o).attempt = r.attempt /\ Finished(r, o).status = o
  BY FinishedParts
<1>3. \/ Lapsed(r) = Requeued(r) /\ ~Past(r.attempt.budget)
      \/ Lapsed(r) = Finished(r, "cancelled")
      \/ Lapsed(r) = Finished(r, "timed_out")
  BY DEF Lapsed
<1> QED
  BY <1>1, <1>2, <1>3

\* The lease sweep leaves no row under execution whose time is over.
LEMMA ExpireLeaseClock ==
    ASSUME NEW r \in Row
    PROVE  LET s == ExpireLease(r) IN
           /\ s.attempt.budget = r.attempt.budget
           /\ Past(r.attempt.budget) =>
                  s.status \in ({r.status} \ Active) \cup {"reconciling", "cancelled", "timed_out"}
<1> DEFINE s == ExpireLease(r)
           over == Past(r.attempt.budget)
           a == ToReconciliation(r, 0, over)
           b == Lapsed(r)
<1>1. \/ s = r /\ (over => r.status \notin Active)
      \/ s = a
      \/ s = b
  BY Zenon DEF ExpireLease
<1>2. a.status = "reconciling" /\ a.attempt = r.attempt
  BY ToReconciliationParts
<1>3. b.attempt.budget = r.attempt.budget /\ (over => b.status \in {"cancelled", "timed_out"})
  BY LapsedClock
<1> HIDE DEF s, over, a, b
<1>4. /\ s.attempt.budget = r.attempt.budget
      /\ over => s.status \in ({r.status} \ Active) \cup {"reconciling", "cancelled", "timed_out"}
  BY <1>1, <1>2, <1>3
<1> QED
  BY <1>4 DEF s, over

\* Maintenance does not touch the clock, and neither executes nor queues a task
\* whose time is over.
LEMMA MaintainedClock ==
    ASSUME NEW r, RowInv(r)
    PROVE  LET m == MaintainedRow(r) IN
           /\ m.attempt.budget = r.attempt.budget
           /\ Past(r.attempt.budget) =>
                  m.status \in ({r.status} \ Active) \cup {"reconciling", "cancelled", "timed_out"}
<1> DEFINE p == ExpirePlanning(r)
           l == ExpireLease(p)
           m == MaintainedRow(r)
           f == [Finished(l, "timed_out") EXCEPT !.remote.retry = NoTime]
           over == Past(r.attempt.budget)
<1>1. r \in Row /\ p \in Row /\ l \in Row
  <2>1. RowInv(p) /\ RowInv(l)
    BY ExpirePlanningInv, ExpireLeaseInv
  <2> QED
    BY <2>1 DEF RowInv
<1>2. p.attempt = r.attempt /\ (over => p = r)
  <2>1. p = r \/ (r.status = "planning" /\ p \in {ReturnedToPlanner(r), FinishedPlanning(r, "timed_out")})
    BY Zenon DEF ExpirePlanning
  <2>2. r.status = "planning" => ~over
    BY DEF RowInv, Staged, Past, NoTime
  <2>3. ReturnedToPlanner(r).attempt = r.attempt /\ FinishedPlanning(r, "timed_out").attempt = r.attempt
    BY <1>1, PlannerParts
  <2> HIDE DEF p, over
  <2> QED
    BY <2>1, <2>2, <2>3
<1>3. /\ l.attempt.budget = p.attempt.budget
      /\ Past(p.attempt.budget) =>
             l.status \in ({p.status} \ Active) \cup {"reconciling", "cancelled", "timed_out"}
  BY <1>1, ExpireLeaseClock
<1>4. m = l \/ m = f
  BY Zenon DEF MaintainedRow, ExpireReconciliation
<1>5. f.attempt = l.attempt /\ f.status = "timed_out"
  BY <1>1, WithoutRetryParts
<1>6. over = Past(r.attempt.budget)
  OBVIOUS
<1> HIDE DEF p, l, m, f, over
<1>7. /\ m.attempt.budget = r.attempt.budget
      /\ over => m.status \in ({r.status} \ Active) \cup {"reconciling", "cancelled", "timed_out"}
  BY <1>2, <1>3, <1>4, <1>5, <1>6
<1> QED
  BY <1>6, <1>7 DEF m

\* The director's statements do not touch the clock either.
LEMMA StatedClock ==
    ASSUME NEW r, RowInv(r), NEW s, Stated(r, s)
    PROVE  TimeOnlyRunsDown(r, s)
<1> SUFFICES ASSUME r.attempt.budget # NoTime
             PROVE  /\ s.attempt.budget = r.attempt.budget
                    /\ s.status \in {r.status, "cancelled", "cancel_requested"}
  BY DEF TimeOnlyRunsDown
<1>0. r \in Row /\ r.status # "absent"
  BY DEF RowInv, Staged
<1>1. s.status \in {r.status, "cancelled", "cancel_requested"}
  BY <1>0, StatedParts DEF WasStated
<1>2. CASE s = CancelledRow(r)
  <2> DEFINE c == [r EXCEPT !.cancel = TRUE, !.planner = PlannerReleased(@)]
             x == [c EXCEPT !.status = "cancelled"]
             y == [c EXCEPT !.remote.retry = 0]
             z == [c EXCEPT !.status = "cancel_requested"]
  <2>1. CancelledRow(r) \in {EnqueueNotification(x), y, z}
    BY Zenon DEF CancelledRow
  <2>2. c.attempt = r.attempt /\ IsRecord(c)
    BY <1>0, RowIsRecord DEF IsRecord, Fields
  <2> HIDE DEF c
  <2>3. /\ x.attempt = c.attempt /\ y.attempt = c.attempt /\ z.attempt = c.attempt
        /\ IsRecord(x)
    BY <2>2 DEF IsRecord, Fields
  <2> HIDE DEF x, y, z
  <2>4. EnqueueNotification(x).attempt = x.attempt
    BY <2>3, EnqueuedParts
  <2> QED
    BY <1>1, <1>2, <2>1, <2>2, <2>3, <2>4
<1>3. CASE s = [r EXCEPT !.outbox.acked = TRUE] \/ s = [r EXCEPT !.planner.lease = PlannerLease]
  BY <1>0, <1>1, <1>3 DEF Row
<1> QED
  BY <1>0, <1>2, <1>3, Zenon DEF Stated

\* A call about a claim, on a row whose time is not over, goes on with its clock.
LEMMA ByClaimClock ==
    ASSUME NEW m, RowInv(m), NEW s, NEW w, NEW k, ByClaim(m, s, w, k)
    PROVE  /\ m.status \in Active
           /\ m.attempt.budget # NoTime => s.attempt.budget = m.attempt.budget
<1>0. m \in Row
  BY DEF RowInv
<1>1. CASE MayStart(m, w, k) /\ s = Started(m)
  BY <1>0, <1>1 DEF MayStart, Started, Row, Attempt
<1>2. CASE \E run \in Runs : MayAttach(m, w, k, run) /\ s = Attached(m, run)
  <2>1. PICK run \in Runs : MayAttach(m, w, k, run) /\ s = Attached(m, run)
    BY <1>2
  <2>2. Attached(m, run).attempt = m.attempt
    BY <1>0 DEF Attached, Row
  <2> QED
    BY <2>1, <2>2 DEF MayAttach
<1>3. CASE \E exceeded \in BOOLEAN :
              /\ MayReconcile(m, w, k, exceeded)
              /\ s = ToReconciliation(m, ReconciliationBackoff, exceeded)
  BY <1>0, <1>3, ToReconciliationParts DEF MayReconcile
<1>4. CASE \E run \in Runs \cup {NoRun}, outcome \in Terminal, retryable \in BOOLEAN :
              MayReport(m, w, k, run, outcome) /\ s = Reported(m, outcome, retryable)
  <2>1. PICK run \in Runs \cup {NoRun}, outcome \in Terminal, retryable \in BOOLEAN :
              MayReport(m, w, k, run, outcome) /\ s = Reported(m, outcome, retryable)
    BY <1>4
  <2> DEFINE f == [Finished(m, outcome) EXCEPT !.remote.retry = NoTime]
  <2>2. s = Requeued(m) \/ s = f
    BY <2>1, Zenon DEF Reported
  <2>3. f.attempt = m.attempt
    BY <1>0, WithoutRetryParts
  <2>4. m.status \in Active
    BY <2>1 DEF MayReport, RequireClaim, RowInv, HasLiveClaim
  <2> HIDE DEF f
  <2> QED
    BY <1>0, <2>2, <2>3, <2>4, RequeuedClock
<1> QED
  BY <1>1, <1>2, <1>3, <1>4, Zenon DEF ByClaim

\* What is done to a row after maintenance keeps its clock, and starts, queues
\* or settles it only if there is time left.
LEMMA TreatedClock ==
    ASSUME NEW m, RowInv(m), Past(m.attempt.budget) => m.status \notin Active, NEW s,
           Executed(m, s) \/ PlannedBy(m, s) \/ \E w \in Workers : ByClaimant(m, s, w)
    PROVE  m.attempt.budget # NoTime =>
              /\ s.attempt.budget = m.attempt.budget
              /\ Past(m.attempt.budget) => s.status \in {m.status, "claimed"}
<1> SUFFICES ASSUME m.attempt.budget # NoTime
             PROVE  /\ s.attempt.budget = m.attempt.budget
                    /\ Past(m.attempt.budget) => s.status \in {m.status, "claimed"}
  OBVIOUS
<1>0. m \in Row
  BY DEF RowInv
<1>1. ASSUME NEW w, NEW k, s = Renewed(m, w, k)
      PROVE  s.attempt = m.attempt /\ s.status = m.status
  <2> DEFINE q == [m EXCEPT !.claim.lease = TaskLease]
  <2>1. q.attempt = m.attempt /\ q.status = m.status
    BY <1>0 DEF Row
  <2>2. s = m \/ s = q
    BY <1>1, Zenon DEF Renewed
  <2> HIDE DEF q
  <2> QED
    BY <2>1, <2>2
<1>2. ASSUME NEW w, NEW k, ByClaim(m, s, w, k)
      PROVE  s.attempt.budget = m.attempt.budget /\ ~Past(m.attempt.budget)
  BY <1>2, ByClaimClock
<1>3. CASE Executed(m, s)
  <2>1. \E w, k : s = Renewed(m, w, k) \/ ByClaim(m, s, w, k)
    BY <1>3, Zenon DEF Executed, ByHolder
  <2> QED
    BY <1>1, <1>2, <2>1
<1>4. CASE PlannedBy(m, s)
  BY <1>0, <1>4, PlannedParts DEF WasPlanned, RowInv, Staged
<1>5. CASE \E w \in Workers : ByClaimant(m, s, w)
  <2>1. PICK w \in Workers : s = Claimed(m, w)
    BY <1>5 DEF ByClaimant
  <2>2. /\ ClaimedBack(m, w).attempt.budget = m.attempt.budget
        /\ ClaimedBack(m, w).status = "claimed"
    BY <1>0 DEF ClaimedBack, Row
  <2>3. /\ ClaimedAnew(m, w).attempt.budget = m.attempt.budget
        /\ ClaimedAnew(m, w).status = "claimed"
    BY <1>0 DEF ClaimedAnew, Row, Attempt
  <2> QED
    BY <2>1, <2>2, <2>3, Zenon DEF Claimed
<1> QED
  BY <1>3, <1>4, <1>5

\* No step of the store sets the clock of a task back.
LEMMA StepClock ==
    ASSUME NEW r, RowInv(r), NEW s, RowStep(r, s)
    PROVE  TimeOnlyRunsDown(r, s)
<1> DEFINE m == MaintainedRow(r)
<1>0. r \in Row /\ RowInv(m)
  BY MaintainedInv DEF RowInv
<1>1. /\ m.attempt.budget = r.attempt.budget
      /\ Past(r.attempt.budget) =>
             m.status \in ({r.status} \ Active) \cup {"reconciling", "cancelled", "timed_out"}
  BY MaintainedClock
<1> HIDE DEF m
<1>2. CASE s = r \/ s = m
  BY <1>1, <1>2 DEF TimeOnlyRunsDown
<1>3. CASE s = Aged(r)
  <2>1. s.status = r.status
    BY <1>0, <1>3, AgedParts
  <2>2. s.attempt.budget \in {r.attempt.budget, Age(r.attempt.budget)}
    BY <1>0, <1>3 DEF Aged, Row, Attempt
  <2> QED
    BY <2>1, <2>2 DEF TimeOnlyRunsDown
<1>4. CASE Stated(r, s)
  BY <1>4, StatedClock
<1>5. CASE Executed(m, s) \/ PlannedBy(m, s) \/ \E w \in Workers : ByClaimant(m, s, w)
  <2>1. Past(m.attempt.budget) => m.status \notin Active
    BY <1>1
  <2>2. m.attempt.budget # NoTime =>
           /\ s.attempt.budget = m.attempt.budget
           /\ Past(m.attempt.budget) => s.status \in {m.status, "claimed"}
    BY <1>0, <1>5, <2>1, TreatedClock
  <2> QED
    BY <1>1, <2>2 DEF TimeOnlyRunsDown
<1> QED
  BY <1>2, <1>3, <1>4, <1>5, Zenon DEF RowStep, QuietStep, m

\* Every attempt of a task shares the time of the first one, and a task whose
\* time is over is neither started nor queued again.
THEOREM TimeIsShared == Spec => ExecutionTimeIsShared
<1>1. IInv /\ [Next]_vars => [\A t \in Tasks : TimeOnlyRunsDown(tasks[t], tasks'[t])]_vars
  <2> SUFFICES ASSUME IInv, [Next]_vars
               PROVE  \A t \in Tasks : TimeOnlyRunsDown(tasks[t], tasks'[t])
    OBVIOUS
  <2>1. \A t \in Tasks : RowInv(tasks[t]) /\ RowStep(tasks[t], tasks'[t])
    BY StepsByRow, Zenon DEF IInv, AllSteps
  <2> QED
    BY <2>1, StepClock
<1> QED
  BY <1>1, Inductive, PTL DEF Spec, ExecutionTimeIsShared

-----------------------------------------------------------------------------
(* Several rows: no worker ever holds more tasks than its max_concurrency.  *)
(* Only a claim adds a task to those that a worker holds, and a claim       *)
(* counts them after maintenance, in its own transaction.                   *)

HeldBy(r, w) == r.status \in Active /\ r.claim.by = w

\* Maintenance gives no worker a row.
LEMMA MaintenanceGivesNothing ==
    ASSUME NEW r, RowInv(r), NEW w, HeldBy(MaintainedRow(r), w)
    PROVE  HeldBy(r, w)
<1> DEFINE m == MaintainedRow(r)
<1>1. m = r \/ (r.status \in Active /\ Swept(r, m)) \/ Kept(r, m)
  BY MaintainedParts
<1> HIDE DEF m
<1>2. HeldBy(m, w)
  BY DEF m
<1> QED
  BY <1>1, <1>2 DEF HeldBy, Swept, Kept

\* Nor does any step but a claim.
LEMMA QuietGivesNothing ==
    ASSUME NEW r, RowInv(r), NEW s, QuietStep(r, s), NEW w, HeldBy(s, w)
    PROVE  HeldBy(r, w)
<1> DEFINE m == MaintainedRow(r)
<1>0. r \in Row
  BY DEF RowInv
<1>1. RowInv(m) /\ (HeldBy(m, w) => HeldBy(r, w))
  BY MaintainedInv, MaintenanceGivesNothing
<1> HIDE DEF m
<1>2. m \in Row
  BY <1>1 DEF RowInv
<1>3. CASE s = r \/ s = m
  BY <1>1, <1>3
<1>4. CASE s = Aged(r)
  BY <1>0, <1>4, AgedParts DEF HeldBy, SameClaim
<1>5. CASE Stated(r, s)
  <2>1. WasStated(r, s)
    BY <1>0, <1>5, StatedParts
  <2>2. ASSUME NEW q, NEW rank PROVE Created(q, rank).status \notin Active
    BY DEF Created, Absent
  <2> QED
    BY <2>1, <2>2 DEF WasStated, HeldBy, SameClaim
<1>6. CASE Executed(m, s)
  <2>1. HolderEffect(m, s)
    BY <1>1, <1>6, ExecutedParts
  <2>2. HeldBy(m, w)
    BY <2>1 DEF HolderEffect, WentOn, WasAttached, WasParked, WasReported, HeldBy, SameClaim
  <2> QED
    BY <1>1, <2>2
<1>7. CASE PlannedBy(m, s)
  <2>1. WasPlanned(m, s)
    BY <1>2, <1>7, PlannedParts
  <2> QED
    BY <2>1 DEF WasPlanned, HeldBy
<1> QED
  BY <1>3, <1>4, <1>5, <1>6, <1>7, Zenon DEF QuietStep, m

\* The rows of a worker are a finite set, and fewer rows are no more.
LEMMA FewerRows ==
    ASSUME NEW A, NEW B, A \subseteq B, B \subseteq Tasks
    PROVE  Cardinality(A) <= Cardinality(B) /\ IsFiniteSet(B) /\ Cardinality(B) \in Nat
BY TasksAssumption, FS_Subset, FS_CardinalityType

\* A claim of w adds one row to the rows of w, and takes no notice of others'.
LEMMA ClaimAddsOne ==
    ASSUME IInv, NEW w \in Workers, ClaimTask(w), NEW v \in Workers,
           Cardinality(ActiveTasks(v, tasks)) <= MaxConcurrency[v]
    PROVE  Cardinality(ActiveTasks(v, tasks')) <= MaxConcurrency[v]
<1> DEFINE now == ActiveTasks(v, tasks')
           kept == ActiveTasks(v, Maintained)
           before == ActiveTasks(v, tasks)
<1>0. /\ now \subseteq Tasks /\ kept \subseteq Tasks /\ before \subseteq Tasks
      /\ MaxConcurrency[v] \in Nat
  BY WorkerAssumption DEF ActiveTasks
<1>1. PICK t \in Tasks : /\ ByClaimant(MaintainedRow(tasks[t]), tasks'[t], w)
                         /\ \A u \in Tasks \ {t} : tasks'[u] = MaintainedRow(tasks[u])
  BY ClaimByRow
<1>2. \A u \in Tasks : RowInv(tasks[u]) /\ RowInv(MaintainedRow(tasks[u]))
                       /\ Maintained[u] = MaintainedRow(tasks[u])
  BY MaintainedRows, MaintainedInv DEF IInv
<1>3. tasks'[t].claim.by = w
  BY <1>1, <1>2, ClaimedParts DEF ByClaimant, WasGranted
<1>4. kept \subseteq before
  BY <1>2, MaintenanceGivesNothing DEF ActiveTasks, HeldBy
<1>5. CASE v # w
  <2>1. now \subseteq kept
    BY <1>1, <1>2, <1>3, <1>5 DEF ActiveTasks
  <2> HIDE DEF now, kept, before
  <2>2. now \subseteq before
    BY <1>4, <2>1
  <2>3. Cardinality(now) <= Cardinality(before) /\ Cardinality(before) \in Nat
        /\ Cardinality(now) \in Nat
    BY <1>0, <2>2, FewerRows
  <2> QED
    BY <1>0, <2>3 DEF now, before
<1>6. CASE v = w
  <2>1. now \subseteq kept \cup {t}
    BY <1>1, <1>2 DEF ActiveTasks
  <2>2. Cardinality(kept) < MaxConcurrency[v]
    BY <1>6 DEF ClaimTask
  <2> HIDE DEF now, kept, before
  <2>3. IsFiniteSet(kept) /\ Cardinality(kept) \in Nat
    BY <1>0, FewerRows
  <2>4. /\ IsFiniteSet(kept \cup {t})
        /\ Cardinality(kept \cup {t}) \in {Cardinality(kept), Cardinality(kept) + 1}
    BY <2>3, FS_AddElement, Zenon
  <2>5. Cardinality(now) <= Cardinality(kept \cup {t}) /\ Cardinality(kept \cup {t}) \in Nat
        /\ Cardinality(now) \in Nat
    BY <1>0, <2>1, FewerRows
  <2> QED
    BY <1>0, <2>2, <2>3, <2>4, <2>5 DEF now
<1> QED
  BY <1>5, <1>6

\* A worker never holds more tasks than its max_concurrency, cancellations and
\* runs that were claimed back included.
THEOREM CapacityHolds == Spec => []CapacityRespected
<1> DEFINE CInv == \A w \in Workers : Cardinality(ActiveTasks(w, tasks)) <= MaxConcurrency[w]
<1>1. CInv <=> CapacityRespected
  BY DEF CapacityRespected, ActiveTasks
<1>2. Init => CInv
  <2> SUFFICES ASSUME Init, NEW w \in Workers
               PROVE  Cardinality(ActiveTasks(w, tasks)) <= MaxConcurrency[w]
    OBVIOUS
  <2>1. ActiveTasks(w, tasks) = {}
    BY DEF Init, Absent, ActiveTasks
  <2> QED
    BY <2>1, FS_EmptySet, WorkerAssumption
<1>3. IInv /\ CInv /\ [Next]_vars => CInv'
  <2> SUFFICES ASSUME IInv, CInv, [Next]_vars, NEW v \in Workers
               PROVE  Cardinality(ActiveTasks(v, tasks')) <= MaxConcurrency[v]
    OBVIOUS
  <2>0. Cardinality(ActiveTasks(v, tasks)) <= MaxConcurrency[v]
    OBVIOUS
  <2>1. CASE AllQuiet
    <3>1. ActiveTasks(v, tasks') \subseteq ActiveTasks(v, tasks)
      BY <2>1, QuietGivesNothing DEF AllQuiet, IInv, ActiveTasks, HeldBy
    <3>2. ActiveTasks(v, tasks') \subseteq Tasks /\ ActiveTasks(v, tasks) \subseteq Tasks
      BY DEF ActiveTasks
    <3>3. /\ Cardinality(ActiveTasks(v, tasks')) <= Cardinality(ActiveTasks(v, tasks))
          /\ Cardinality(ActiveTasks(v, tasks)) \in Nat
          /\ Cardinality(ActiveTasks(v, tasks')) \in Nat
          /\ MaxConcurrency[v] \in Nat
      BY <3>1, <3>2, FewerRows, WorkerAssumption
    <3> QED
      BY <2>0, <3>3
  <2>2. ASSUME NEW w \in Workers, ClaimTask(w)
        PROVE  Cardinality(ActiveTasks(v, tasks')) <= MaxConcurrency[v]
    BY <2>0, <2>2, ClaimAddsOne
  <2> QED
    BY <2>1, <2>2, StepsQuiet
<1> HIDE DEF CInv
<1> QED
  BY <1>1, <1>2, <1>3, Inductive, PTL DEF Spec

=============================================================================
