----------------------------- MODULE TaskStore -----------------------------
(***************************************************************************)
(* The coordinator's SQLiteStore: the tasks table with the notification    *)
(* outbox, and the workers table.  A public method is one action.  Most    *)
(* are one BEGIN IMMEDIATE transaction that runs _maintenance first, so    *)
(* their action starts from the Maintained rows; the others change the     *)
(* state of this module by a single guarded statement.                     *)
(* A call the store refuses either rolls back, which is a stuttering step, *)
(* or commits what maintenance did, which is a RunMaintenance step.        *)
(*                                                                         *)
(* Workers and planners talk to the store over HTTP: a call may come late, *)
(* twice or never, from a process that has lost its claim since.  So a     *)
(* worker may present any claim token that was ever issued to it, and a    *)
(* planner any planner token.                                              *)
(***************************************************************************)
EXTENDS TaskRow, FiniteSets

CONSTANTS
    Tasks,              \* task ids
    Requests,           \* create payloads: [planned, chat, priority]
    MaxConcurrency,     \* workers.max_concurrency
    GatewayWorkers,     \* workers whose worker_kind is gateway or unified
    RouteOf,            \* how worker w may take task t, see RouteKinds
    WorkerEviction,     \* worker_eviction_seconds
    MaxClaims           \* bound on the claims of one task that are explored

VARIABLES
    tasks,      \* the tasks table, and the outbox entry of each task
    silence     \* time left before a worker counts as gone; NoTime: not listed

vars == <<tasks, silence>>

\* "route": through a row of worker_routes that names a gateway profile;
\* "capability": through the worker's own capabilities; "none": not at all.
RouteKinds == {"route", "capability", "none"}

ASSUME TasksAssumption == IsFiniteSet(Tasks)
ASSUME RequestAssumption ==
    Requests \subseteq [planned: BOOLEAN, chat: BOOLEAN, priority: Int]
ASSUME WorkerAssumption ==
    /\ GatewayWorkers \subseteq Workers
    /\ RouteOf \in [Workers -> [Tasks -> RouteKinds]]
    /\ MaxConcurrency \in [Workers -> Nat]
    /\ WorkerEviction \in Nat
    /\ MaxClaims \in Nat

-----------------------------------------------------------------------------
(* _maintenance, at the start of a transaction *)

Maintained == [t \in Tasks |-> MaintainedRow(tasks[t])]

Listed == [w \in Workers |-> IF Past(silence[w]) THEN NoTime ELSE silence[w]]

\* A transaction that runs maintenance and then replaces the row of task t.
Transaction(t, r) ==
    /\ tasks' = [Maintained EXCEPT ![t] = r]
    /\ silence' = Listed

RunMaintenance ==
    /\ tasks' = Maintained
    /\ silence' = Listed

-----------------------------------------------------------------------------
(* Workers *)

\* Only the worker's row; its routes are the constant RouteOf.
RegisterWorker(w) ==
    /\ silence' = [silence EXCEPT ![w] = WorkerEviction]
    /\ UNCHANGED tasks

Holds(w, t, k) == k \in DOMAIN tasks[t].claim.issued /\ tasks[t].claim.issued[k] = w

\* The claims a heartbeat may name: for each task one of the worker's own
\* tokens, 0 for a task it does not name.
ClaimsOf(w) ==
    {c \in [Tasks -> 0..MaxClaims] : \A t \in Tasks : c[t] = 0 \/ Holds(w, t, c[t])}

Heartbeat(w, claims) ==
    /\ Listed[w] # NoTime
    /\ tasks' = [t \in Tasks |-> Renewed(Maintained[t], w, claims[t])]
    /\ silence' = [Listed EXCEPT ![w] = WorkerEviction]

-----------------------------------------------------------------------------
(* Execution *)

\* Fault: a claim that is being cancelled does not count against the capacity.
ActiveTasksUncancelled(w, rows) ==
    {t \in Tasks : rows[t].claim.by = w /\ rows[t].status \in {"claimed", "running"}}

ActiveTasks(w, rows) ==
    {t \in Tasks : rows[t].claim.by = w /\ rows[t].status \in Active}

Claimable(r, route, w) ==
    \/ r.status = "pending" /\ route # "none"
    \/ /\ r.status = "reconciling"
       /\ r.remote.run # NoRun
       /\ r.attempt.resolved = w
       /\ w \in GatewayWorkers
       /\ route = "route"
       /\ r.remote.retry = NoTime \/ Reached(r.remote.retry)

\* ORDER BY priority DESC, created_at ASC
Before(r, s) ==
    \/ r.origin.priority > s.origin.priority
    \/ r.origin.priority = s.origin.priority /\ r.origin.born < s.origin.born

FirstOf(S, rows) == {t \in S : \A u \in S : ~Before(rows[u], rows[t])}

ClaimTask(w) ==
    /\ Listed[w] # NoTime
    /\ Cardinality(ActiveTasks(w, Maintained)) < MaxConcurrency[w]
    /\ LET candidates == {t \in Tasks : Claimable(Maintained[t], RouteOf[w][t], w)}
       IN  \E t \in FirstOf(candidates, Maintained) :
             /\ Len(Maintained[t].claim.issued) < MaxClaims    \* exploration bound
             /\ Transaction(t, Claimed(Maintained[t], w))

UpdateTaskStatus(t, w, k) ==
    /\ MayStart(Maintained[t], w, k)
    /\ Transaction(t, Started(Maintained[t]))

AttachRemoteRun(t, w, k, run) ==
    /\ MayAttach(Maintained[t], w, k, run)
    /\ Transaction(t, Attached(Maintained[t], run))

MarkReconciling(t, w, k, exceeded) ==
    /\ MayReconcile(Maintained[t], w, k, exceeded)
    /\ Transaction(t, ToReconciliation(Maintained[t], ReconciliationBackoff, exceeded))

ReportResult(t, w, k, run, outcome, retryable) ==
    /\ MayReport(Maintained[t], w, k, run, outcome)
    /\ Transaction(t, Reported(Maintained[t], outcome, retryable))

-----------------------------------------------------------------------------
(* Planning *)

ClaimPlanningTask ==
    LET waiting == {t \in Tasks : Maintained[t].status = "planning_pending"} IN
    \E t \in FirstOf(waiting, Maintained) :
        Transaction(t, PlanningClaimed(Maintained[t]))

\* The one planner call that runs no maintenance.
ExtendPlanningLease(t, k) ==
    /\ RequirePlannerClaim(tasks[t], k)
    /\ tasks[t].status = "planning"
    /\ tasks' = [tasks EXCEPT ![t].planner.lease = PlannerLease]
    /\ UNCHANGED silence

CompletePlanning(t, k) ==
    /\ Maintained[t].status = "planning"
    /\ RequirePlannerClaim(Maintained[t], k)
    /\ Transaction(t, Planned(Maintained[t]))

FailPlanning(t, k, outcome, retryable) ==
    /\ Maintained[t].status = "planning"
    /\ RequirePlannerClaim(Maintained[t], k)
    /\ Transaction(t, PlanningFailed(Maintained[t], outcome, retryable))

-----------------------------------------------------------------------------
(* Director *)

CreateTask(t, q) ==
    /\ tasks[t].status = "absent"
    /\ tasks' = [tasks EXCEPT ![t] =
                    Created(q, Cardinality({u \in Tasks : tasks[u].status # "absent"}))]
    /\ UNCHANGED silence

\* Fault: a settled task can be cancelled.
CancelSettledTask(t) ==
    /\ tasks[t].status # "absent"
    /\ tasks' = [tasks EXCEPT ![t] = CancelledRow(tasks[t])]
    /\ UNCHANGED silence

\* No maintenance here: the row is read as it is stored.
CancelTask(t) ==
    /\ tasks[t].status \notin Terminal \cup {"absent"}
    /\ tasks' = [tasks EXCEPT ![t] = CancelledRow(tasks[t])]
    /\ UNCHANGED silence

AcknowledgeNotification(t) ==
    /\ tasks[t].outbox.notice # "none"
    /\ ~tasks[t].outbox.acked
    /\ tasks' = [tasks EXCEPT ![t].outbox.acked = TRUE]
    /\ UNCHANGED silence

-----------------------------------------------------------------------------

Tick ==
    /\ tasks' = [t \in Tasks |-> Aged(tasks[t])]
    /\ silence' = [w \in Workers |-> Age(silence[w])]

Init ==
    /\ tasks = [t \in Tasks |-> Absent]
    /\ silence = [w \in Workers |-> NoTime]

WorkerCall(w) ==
    \/ RegisterWorker(w)
    \/ \E claims \in ClaimsOf(w) : Heartbeat(w, claims)
    \/ ClaimTask(w)

\* Calls of worker w about a claim that was issued to it, possibly long ago.
ClaimCall(w, t, k) ==
    \/ UpdateTaskStatus(t, w, k)
    \/ \E run \in Runs : AttachRemoteRun(t, w, k, run)
    \/ \E exceeded \in BOOLEAN : MarkReconciling(t, w, k, exceeded)
    \/ \E run \in Runs \cup {NoRun}, outcome \in Terminal, retryable \in BOOLEAN :
          ReportResult(t, w, k, run, outcome, retryable)

\* Calls of a planner that was issued the k-th planner token of task t.
PlannerCall(t, k) ==
    \/ ExtendPlanningLease(t, k)
    \/ CompletePlanning(t, k)
    \/ \E outcome \in {"failed", "timed_out"}, retryable \in BOOLEAN :
          FailPlanning(t, k, outcome, retryable)

DirectorCall(t) ==
    \/ \E q \in Requests : CreateTask(t, q)
    \/ CancelTask(t)
    \/ AcknowledgeNotification(t)

Next ==
    \/ \E w \in Workers : WorkerCall(w)
    \/ \E w \in Workers, t \in Tasks, k \in 1..MaxClaims :
          Holds(w, t, k) /\ ClaimCall(w, t, k)
    \/ ClaimPlanningTask
    \/ \E t \in Tasks, k \in 1..PlannerMaxAttempts :
          k <= tasks[t].planner.attempts /\ PlannerCall(t, k)
    \/ \E t \in Tasks : DirectorCall(t)
    \/ RunMaintenance
    \/ Tick

Spec == Init /\ [][Next]_vars

\* The coordinator's own loop calls run_maintenance for ever, and time passes.
\* Nothing is assumed of workers, planners or the director.
FairSpec == Spec /\ WF_vars(RunMaintenance) /\ WF_vars(Tick)

=============================================================================
