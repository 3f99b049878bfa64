---------------------- MODULE GatewayWorkerProperties ----------------------
(***************************************************************************)
(* What gateway worker, coordinator and gateway promise together.         *)
(***************************************************************************)
EXTENDS GatewayWorker

\* Every part of the state is of its kind.
GatewayTypeOK ==
    /\ tasks \in [Tasks -> Row]
    /\ proc \in [Workers -> Process]
    /\ runs \in [Runs -> GatewayRun]
    /\ work \in [Tasks -> [1..MaxClaims -> Work]]

LiveRun(x) == x # NoRun /\ runs[x].state \in Live

\* A run that is going on is not let go of: as long as it may go on, the row
\* keeps its id, and the only outcome it can get is timed_out, the one that
\* says nothing of the run.  Whatever request or answer is lost; for a worker with
\* room for one task.
RunKept(t) ==
    LiveRun(tasks[t].remote.run) =>
        /\ tasks'[t].remote.run = tasks[t].remote.run
        /\ tasks'[t].status \in Terminal \ {"timed_out"} => tasks[t].status \in Terminal
LiveRunIsKept == [][\A t \in Tasks : RunKept(t)]_gatewayVars

\* A task has succeeded only if the run on record did, and that run was started
\* for the attempt that is credited with it.
SuccessIsTrue ==
    \A t \in Tasks : tasks[t].status = "succeeded" =>
        /\ tasks[t].remote.run # NoRun
        /\ runs[tasks[t].remote.run].state = "succeeded"
        /\ runs[tasks[t].remote.run].key = <<t, tasks[t].attempt.count>>

\* The run on record was started under the key of the attempt on record: an
\* execution that has lost its claim, and does not know it yet, never gets to bind
\* its own run to the newer claim of another process.  docs/architecture.md:329
\* says so of the claim tokens; for workers with room for one task, where no
\* process has two executions of a task (see SharedToken).
RunOfAttempt(t) ==
    tasks[t].remote.run # NoRun =>
        runs[tasks[t].remote.run].key = <<t, tasks[t].attempt.count>>
RecordedRunIsOfAttempt == \A t \in Tasks : RunOfAttempt(t)

\* When no request to the gateway is lost and no worker crashes, a run that nobody
\* has asked to stop is on record, or in the hands of the job that started it,
\* however late that job's answers come and whatever the coordinator refuses.
NoStrayRun ==
    \A x \in Runs : runs[x].state = "active" =>
        \E t \in Tasks :
            \/ tasks[t].remote.run = x
            \/ \E k \in 1..MaxClaims : Alive(jobs[t][k]) /\ work[t][k].run = x

-----------------------------------------------------------------------------
(* What the documentation says, and the code does not do *)

\* README.md:245: a task whose cancellation was requested and whose remote
\* result cannot be confirmed ends as timed_out, never falsely as cancelled.
CancelledIsTrue ==
    \A t \in Tasks : tasks[t].status = "cancelled" /\ tasks[t].cancel =>
        \A x \in Runs : LiveRun(x) => runs[x].key[1] # t

\* tests/test_gateway_worker.py:349: a result that is seen after the deadline is
\* reported for what it is, and not as a timeout.  So when nothing is lost, a worker
\* that has seen how its run ended, whose lease is good and whose task nobody has
\* cancelled, gets rid of its report and does not have to give the run up as lost.
LateResultIsTaken ==
    [][\A t \in Tasks, k \in 1..MaxClaims :
          /\ jobs[t][k].pc = "report" /\ work[t][k].seen \in Over
          /\ OutcomeOf(work[t][k]) \in {"succeeded", "failed"}
          /\ tasks[t].claim.token = k /\ ~Past(tasks[t].claim.lease) /\ ~tasks[t].cancel
          => jobs'[t][k].pc # "reconcile"]_gatewayVars

-----------------------------------------------------------------------------
(* Liveness.  The coroutines of a live process go on, the coordinator's loop *)
(* and time as well; a process that is down is started again.                *)

WorkerFairness(w) ==
    /\ SF_gatewayVars(AskClaim(w) /\ UNCHANGED <<runs, work>>)
    /\ WF_gatewayVars(Start(w) /\ UNCHANGED <<runs, work>>)
    /\ WF_gatewayVars(Exit(w) /\ Vanish(w) /\ UNCHANGED runs)
    /\ WF_gatewayVars(SendHeartbeat(w) /\ UNCHANGED <<runs, work>>)
    /\ WF_gatewayVars(RecoverRegistration(w) /\ UNCHANGED <<runs, work>>)
    /\ WF_gatewayVars(HearCancellations(w))
    /\ \A t \in Tasks, k \in 1..MaxClaims :
          /\ WF_gatewayVars(ReceiveClaim(w, t, k) /\ UNCHANGED <<runs, work>>)
          /\ WF_gatewayVars(JobStep(w, t, k))

FairGatewaySpec ==
    /\ GatewaySpec
    /\ WF_gatewayVars(RunMaintenance /\ UNCHANGED <<loopVars, runs, work>>)
    /\ WF_gatewayVars(Passing /\ UNCHANGED <<runs, work>>)
    /\ \A w \in Workers : WorkerFairness(w)

\* Every task that waits for a worker is settled, whatever becomes of the runs
\* and of the worker process.
TaskSettles ==
    \A t \in Tasks : tasks[t].status = "pending" ~> tasks[t].status \in Terminal

\* The run of a cancelled task is stopped, or ends, unless the coordinator gives
\* it up, or an older job of the worker puts another run in its place (which only
\* a second attempt and room for two allow, see SharedToken).
CancelledRunStops ==
    \A t \in Tasks, x \in Runs :
        tasks[t].cancel /\ tasks[t].remote.run = x /\ runs[x].state = "active"
            ~> \/ runs[x].state # "active"
               \/ tasks[t].status = "timed_out"
               \/ tasks[t].remote.run \notin {NoRun, x}

=============================================================================
