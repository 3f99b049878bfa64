----------------------------- MODULE WorkerLoop -----------------------------
(***************************************************************************)
(* UnifiedWorkerRuntime: the process that claims tasks for a worker id,    *)
(* heartbeats for them and starts run_task for each, on top of TaskStore.  *)
(* What run_task does is in GatewayWorker and LocalWorker.                 *)
(*                                                                         *)
(* run and heartbeat_loop are coroutines of one process, and so is every   *)
(* run_task: what the code does between two awaits is one action.  They    *)
(* share three collections keyed by task id: active, claim_tokens and      *)
(* cancelled.  Claim k of task t is given to at most one run_task, job     *)
(* jobs[t][k]; the worker that runs it is the one the claim was issued to. *)
(***************************************************************************)
EXTENDS TaskStore

CONSTANTS
    Faults,         \* what may go wrong, a subset of FaultKinds
    MaxCrashes      \* bound on the crashes that are explored

FaultKinds == {
    "lost",         \* a request to the coordinator, or its answer, is lost
    "refused",      \* the coordinator answers with a status other than 404, 409
    "loop",         \* a claim request fails in a way run does not catch
    "start",        \* a request to start a run, or its answer, is lost
    "gateway",      \* a request to look at a run, or to stop it, is lost
    "forget",       \* the gateway loses a run
    "unserved"}     \* the worker cannot serve the task: profile, agent, workdir

ASSUME FaultAssumption == Faults \subseteq FaultKinds /\ MaxCrashes \in Nat

VARIABLES
    proc,       \* the worker processes
    jobs,       \* their run_task coroutines
    crashes

loopVars == <<proc, jobs, crashes>>

-----------------------------------------------------------------------------
(* Processes and jobs *)

Process == [state: {"up", "stopping", "down"},
            active: SUBSET Tasks,               \* keys of active
            tokens: [Tasks -> 0..MaxClaims],    \* claim_tokens, 0 for no entry
            cancelled: SUBSET Tasks,
            heard: SUBSET Tasks]    \* rest of the last heartbeat answer

Fresh == [state |-> "up", active |-> {}, tokens |-> [t \in Tasks |-> 0],
          cancelled |-> {}, heard |-> {}]

\* What run_task reads of the claim answer, the row as it was when claimed.
Snapshot(r) == [attempt |-> r.attempt.count,
                run |-> IF r.remote.run # NoRun /\ r.remote.attempt = r.attempt.count
                        THEN r.remote.run ELSE NoRun,
                cancel |-> r.cancel,
                overdue |-> r.remote.overdue,
                budget |-> r.attempt.budget]    \* started_at + timeout_seconds

NoJob == [pc |-> "none",
          task |-> [attempt |-> 0, run |-> NoRun, cancel |-> FALSE,
                    overdue |-> FALSE, budget |-> NoTime]]

\* "offered": the answer to the claim is on its way; "new": not yet started.
JobAt(pc, task) == [pc |-> pc, task |-> task]
Alive(job) == job.pc \notin {"none", "offered"}

Goto(t, k, pc) == jobs' = [jobs EXCEPT ![t][k].pc = pc]

JobsOf(w) == {x \in Tasks \X (1..MaxClaims) :
                 Holds(w, x[1], x[2]) /\ jobs[x[1]][x[2]].pc # "none"}

-----------------------------------------------------------------------------
(* run *)

\* Fault: len(active) <= concurrency for len(active) < concurrency.
AskClaimOverCapacity(w) ==
    /\ proc[w].state = "up"
    /\ Cardinality(proc[w].active) <= MaxConcurrency[w]
    /\ \A x \in JobsOf(w) : jobs[x[1]][x[2]].pc # "offered"
    /\ ClaimTask(w)
    /\ \E t \in Tasks :
          /\ tasks'[t].claim.issued # tasks[t].claim.issued
          /\ jobs' = [jobs EXCEPT ![t][Len(tasks'[t].claim.issued)] =
                         JobAt("offered", Snapshot(tasks'[t]))]
    /\ UNCHANGED <<proc, crashes>>

AskClaim(w) ==
    /\ proc[w].state = "up"
    /\ Cardinality(proc[w].active) < MaxConcurrency[w]
    /\ \A x \in JobsOf(w) : jobs[x[1]][x[2]].pc # "offered"
    /\ ClaimTask(w)
    /\ \E t \in Tasks :
          /\ tasks'[t].claim.issued # tasks[t].claim.issued
          /\ jobs' = [jobs EXCEPT ![t][Len(tasks'[t].claim.issued)] =
                         JobAt("offered", Snapshot(tasks'[t]))]
    /\ UNCHANGED <<proc, crashes>>

\* Both dictionaries are keyed by the task: an older job's entries are replaced.
ReceiveClaim(w, t, k) ==
    /\ Holds(w, t, k) /\ jobs[t][k].pc = "offered"
    /\ Goto(t, k, "new")
    /\ proc' = [proc EXCEPT ![w].active = @ \cup {t}, ![w].tokens[t] = k]
    /\ UNCHANGED <<vars, crashes>>

\* httpx.ReadTimeout: the loop asks again; nobody knows of the claim.
LoseClaim(w, t, k) ==
    /\ "lost" \in Faults
    /\ Holds(w, t, k) /\ jobs[t][k].pc = "offered"
    /\ jobs' = [jobs EXCEPT ![t][k] = NoJob]
    /\ UNCHANGED <<vars, proc, crashes>>

\* Any other failure of a claim request leaves the loop: the heartbeats end, and
\* the process waits for the jobs it has.
BreakLoop(w) ==
    /\ "loop" \in Faults
    /\ proc[w].state = "up"
    /\ Cardinality(proc[w].active) < MaxConcurrency[w]
    /\ proc' = [proc EXCEPT ![w].state = "stopping", ![w].heard = {}]
    /\ jobs' = [t \in Tasks |-> [k \in 1..MaxClaims |->
                   IF Holds(w, t, k) /\ jobs[t][k].pc = "offered" THEN NoJob ELSE jobs[t][k]]]
    /\ UNCHANGED <<vars, crashes>>

Exit(w) ==
    /\ proc[w].state = "stopping" /\ proc[w].active = {}
    /\ proc' = [proc EXCEPT ![w] = [Fresh EXCEPT !.state = "down"]]
    /\ jobs' = [t \in Tasks |-> [k \in 1..MaxClaims |->
                   IF Holds(w, t, k) THEN NoJob ELSE jobs[t][k]]]
    /\ UNCHANGED <<vars, crashes>>

\* A new process: run registers before anything else.
Start(w) ==
    /\ proc[w].state = "down"
    /\ RegisterWorker(w)
    /\ proc' = [proc EXCEPT ![w] = Fresh]
    /\ UNCHANGED <<jobs, crashes>>

Crash(w) ==
    /\ crashes < MaxCrashes                         \* exploration bound
    /\ crashes' = crashes + 1
    /\ proc[w].state # "down"
    /\ proc' = [proc EXCEPT ![w] = [Fresh EXCEPT !.state = "down"]]
    /\ jobs' = [t \in Tasks |-> [k \in 1..MaxClaims |->
                   IF Holds(w, t, k) THEN NoJob ELSE jobs[t][k]]]
    /\ UNCHANGED vars

\* The finally clause of run_task and the done callback.  Both go by the task id,
\* also when the entries are those of a newer claim.
Ended(w, t, k) ==
    /\ proc' = [proc EXCEPT ![w].active = @ \ {t}, ![w].tokens[t] = 0,
                            ![w].cancelled = @ \ {t}]
    /\ jobs' = [jobs EXCEPT ![t][k] = NoJob]

-----------------------------------------------------------------------------
(* heartbeat_loop *)

RunningClaims(w) ==
    [t \in Tasks |-> IF t \in proc[w].active THEN proc[w].tokens[t] ELSE 0]

\* The answer names the tasks of the worker that are to be cancelled.
SendHeartbeat(w) ==
    /\ proc[w].state = "up" /\ proc[w].heard = {}
    /\ Heartbeat(w, RunningClaims(w))
    /\ \/ proc' = [proc EXCEPT ![w].heard =
                     {t \in Tasks : /\ tasks'[t].claim.by = w
                                    /\ tasks'[t].status = "cancel_requested"}]
       \/ "lost" \in Faults /\ UNCHANGED proc
    /\ UNCHANGED <<jobs, crashes>>

\* A heartbeat, or a claim, of an evicted worker is answered with 404.
RecoverRegistration(w) ==
    /\ proc[w].state = "up" /\ proc[w].heard = {}
    /\ Listed[w] = NoTime
    /\ RegisterWorker(w)
    /\ UNCHANGED loopVars

-----------------------------------------------------------------------------
(* Calls of a job to the coordinator *)

\* The job makes a call that the store takes if may holds and then carries out
\* as call; answer is what the job sees.
Calls(may, call, answer) ==
    \/ answer = "ok" /\ may /\ call
    \/ answer = "conflict" /\ ~may /\ UNCHANGED vars
    \/ answer = "error" /\ "refused" \in Faults /\ UNCHANGED vars
    \/ answer = "lost" /\ "lost" \in Faults /\ (UNCHANGED vars \/ (may /\ call))

Answers == {"ok", "conflict", "error", "lost"}

-----------------------------------------------------------------------------

LoopInit ==
    /\ Init
    /\ proc = [w \in Workers |-> [Fresh EXCEPT !.state = "down"]]
    /\ jobs = [t \in Tasks |-> [k \in 1..MaxClaims |-> NoJob]]
    /\ crashes = 0

\* The others: directors, the maintenance loop, time.
OthersNext ==
    /\ \/ \E t \in Tasks : (\E q \in Requests : CreateTask(t, q)) \/ CancelTask(t)
       \/ RunMaintenance
    /\ UNCHANGED loopVars

Passing ==
    /\ Tick
    /\ jobs' = [t \in Tasks |-> [k \in 1..MaxClaims |->
                   [jobs[t][k] EXCEPT !.task.budget = Age(@)]]]
    /\ UNCHANGED <<proc, crashes>>

\* The steps of run; heartbeats and failures are in the modules that add run_task.
LoopStep(w) ==
    \/ AskClaim(w)
    \/ \E t \in Tasks, k \in 1..MaxClaims : ReceiveClaim(w, t, k) \/ LoseClaim(w, t, k)
    \/ Start(w)
    \/ RecoverRegistration(w)

=============================================================================
