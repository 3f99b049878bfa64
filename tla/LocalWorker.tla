---------------------------- MODULE LocalWorker ----------------------------
(***************************************************************************)
(* run_task of the process runtime: the agent runs as a child process of   *)
(* the worker, under a timeout; a cancellation terminates it.  Children    *)
(* are kept in the dictionary processes, which is keyed by task id too.    *)
(* Calls to the coordinator carry the claim token the job started with.    *)
(***************************************************************************)
EXTENDS WorkerLoop

VARIABLES
    children,   \* children[t][k]: the child process of job jobs[t][k]
    processes,  \* processes[w][t]: the claim whose child is entered, or 0
    locals,     \* local variables of each run_task
    awaited     \* the child that the heartbeat loop of w has terminated: <<t, k>>

childVars == <<children, processes, locals, awaited>>
localVars == <<vars, loopVars, childVars>>

-----------------------------------------------------------------------------
(* Child processes *)

ChildStates == {"none", "running", "terminating", "exited", "failed"}
                                            \* exited: with return code 0
Running(t, k) == k # 0 /\ children[t][k] \in {"running", "terminating"}

\* A running child may end, or never; one that was sent SIGTERM is killed after
\* five seconds if it does not end by itself.
ChildEnds(t, k) ==
    /\ Running(t, k)
    /\ \E state \in {"exited", "failed"} : children' = [children EXCEPT ![t][k] = state]
    /\ UNCHANGED <<vars, loopVars, processes, locals, awaited>>

\* The child that has the entry of task t: _terminate_process goes by the task.
Target(w, t) == IF Running(t, processes[w][t]) THEN processes[w][t] ELSE 0

\* Up to the wait for its end.
Terminate(w, t) ==
    children' = [children EXCEPT ![t] =
        [k \in 1..MaxClaims |-> IF k = Target(w, t) THEN "terminating" ELSE @[k]]]

-----------------------------------------------------------------------------

\* What the job is to report, and the child whose end it awaits.
Locals == [verdict: {"none", "succeeded", "failed", "unserved", "cancelled", "timed_out"},
           target: 0..MaxClaims]

NoLocals == [verdict |-> "none", target |-> 0]

At(w, t, k, pc) == Holds(w, t, k) /\ jobs[t][k].pc = pc

\* The timeout runs from the moment the job starts to wait for its child.
Enter(job, pc) ==
    [pc |-> pc,
     task |-> [job.task EXCEPT !.budget = IF pc = "wait" THEN TaskTimeout ELSE @]]

Go(t, k, pc, l) ==
    /\ jobs' = [jobs EXCEPT ![t][k] = Enter(@, pc)]
    /\ locals' = [locals EXCEPT ![t][k] = l]
    /\ UNCHANGED <<proc, crashes>>

ToReport(t, k, verdict) == Go(t, k, "report", [NoLocals EXCEPT !.verdict = verdict])

\* The finally clause: processes.pop(task_id), whichever child it is.
End(w, t, k) ==
    /\ Ended(w, t, k)
    /\ processes' = [processes EXCEPT ![w][t] = 0]
    /\ locals' = [locals EXCEPT ![t][k] = NoLocals]
    /\ UNCHANGED crashes

-----------------------------------------------------------------------------
(* Starting *)

CancelledBeforeStart(w, t, k) ==
    /\ At(w, t, k, "new")
    /\ t \in proc[w].cancelled
    /\ ToReport(t, k, "cancelled")
    /\ UNCHANGED <<vars, children, processes, awaited>>

\* Fault: the task is reported as cancelled whatever the coordinator's error.
SetRunningOrCancelled(w, t, k) ==
    /\ At(w, t, k, "new")
    /\ t \notin proc[w].cancelled
    /\ \E answer \in Answers :
          /\ Calls(MayStart(Maintained[t], w, k), UpdateTaskStatus(t, w, k), answer)
          /\ CASE answer = "ok" -> Go(t, k, "prepare", NoLocals) /\ UNCHANGED processes
               [] OTHER -> ToReport(t, k, "cancelled") /\ UNCHANGED processes
    /\ UNCHANGED <<children, awaited>>

\* A refusal counts as a cancellation; any other failure ends the job.
SetRunning(w, t, k) ==
    /\ At(w, t, k, "new")
    /\ t \notin proc[w].cancelled
    /\ \E answer \in Answers :
          /\ Calls(MayStart(Maintained[t], w, k), UpdateTaskStatus(t, w, k), answer)
          /\ CASE answer = "ok" -> Go(t, k, "prepare", NoLocals) /\ UNCHANGED processes
               [] answer = "conflict" -> ToReport(t, k, "cancelled") /\ UNCHANGED processes
               [] OTHER -> End(w, t, k)
    /\ UNCHANGED <<children, awaited>>

\* No such agent, command or directory.
RefuseTask(w, t, k) ==
    /\ "unserved" \in Faults
    /\ At(w, t, k, "prepare")
    /\ ToReport(t, k, "unserved")
    /\ UNCHANGED <<vars, children, processes, awaited>>

Spawn(w, t, k) ==
    /\ At(w, t, k, "prepare")
    /\ children' = [children EXCEPT ![t][k] = "running"]
    /\ processes' = [processes EXCEPT ![w][t] = k]
    /\ Go(t, k, "spawned", NoLocals)
    /\ UNCHANGED <<vars, awaited>>

-----------------------------------------------------------------------------
(* Running *)

\* Fault: a cancellation heard before the child had its entry is not made up for.
CheckNothing(w, t, k) ==
    /\ At(w, t, k, "spawned")
    /\ Go(t, k, "wait", NoLocals)
    /\ UNCHANGED <<vars, children, processes, awaited>>

\* A cancellation heard before the child had its entry is made up for.
CheckCancelled(w, t, k) ==
    /\ At(w, t, k, "spawned")
    /\ IF t \in proc[w].cancelled
       THEN Terminate(w, t) /\ Go(t, k, "kill", [NoLocals EXCEPT !.target = Target(w, t)])
       ELSE UNCHANGED children /\ Go(t, k, "wait", NoLocals)
    /\ UNCHANGED <<vars, processes, awaited>>

Killed(w, t, k) ==
    /\ At(w, t, k, "kill")
    /\ ~Running(t, locals[t][k].target)
    /\ Go(t, k, "wait", NoLocals)
    /\ UNCHANGED <<vars, children, processes, awaited>>

ChildHasEnded(w, t, k) ==
    /\ At(w, t, k, "wait")
    /\ ~Running(t, k)
    /\ Go(t, k, "collect", NoLocals)
    /\ UNCHANGED <<vars, children, processes, awaited>>

\* Fault: the timeout is reported, but the child is left running.
TimeOutAndLeave(w, t, k) ==
    /\ At(w, t, k, "wait")
    /\ Running(t, k) /\ Reached(jobs[t][k].task.budget)
    /\ ToReport(t, k, "timed_out")
    /\ UNCHANGED <<vars, children, processes, awaited>>

TimeOut(w, t, k) ==
    /\ At(w, t, k, "wait")
    /\ Running(t, k) /\ Reached(jobs[t][k].task.budget)
    /\ Terminate(w, t)
    /\ Go(t, k, "overtime", [verdict |-> "timed_out", target |-> Target(w, t)])
    /\ UNCHANGED <<vars, processes, awaited>>

\* The child that was terminated has ended, and the job's own one too: its
\* output is read to the end.
OvertimeOver(w, t, k) ==
    /\ At(w, t, k, "overtime")
    /\ ~Running(t, locals[t][k].target) /\ ~Running(t, k)
    /\ ToReport(t, k, "timed_out")
    /\ UNCHANGED <<vars, children, processes, awaited>>

\* Faults: the return code is not looked at; the verdict has a word of its own.
CollectAnyEnd(w, t, k) ==
    /\ At(w, t, k, "collect")
    /\ ToReport(t, k, IF t \in proc[w].cancelled THEN "cancelled" ELSE "succeeded")
    /\ UNCHANGED <<vars, children, processes, awaited>>
CollectError(w, t, k) ==
    /\ At(w, t, k, "collect")
    /\ ToReport(t, k, IF children[t][k] = "exited" THEN "succeeded" ELSE "error")
    /\ UNCHANGED <<vars, children, processes, awaited>>

Collect(w, t, k) ==
    /\ At(w, t, k, "collect")
    /\ ToReport(t, k, IF t \in proc[w].cancelled THEN "cancelled"
                      ELSE IF children[t][k] = "exited" THEN "succeeded" ELSE "failed")
    /\ UNCHANGED <<vars, children, processes, awaited>>

\* Whatever the answer, the job is over.
Report(w, t, k) ==
    /\ At(w, t, k, "report")
    /\ LET verdict == locals[t][k].verdict
           outcome == IF verdict = "unserved" THEN "failed" ELSE verdict
       IN  \E answer \in Answers :
             Calls(MayReport(Maintained[t], w, k, NoRun, outcome),
                   ReportResult(t, w, k, NoRun, outcome, verdict = "failed"), answer)
    /\ End(w, t, k)
    /\ UNCHANGED <<children, awaited>>

-----------------------------------------------------------------------------
(* heartbeat_loop: cancel_task for one task after the other, and no heartbeat *)
(* until the children have ended                                              *)

HearCancellation(w, t) ==
    /\ proc[w].state = "up" /\ t \in proc[w].heard /\ awaited[w] = <<>>
    /\ proc' = [proc EXCEPT ![w].heard = @ \ {t}, ![w].cancelled = @ \cup {t}]
    /\ Terminate(w, t)
    /\ awaited' = [awaited EXCEPT ![w] = IF Target(w, t) = 0 THEN <<>> ELSE <<t, Target(w, t)>>]
    /\ UNCHANGED <<vars, jobs, crashes, processes, locals>>

CancelledChildHasEnded(w) ==
    /\ awaited[w] # <<>> /\ ~Running(awaited[w][1], awaited[w][2])
    /\ awaited' = [awaited EXCEPT ![w] = <<>>]
    /\ UNCHANGED <<vars, loopVars, children, processes, locals>>

-----------------------------------------------------------------------------

LocalInit ==
    /\ LoopInit
    /\ children = [t \in Tasks |-> [k \in 1..MaxClaims |-> "none"]]
    /\ processes = [w \in Workers |-> [t \in Tasks |-> 0]]
    /\ locals = [t \in Tasks |-> [k \in 1..MaxClaims |-> NoLocals]]
    /\ awaited = [w \in Workers |-> <<>>]

JobStep(w, t, k) ==
    \/ CancelledBeforeStart(w, t, k)
    \/ SetRunning(w, t, k)
    \/ RefuseTask(w, t, k)
    \/ Spawn(w, t, k)
    \/ CheckCancelled(w, t, k)
    \/ Killed(w, t, k)
    \/ ChildHasEnded(w, t, k)
    \/ TimeOut(w, t, k)
    \/ OvertimeOver(w, t, k)
    \/ Collect(w, t, k)
    \/ Report(w, t, k)

\* The memory of a process that is gone; its children, if any, live on.
Vanish(w) ==
    /\ locals' = [t \in Tasks |-> [k \in 1..MaxClaims |->
                     IF Holds(w, t, k) THEN NoLocals ELSE locals[t][k]]]
    /\ processes' = [processes EXCEPT ![w] = [t \in Tasks |-> 0]]
    /\ awaited' = [awaited EXCEPT ![w] = <<>>]
    /\ UNCHANGED children

\* The loop is left: the heartbeats end wherever they are.
StopHeartbeats(w) ==
    /\ awaited' = [awaited EXCEPT ![w] = <<>>]
    /\ UNCHANGED <<children, processes, locals>>

Beat(w) == SendHeartbeat(w) /\ awaited[w] = <<>> /\ UNCHANGED childVars

LocalNext ==
    \/ \E w \in Workers :
          \/ LoopStep(w) /\ UNCHANGED childVars
          \/ BreakLoop(w) /\ StopHeartbeats(w)
          \/ (Crash(w) \/ Exit(w)) /\ Vanish(w)
          \/ Beat(w)
          \/ \E t \in Tasks : HearCancellation(w, t)
          \/ CancelledChildHasEnded(w)
          \/ \E t \in Tasks, k \in 1..MaxClaims : JobStep(w, t, k)
    \/ \E t \in Tasks, k \in 1..MaxClaims : ChildEnds(t, k)
    \/ (OthersNext \/ Passing) /\ UNCHANGED childVars

LocalSpec == LocalInit /\ [][LocalNext]_localVars

=============================================================================
