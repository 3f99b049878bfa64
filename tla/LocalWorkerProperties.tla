----------------------- MODULE LocalWorkerProperties -----------------------
(***************************************************************************)
(* What the process runtime promises, with the coordinator.               *)
(***************************************************************************)
EXTENDS LocalWorker

\* Every part of the state is of its kind.
LocalTypeOK ==
    /\ tasks \in [Tasks -> Row]
    /\ proc \in [Workers -> Process]
    /\ children \in [Tasks -> [1..MaxClaims -> ChildStates]]
    /\ processes \in [Workers -> [Tasks -> 0..MaxClaims]]
    /\ locals \in [Tasks -> [1..MaxClaims -> Locals]]

\* A task has succeeded only if the child of its newest claim, the one whose
\* report was taken, returned 0, however many other children the task had.
SuccessIsTrue ==
    \A t \in Tasks : tasks[t].status = "succeeded" =>
        children[t][Len(tasks[t].claim.issued)] = "exited"

\* A task becomes cancelled only on request.  The runtime takes every refusal
\* of set_running for a cancellation, and a mark in cancelled may be older than
\* the claim it is applied to.
CancelledOnRequest ==
    \A t \in Tasks : /\ tasks[t].status = "cancelled" => tasks[t].cancel
                     /\ \A w \in Workers : t \in proc[w].cancelled => tasks[t].cancel

\* A worker with room for one task runs one child, also when it has lost its
\* claim and claimed the task again.  Children that a crash left are not its own.
OneChildPerTask ==
    \A w \in Workers, t \in Tasks, j, k \in 1..MaxClaims :
        /\ Holds(w, t, j) /\ Running(t, j) /\ Alive(jobs[t][j])
        /\ Holds(w, t, k) /\ Running(t, k) /\ Alive(jobs[t][k])
        => j = k

\* A cancellation that was heard has reached the child, whenever it was heard:
\* before the child was started, while it was being entered, or later.
HeardIsObeyed ==
    \A w \in Workers, t \in Tasks, k \in 1..MaxClaims :
        t \in proc[w].cancelled /\ At(w, t, k, "wait") => children[t][k] # "running"

\* A job and its child go together: unless the process was killed, a job that
\* ends leaves no child running, whichever way it ends.
NoOrphan ==
    crashes = 0 =>
        \A t \in Tasks, k \in 1..MaxClaims : Running(t, k) => Alive(jobs[t][k])

-----------------------------------------------------------------------------
(* Liveness.  Coroutines go on and time passes; a child that was terminated  *)
(* is killed in the end, but no child is assumed to end by itself.           *)

FairLocalSpec ==
    /\ LocalSpec
    /\ WF_localVars(RunMaintenance /\ UNCHANGED <<loopVars, childVars>>)
    /\ WF_localVars(Passing /\ UNCHANGED childVars)
    /\ \A w \in Workers :
          /\ WF_localVars(Beat(w))
          /\ WF_localVars(CancelledChildHasEnded(w))
          /\ WF_localVars(\E t \in Tasks : HearCancellation(w, t))
          /\ \A t \in Tasks, k \in 1..MaxClaims :
                WF_localVars(JobStep(w, t, k))
    /\ \A t \in Tasks, k \in 1..MaxClaims :
          WF_localVars(children[t][k] = "terminating" /\ ChildEnds(t, k))

\* No child runs for ever, unless its worker was killed.
EveryChildEnds ==
    \A t \in Tasks, k \in 1..MaxClaims :
        Running(t, k) ~> ~Running(t, k) \/ crashes > 0

=============================================================================
