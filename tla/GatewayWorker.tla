--------------------------- MODULE GatewayWorker ---------------------------
(***************************************************************************)
(* run_task of the gateway worker: it starts a run on a Hermes gateway,    *)
(* has the coordinator record it, follows it and reports what became of    *)
(* it.  One action per await; every call to the coordinator may be         *)
(* refused, and it or its answer may be lost; so may a request to the      *)
(* gateway.  The run goes on when the worker is gone.                      *)
(***************************************************************************)
EXTENDS WorkerLoop

CONSTANT Ends       \* the ways for a run to end that are explored

VARIABLES
    runs,       \* the runs of the gateway
    work        \* local variables of each run_task

gatewayVars == <<vars, loopVars, runs, work>>

-----------------------------------------------------------------------------
(* The gateway *)

\* TERMINAL, with one word for "completed" and "succeeded".
Over == {"succeeded", "failed", "cancelled", "interrupted", "timed_out"}
Live == {"active", "stopping"}

ASSUME EndsAssumption == Ends \subseteq Over

\* A run with the idempotency key it was started under, the task and attempt.
GatewayRun == [state: {"unused"} \cup Live \cup Over,
               key: (Tasks \X Nat) \cup {<<>>},
               known: BOOLEAN]                  \* known: not answered with 404

Unused == [state |-> "unused", key |-> <<>>, known |-> FALSE]

\* What a request with this key gives: the run it was used for, or a new one.
StartedBy(key) ==
    LET old == {x \in Runs : runs[x].known /\ runs[x].key = key}
    IN  IF old # {} THEN old ELSE {x \in Runs : runs[x].state = "unused"}

StartRun(x, key) ==
    runs' = IF runs[x].state = "unused"
            THEN [runs EXCEPT ![x] = [state |-> "active", key |-> key, known |-> TRUE]]
            ELSE runs

StopRun(x) ==
    runs' = [runs EXCEPT ![x].state = IF @ = "active" THEN "stopping" ELSE @]

\* In any way, asked to or not.
RunEnds(x) ==
    /\ runs[x].state \in Live
    /\ \E state \in Ends :                            \* exploration bound
          runs' = [runs EXCEPT ![x].state = state]
    /\ UNCHANGED <<vars, loopVars, work>>

ForgetRun(x) ==
    /\ "forget" \in Faults
    /\ runs[x].known
    /\ runs' = [runs EXCEPT ![x].known = FALSE,
                            ![x].state = IF @ \in Live THEN "failed" ELSE @]
    /\ UNCHANGED <<vars, loopVars, work>>

-----------------------------------------------------------------------------
(* Local variables of run_task *)

\* Why the run is stopped, or what is reported or reconciled.
Reasons == {
    "none",
    "ended",        \* the run came to its own end
    "resumed",      \* the claimed task had been cancelled
    "cancelled",    \* a heartbeat said so
    "session",      \* the coordinator refused the new session: it is cancelled
    "deadline",     \* the execution deadline
    "conflict",     \* the coordinator refused to record the run
    "audit",        \* it failed to record the run
    "unconfirmed",  \* it may or may not have recorded the run
    "overdue",      \* the run is gone, after its deadline
    "unbound",      \* a request failed when there was no run yet
    "unserved"}     \* the worker cannot serve the task

Work == [run: Runs \cup {NoRun}, bound: BOOLEAN,        \* run_id, remote_bound
         seen: {"running"} \cup Over, why: Reasons]     \* status of run

NoWork == [run |-> NoRun, bound |-> FALSE, seen |-> "running", why |-> "none"]

At(w, t, k, pc) == Holds(w, t, k) /\ jobs[t][k].pc = pc

\* claim_tokens[task_id], whichever claim it is of
Token(w, t) == proc[w].tokens[t]

\* The execution clock starts with the loop, unless the claim carried a start.
Enter(job, pc) ==
    [pc |-> pc,
     task |-> [job.task EXCEPT !.budget =
                  IF pc = "loop" /\ @ = NoTime THEN TaskTimeout ELSE @]]

Go(t, k, pc, l) ==
    /\ jobs' = [jobs EXCEPT ![t][k] = Enter(@, pc)]
    /\ work' = [work EXCEPT ![t][k] = l]
    /\ UNCHANGED <<proc, crashes>>

End(w, t, k) ==
    /\ Ended(w, t, k)
    /\ work' = [work EXCEPT ![t][k] = NoWork]
    /\ UNCHANGED crashes

Because(l, why) == [l EXCEPT !.why = why]

\* An HTTP error that run_task does not deal with where it happens.
Escape(t, k, l) ==
    IF l.bound THEN Go(t, k, "reconcile", l) ELSE Go(t, k, "report", Because(l, "unbound"))

-----------------------------------------------------------------------------
(* From the claim to a recorded run *)

\* No entry in claim_tokens: the KeyError ends the job, whatever the handlers do.
\* A job that starts enters its own token, and in the loop it reads it only when it
\* has something to tell the coordinator.
LoseToken(w, t, k) ==
    /\ Holds(w, t, k) /\ Alive(jobs[t][k]) /\ Token(w, t) = 0
    /\ jobs[t][k].pc \notin {"new", "poll", "confirm"}
    /\ jobs[t][k].pc = "stop" => work[t][k].why \in {"resumed", "deadline"}
    /\ End(w, t, k)
    /\ UNCHANGED <<vars, runs>>

\* The first thing a job does is to enter its token once more; an older job of the
\* task may have taken it out, or have come to enter its own.
EnterToken(w, t, k) ==
    /\ At(w, t, k, "new") /\ Token(w, t) # k
    /\ proc' = [proc EXCEPT ![w].tokens[t] = k]
    /\ UNCHANGED <<vars, jobs, crashes, runs, work>>

\* The agent is not one of this worker's, which is noticed before the recorded run
\* is looked at; or the profile is not, or the worker has no key for it, which it
\* finds out when it first turns to the gateway.
RefuseTask(w, t, k) ==
    /\ "unserved" \in Faults
    /\ \E pc \in {"new", "look", "begin"} : At(w, t, k, pc)
    /\ At(w, t, k, "new") => Token(w, t) = k
    /\ LET run == IF At(w, t, k, "begin") THEN NoRun ELSE jobs[t][k].task.run
           l == [NoWork EXCEPT !.run = run, !.bound = run # NoRun]
       IN \/ ~l.bound /\ Go(t, k, "report", Because(l, "unserved"))
          \/ l.bound /\ Go(t, k, "reconcile", l)
          \/ At(w, t, k, "new") /\ Go(t, k, "report", Because(l, "unserved"))
    /\ UNCHANGED <<vars, runs>>

SetRunning(w, t, k) ==
    /\ At(w, t, k, "new") /\ Token(w, t) = k
    /\ LET run == jobs[t][k].task.run
           l == [NoWork EXCEPT !.run = run, !.bound = run # NoRun]
       IN  \E answer \in Answers :
             /\ Calls(MayStart(Maintained[t], w, k), UpdateTaskStatus(t, w, k), answer)
             /\ CASE answer = "ok" -> Go(t, k, IF run = NoRun THEN "begin" ELSE "look", l)
                  [] answer = "conflict" -> End(w, t, k)
                  [] OTHER -> Escape(t, k, l)
    /\ UNCHANGED runs

\* The run of this attempt that an earlier claim left behind.
LookForRun(w, t, k) ==
    /\ At(w, t, k, "look") /\ Token(w, t) # 0
    /\ LET l == work[t][k]
           x == runs[l.run]
           task == jobs[t][k].task
       IN \/ "gateway" \in Faults /\ Go(t, k, "reconcile", l)
          \/ ~x.known /\ task.overdue /\ Go(t, k, "reconcile", Because(l, "overdue"))
          \/ ~x.known /\ ~task.overdue /\ Go(t, k, "begin", NoWork)
          \/ /\ x.known /\ x.state \in Over
             /\ Go(t, k, "report", [l EXCEPT !.seen = x.state, !.why = "ended"])
          \/ /\ x.known /\ x.state \in Live
             /\ IF task.cancel THEN Go(t, k, "stop", Because(l, "resumed"))
                               ELSE Go(t, k, "loop", l)
    /\ UNCHANGED <<vars, runs>>

IdempotencyKey(t, k) == <<t, jobs[t][k].task.attempt>>

Begin(w, t, k) ==
    /\ At(w, t, k, "begin") /\ Token(w, t) # 0
    /\ \/ \E x \in StartedBy(IdempotencyKey(t, k)) :
             /\ StartRun(x, IdempotencyKey(t, k))
             /\ \/ LET s == runs'[x].state IN
                   Go(t, k, "attach",
                      [NoWork EXCEPT !.run = x, !.bound = TRUE,
                                     !.seen = IF s \in Over THEN s ELSE "running"])
                \/ "start" \in Faults /\ Escape(t, k, NoWork)
       \/ "start" \in Faults /\ Escape(t, k, NoWork) /\ UNCHANGED runs
    /\ UNCHANGED vars

CallAttach(w, t, k, answer) ==
    LET run == work[t][k].run IN
    Calls(MayAttach(Maintained[t], w, Token(w, t), run),
          AttachRemoteRun(t, w, Token(w, t), run), answer)

\* Fault: a run the coordinator refuses is left to itself.
AttachOrForget(w, t, k) ==
    /\ At(w, t, k, "attach") /\ Token(w, t) # 0
    /\ \E answer \in Answers :
          /\ CallAttach(w, t, k, answer)
          /\ CASE answer = "ok" -> Go(t, k, "loop", work[t][k])
               [] answer = "conflict" -> Go(t, k, "report", Because(work[t][k], "conflict"))
               [] answer = "error" -> Go(t, k, "stop", Because(work[t][k], "audit"))
               [] answer = "lost" -> Go(t, k, "stop", Because(work[t][k], "unconfirmed"))
    /\ UNCHANGED runs

Attach(w, t, k) ==
    /\ At(w, t, k, "attach") /\ Token(w, t) # 0
    /\ \E answer \in Answers :
          /\ CallAttach(w, t, k, answer)
          /\ CASE answer = "ok" -> Go(t, k, "loop", work[t][k])
               [] answer = "conflict" -> Go(t, k, "stop", Because(work[t][k], "conflict"))
               [] answer = "error" -> Go(t, k, "stop", Because(work[t][k], "audit"))
               [] answer = "lost" -> Go(t, k, "stop", Because(work[t][k], "unconfirmed"))
    /\ UNCHANGED runs

\* The second try, when the run may be recorded and could not be stopped.
AttachAgain(w, t, k) ==
    /\ At(w, t, k, "reattach") /\ Token(w, t) # 0
    /\ \E answer \in Answers : CallAttach(w, t, k, answer)
    /\ Go(t, k, "reconcile", work[t][k])
    /\ UNCHANGED runs

-----------------------------------------------------------------------------
(* Following the run *)

Onward(t, k, l) ==
    IF l.seen \in Over THEN Go(t, k, "report", Because(l, "ended"))
    ELSE IF Reached(jobs[t][k].task.budget) THEN Go(t, k, "stop", Because(l, "deadline"))
    ELSE Go(t, k, "poll", l)

\* A pending cancellation comes first, then a session id the gateway has changed.
Loop(w, t, k) ==
    /\ At(w, t, k, "loop")
    /\ LET l == work[t][k] IN
       IF t \in proc[w].cancelled
       THEN Go(t, k, IF l.seen \in Over THEN "report" ELSE "stop", Because(l, "cancelled"))
       ELSE Onward(t, k, l) \/ Go(t, k, "session", l)
    /\ UNCHANGED <<vars, runs>>

AttachSession(w, t, k) ==
    /\ At(w, t, k, "session") /\ Token(w, t) # 0
    /\ LET l == work[t][k] IN
       \E answer \in Answers :
          /\ CallAttach(w, t, k, answer)
          /\ CASE answer = "ok" -> Onward(t, k, l)
               [] answer = "conflict" -> Go(t, k, "stop", Because(l, "session"))
               [] OTHER -> Go(t, k, "reconcile", l)
    /\ UNCHANGED runs

Poll(w, t, k) ==
    /\ At(w, t, k, "poll")
    /\ LET l == work[t][k]
           x == runs[l.run]
       IN \/ "gateway" \in Faults /\ Go(t, k, "reconcile", l)
          \/ ~x.known /\ Go(t, k, "reconcile", l)
          \/ x.known /\ Go(t, k, "loop",
                 [l EXCEPT !.seen = IF x.state \in Over THEN x.state ELSE "running"])
    /\ UNCHANGED <<vars, runs>>

-----------------------------------------------------------------------------
(* Stopping the run *)

\* What run_task does once the run has been seen to be over, or has not.
Stopped(t, k, l) == Go(t, k, "report", l)

NotStopped(t, k, l) ==
    CASE l.why = "conflict" -> Go(t, k, "report", l)
      [] l.why = "unconfirmed" -> Go(t, k, "reattach", l)
      [] OTHER -> Go(t, k, "reconcile", l)

\* Fault: the answer to the stop request counts as the end of the run.
StopAndTrust(w, t, k) ==
    /\ At(w, t, k, "stop")
    /\ work[t][k].why \in {"resumed", "deadline"} => Token(w, t) # 0
    /\ LET l == work[t][k] IN
       \/ runs[l.run].known /\ StopRun(l.run) /\ Stopped(t, k, l)
       \/ "gateway" \in Faults /\ (StopRun(l.run) \/ UNCHANGED runs) /\ NotStopped(t, k, l)
       \/ ~runs[l.run].known /\ UNCHANGED runs /\ NotStopped(t, k, l)
    /\ UNCHANGED vars

Stop(w, t, k) ==
    /\ At(w, t, k, "stop")
    /\ work[t][k].why \in {"resumed", "deadline"} => Token(w, t) # 0
    /\ LET l == work[t][k] IN
       \/ /\ runs[l.run].known
          /\ StopRun(l.run)
          /\ LET s == runs'[l.run].state IN
             IF s \in Over THEN Stopped(t, k, [l EXCEPT !.seen = s])
                           ELSE Go(t, k, "confirm", l)
       \/ "gateway" \in Faults /\ (StopRun(l.run) \/ UNCHANGED runs) /\ NotStopped(t, k, l)
       \/ ~runs[l.run].known /\ UNCHANGED runs /\ NotStopped(t, k, l)
    /\ UNCHANGED vars

\* Polling until the run is over, for a while.
ConfirmStop(w, t, k) ==
    /\ At(w, t, k, "confirm")
    /\ LET l == work[t][k]
           x == runs[l.run]
       IN \/ "gateway" \in Faults /\ NotStopped(t, k, l)
          \/ ~x.known /\ NotStopped(t, k, l)
          \/ x.known /\ x.state \in Over /\ Stopped(t, k, [l EXCEPT !.seen = x.state])
          \/ x.known /\ x.state \in Live /\ NotStopped(t, k, l)
    /\ UNCHANGED <<vars, runs>>

-----------------------------------------------------------------------------
(* Telling the coordinator *)

\* Faults: a run that is over counts as a success; the gateway's word for a
\* success is passed on.
OutcomeOfAnyEnd(l) ==
    CASE l.why \in {"resumed", "cancelled", "session", "conflict"} -> "cancelled"
      [] l.why \in {"deadline", "ended"} -> "succeeded"
      [] OTHER -> "failed"
OutcomeInGatewayWords(l) ==
    CASE l.why \in {"resumed", "cancelled", "session", "conflict"} -> "cancelled"
      [] l.why \in {"deadline", "ended"} ->
            IF l.seen = "succeeded" THEN "completed" ELSE "timed_out"
      [] OTHER -> "failed"

OutcomeOf(l) ==
    CASE l.why \in {"resumed", "cancelled", "session", "conflict"} -> "cancelled"
      [] l.why = "deadline" ->
            IF l.seen \in {"cancelled", "interrupted"} THEN "timed_out" ELSE l.seen
      [] l.why = "ended" -> IF l.seen = "interrupted" THEN "failed" ELSE l.seen
      [] OTHER -> "failed"

\* The run an outcome is reported of; none when it is not known to be recorded.
RunReported(l) ==
    IF l.why \in {"conflict", "audit", "unconfirmed", "unbound", "unserved"}
    THEN NoRun ELSE l.run

Report(w, t, k) ==
    /\ At(w, t, k, "report") /\ Token(w, t) # 0
    /\ LET l == work[t][k]
           outcome == OutcomeOf(l)
           run == RunReported(l)
           retryable == outcome = "failed" /\ l.why # "unserved"
       IN  \E answer \in Answers :
             /\ Calls(MayReport(Maintained[t], w, Token(w, t), run, outcome),
                      ReportResult(t, w, Token(w, t), run, outcome, retryable), answer)
             /\ IF answer = "ok" \/ l.why \in {"conflict", "unbound", "unserved"}
                THEN End(w, t, k)
                ELSE Go(t, k, "reconcile", Because(l, "none"))
    /\ UNCHANGED runs

\* Whatever the answer, the job is over.
Reconcile(w, t, k) ==
    /\ At(w, t, k, "reconcile") /\ Token(w, t) # 0
    /\ LET exceeded == work[t][k].why \in {"deadline", "overdue"} IN
       \E answer \in Answers :
          Calls(MayReconcile(Maintained[t], w, Token(w, t), exceeded),
                MarkReconciling(t, w, Token(w, t), exceeded), answer)
    /\ End(w, t, k)
    /\ UNCHANGED runs

-----------------------------------------------------------------------------
(* The heartbeat loop: cancel_task only remembers the task *)

HearCancellations(w) ==
    /\ proc[w].state = "up" /\ proc[w].heard # {}
    /\ proc' = [proc EXCEPT ![w].cancelled = @ \cup proc[w].heard, ![w].heard = {}]
    /\ UNCHANGED <<vars, jobs, crashes, runs, work>>

-----------------------------------------------------------------------------

GatewayInit ==
    /\ LoopInit
    /\ runs = [x \in Runs |-> Unused]
    /\ work = [t \in Tasks |-> [k \in 1..MaxClaims |-> NoWork]]

JobStep(w, t, k) ==
    \/ LoseToken(w, t, k)
    \/ EnterToken(w, t, k)
    \/ RefuseTask(w, t, k)
    \/ SetRunning(w, t, k)
    \/ LookForRun(w, t, k)
    \/ Begin(w, t, k)
    \/ Attach(w, t, k)
    \/ AttachAgain(w, t, k)
    \/ Loop(w, t, k)
    \/ AttachSession(w, t, k)
    \/ Poll(w, t, k)
    \/ Stop(w, t, k)
    \/ ConfirmStop(w, t, k)
    \/ Report(w, t, k)
    \/ Reconcile(w, t, k)

\* The jobs of a process that is gone are gone with it.
Vanish(w) ==
    work' = [t \in Tasks |-> [k \in 1..MaxClaims |->
                IF Holds(w, t, k) THEN NoWork ELSE work[t][k]]]

GatewayNext ==
    \/ \E w \in Workers :
          \/ (LoopStep(w) \/ SendHeartbeat(w) \/ BreakLoop(w)) /\ UNCHANGED <<runs, work>>
          \/ (Crash(w) \/ Exit(w)) /\ Vanish(w) /\ UNCHANGED runs
          \/ HearCancellations(w)
          \/ \E t \in Tasks, k \in 1..MaxClaims : JobStep(w, t, k)
    \/ \E x \in Runs : RunEnds(x) \/ ForgetRun(x)
    \/ (OthersNext \/ Passing) /\ UNCHANGED <<runs, work>>

GatewaySpec == GatewayInit /\ [][GatewayNext]_gatewayVars

=============================================================================
