------------------------- MODULE GatewayWorkerProofs -------------------------
(***************************************************************************)
(* The gateway runtime for every number of tasks, workers, runs, claims    *)
(* and crashes, whatever is lost and refused: a success was one of the run *)
(* on record; with room for one task per worker that run was started for   *)
(* the attempt on record, no job goes by a token that is not its own, and  *)
(* no run that goes on is let go of.  If the gateway can be reached and no *)
(* worker crashes, no run is lost sight of.                                *)
(***************************************************************************)
EXTENDS GatewayWorkerProperties, WorkerLoopProofs

USE DEF Terminal, Active

GatewayType ==
    /\ runs \in [Runs -> GatewayRun]
    /\ work \in [Tasks -> [1..MaxClaims -> Work]]

KnownRun(x) == runs[x].known => runs[x].state # "unused"

\* What a job has seen of its run, by the point the job is at.
WorkFits(p, l) ==
    /\ l.seen \in Over => l.run # NoRun
    /\ p \in {"none", "offered", "new"} => l = NoWork
    /\ p \in {"look", "attach", "reattach", "loop", "session", "poll", "stop", "confirm"} =>
          l.run # NoRun
    /\ p = "report" /\ l.why \in {"ended", "deadline"} => l.seen \in Over

JobFits(t, k) ==
    /\ WorkFits(jobs[t][k].pc, work[t][k])
    /\ work[t][k].seen \in Over => runs[work[t][k].run].state = work[t][k].seen

\* The job of the newest claim knows the number of the attempt.
AttemptFits(t, k) ==
    jobs[t][k].pc # "none" /\ k = Len(tasks[t].claim.issued) =>
        jobs[t][k].task.attempt = tasks[t].attempt.count

\* A run was started for an attempt of a task.
StartedFor(table, x, t, attempt) ==
    x # NoRun => table[x].state # "unused" /\ table[x].key = <<t, attempt>>

\* So were the runs that a job knows.
KeyFits(t, k) ==
    jobs[t][k].pc # "none" =>
        /\ StartedFor(runs, jobs[t][k].task.run, t, jobs[t][k].task.attempt)
        /\ StartedFor(runs, work[t][k].run, t, jobs[t][k].task.attempt)

\* And the run on record.
RunFits(t) == StartedFor(runs, tasks[t].remote.run, t, tasks[t].attempt.count)

\* SuccessIsTrue, but for the key.
TrueResult(t) ==
    tasks[t].status = "succeeded" =>
        /\ tasks[t].remote.run # NoRun
        /\ runs[tasks[t].remote.run].state = "succeeded"

KeysFit ==
    /\ \A t \in Tasks, k \in 1..MaxClaims : KeyFits(t, k)
    /\ \A t \in Tasks : RunFits(t)

GatewayInv ==
    /\ LoopInv
    /\ GatewayType
    /\ \A x \in Runs : KnownRun(x)
    /\ \A t \in Tasks, k \in 1..MaxClaims : JobFits(t, k) /\ AttemptFits(t, k)
    /\ \A t \in Tasks : TrueResult(t)
    /\ RoomForOneTask => KeysFit

-----------------------------------------------------------------------------
(* What a step leaves of the jobs it is not about *)

\* A run that was started keeps its key, and one that is over stays so.
RunsGoOn ==
    \A x \in Runs :
        /\ runs[x].state # "unused" =>
              runs'[x].state # "unused" /\ runs'[x].key = runs[x].key
        /\ runs[x].state \in Over => runs'[x].state = runs[x].state

\* The number of the attempt changes only with a new claim.
LEMMA AttemptStays ==
    ASSUME StoreInv, [Next]_vars, NEW t \in Tasks,
           tasks'[t].claim.issued = tasks[t].claim.issued, tasks[t].claim.issued # <<>>
    PROVE  tasks'[t].attempt.count = tasks[t].attempt.count
<1>1. /\ Moved(tasks[t], tasks'[t]) /\ RowInv(tasks[t]) /\ UnbornUnclaimed(tasks[t])
      /\ tasks[t].claim.issued \in Seq(Workers)
  <2>1. IInv /\ RowInv(tasks[t]) /\ UnbornUnclaimed(tasks[t])
    BY DEF StoreInv, IInv
  <2>2. Moved(tasks[t], tasks'[t])
    BY <2>1, StepsByRow, StepParts, Zenon DEF AllSteps
  <2> QED
    BY <2>1, <2>2 DEF IInv, Row, Claim
<1>2. ASSUME NEW r, NEW s, Moved(r, s), UnbornUnclaimed(r), r.claim.issued \in Seq(Workers),
             s.claim.issued = r.claim.issued, r.claim.issued # <<>>
      PROVE  s.attempt.count = r.attempt.count
  <2>1. CASE s = r \/ SameTask(r, s)
    BY <2>1 DEF SameTask
  <2>2. CASE WasStated(r, s)
    BY <1>2, <2>2 DEF WasStated, SameTask, UnbornUnclaimed
  <2>3. ASSUME NEW m, m = r \/ Swept(r, m) \/ Kept(r, m),
               s = m \/ Effect(m, s) \/ WasPlanned(m, s)
        PROVE  s.attempt.count = r.attempt.count
    <3>1. m.claim.issued = r.claim.issued /\ m.attempt.count = r.attempt.count
      BY <2>3 DEF Swept, Kept, SameTask
    <3>2. ASSUME NEW w \in Workers PROVE s.claim.issued # Append(m.claim.issued, w)
      BY <1>2, <3>1
    <3>3. s = m \/ HolderEffect(m, s) \/ WasPlanned(m, s)
      BY <2>3, <3>2 DEF Effect, WasGranted
    <3> QED
      BY <3>1, <3>3 DEF HolderEffect, WentOn, WasAttached, WasParked, WasReported, WasPlanned,
                        SameTask
  <2> QED
    BY <1>2, <2>1, <2>2, <2>3 DEF Moved
<1> QED
  BY <1>1, <1>2

\* What the job has seen of its run is still so.
LEMMA QuietJob ==
    ASSUME GatewayInv, RunsGoOn, NEW t \in Tasks, NEW k \in 1..MaxClaims,
           \/ LoopMoved(t, k) /\ work'[t][k] = work[t][k]
           \/ jobs'[t][k].pc = "none" /\ work'[t][k] = NoWork
    PROVE  JobFits(t, k)'
<1>1. JobFits(t, k) /\ work[t][k] \in Work
  BY DEF GatewayInv, GatewayType
<1>2. CASE LoopMoved(t, k) /\ work'[t][k] = work[t][k]
  <2>1. \/ jobs'[t][k].pc = jobs[t][k].pc
        \/ /\ jobs[t][k].pc \in {"none", "offered"}
           /\ jobs'[t][k].pc \in {"none", "offered", "new"}
    BY <1>2 DEF LoopMoved, SameJob, Opened, JobAt, Received, Lost
  <2>2. WorkFits(jobs[t][k].pc, work[t][k]) => WorkFits(jobs'[t][k].pc, work[t][k])
    BY <2>1 DEF WorkFits
  <2>3. work[t][k].seen \in Over => work[t][k].run \in Runs
    BY <1>1 DEF JobFits, WorkFits, Work
  <2> QED
    BY <1>1, <1>2, <2>2, <2>3 DEF JobFits, RunsGoOn
<1>3. CASE jobs'[t][k].pc = "none" /\ work'[t][k] = NoWork
  BY <1>3 DEF JobFits, WorkFits, NoWork, Over
<1> QED
  BY <1>2, <1>3

\* A job's claim is the newest, or another has been issued.
LEMMA QuietAttempt ==
    ASSUME GatewayInv, [Next]_vars, NEW t \in Tasks, NEW k \in 1..MaxClaims,
           \/ LoopMoved(t, k)
           \/ jobs'[t][k].pc = "none"
           \/ jobs[t][k].pc # "none" /\ jobs'[t][k].task.attempt = jobs[t][k].task.attempt
    PROVE  AttemptFits(t, k)'
<1> SUFFICES ASSUME jobs'[t][k].pc # "none", k = Len(tasks'[t].claim.issued)
             PROVE  jobs'[t][k].task.attempt = tasks'[t].attempt.count
  BY DEF AttemptFits
<1>1. CASE Opened(t, k)
  BY <1>1 DEF Opened, JobAt, Snapshot
<1>2. CASE jobs[t][k].pc # "none" /\ jobs'[t][k].task.attempt = jobs[t][k].task.attempt
  <2>1. k \in DOMAIN tasks[t].claim.issued /\ StoreInv
    BY <1>2 DEF GatewayInv, LoopInv, JobsIssued
  <2>2. PICK old \in Seq(Workers) :
            /\ old = tasks[t].claim.issued
            /\ \/ tasks'[t].claim.issued = old
               \/ \E w \in Workers : tasks'[t].claim.issued = Append(old, w)
    BY <2>1, IssuedGrows
  <2>3. tasks'[t].claim.issued = tasks[t].claim.issued
    <3>1. k \in 1..Len(old) /\ k = Len(tasks'[t].claim.issued)
      <4>1. DOMAIN old = 1..Len(old)
        OBVIOUS
      <4>2. k \in DOMAIN old
        BY <2>1, <2>2
      <4> QED
        BY <4>1, <4>2
    <3>2. ASSUME NEW w \in Workers PROVE tasks'[t].claim.issued # Append(old, w)
      <4>1. Len(Append(old, w)) = Len(old) + 1 /\ Len(old) \in Nat
        OBVIOUS
      <4> QED
        BY <3>1, <4>1
    <3> QED
      BY <2>2, <3>2
  <2>4. tasks[t].claim.issued # <<>>
    BY <2>1
  <2>5. tasks'[t].attempt.count = tasks[t].attempt.count
    BY <2>1, <2>3, <2>4, AttemptStays
  <2> QED
    BY <1>2, <2>3, <2>5 DEF GatewayInv, AttemptFits
<1>3. jobs[t][k].task \in Carried
  BY DEF GatewayInv, LoopInv, LoopType, Job
<1>4. SameJob(t, k) \/ Received(t, k) =>
          jobs[t][k].pc # "none" /\ jobs'[t][k].task.attempt = jobs[t][k].task.attempt
  BY <1>3 DEF SameJob, Received, Carried
<1> QED
  BY <1>1, <1>2, <1>4 DEF LoopMoved, Lost

\* A run on record stays the run of the attempt.
LEMMA QuietRun ==
    ASSUME GatewayInv, RoomForOneTask, RunsGoOn, NEW t \in Tasks,
           SameRun(tasks[t], tasks'[t])
    PROVE  RunFits(t)'
<1>1. RunFits(t) /\ tasks[t].remote.run \in Runs \cup {NoRun}
  BY DEF GatewayInv, KeysFit, LoopInv, StoreInv, IInv, Row, Remote
<1> QED
  BY <1>1 DEF SameRun, RunFits, StartedFor, RunsGoOn

\* So do the runs that a job knows.
LEMMA QuietKey ==
    ASSUME GatewayInv, RoomForOneTask, RunsGoOn, NEW t \in Tasks, NEW k \in 1..MaxClaims,
           RunFits(t)',
           \/ LoopMoved(t, k) /\ work'[t][k] = work[t][k]
           \/ jobs'[t][k].pc = "none"
    PROVE  KeyFits(t, k)'
<1>1. /\ KeyFits(t, k) /\ JobFits(t, k) /\ work[t][k].run \in Runs \cup {NoRun}
      /\ jobs[t][k].task \in Carried
  BY DEF GatewayInv, KeysFit, GatewayType, Work, LoopInv, LoopType, Job
<1>2. CASE Opened(t, k) /\ work'[t][k] = work[t][k]
  <2>1. work'[t][k] = NoWork
    BY <1>1, <1>2 DEF Opened, JobFits, WorkFits
  <2>2. /\ jobs'[t][k].task.attempt = tasks'[t].attempt.count
        /\ jobs'[t][k].task.run \in {NoRun, tasks'[t].remote.run}
    BY <1>2 DEF Opened, JobAt, Snapshot
  <2> QED
    BY <2>1, <2>2 DEF KeyFits, RunFits, StartedFor, NoWork
<1>3. ASSUME SameJob(t, k) \/ Received(t, k), work'[t][k] = work[t][k]
      PROVE  KeyFits(t, k)'
  <2>1. /\ jobs'[t][k].task.attempt = jobs[t][k].task.attempt
        /\ jobs'[t][k].task.run = jobs[t][k].task.run
        /\ jobs'[t][k].pc # "none" => jobs[t][k].pc # "none"
        /\ jobs[t][k].task.run \in Runs \cup {NoRun}
    BY <1>1, <1>3 DEF SameJob, Received, Carried
  <2> QED
    BY <1>1, <1>3, <2>1 DEF KeyFits, StartedFor, RunsGoOn
<1> QED
  BY <1>2, <1>3 DEF LoopMoved, Lost, KeyFits

\* A success stays true.
LEMMA QuietResult ==
    ASSUME GatewayInv, [Next]_vars, RunsGoOn, NEW t \in Tasks,
           tasks'[t].status = "succeeded" => tasks[t].status = "succeeded"
    PROVE  TrueResult(t)'
<1> SUFFICES ASSUME tasks'[t].status = "succeeded"
             PROVE  /\ tasks'[t].remote.run # NoRun
                    /\ runs'[tasks'[t].remote.run].state = "succeeded"
  BY DEF TrueResult
<1>1. tasks[t].status = "succeeded" /\ TrueResult(t)
  BY DEF GatewayInv
<1>2. SettledStays(tasks[t], tasks'[t]) /\ tasks[t] \in Row
  BY SettledStep DEF GatewayInv, LoopInv, StoreInv, IInv
<1>3. tasks'[t] = [tasks[t] EXCEPT !.outbox.acked = tasks'[t].outbox.acked]
  BY <1>1, <1>2 DEF SettledStays
<1>4. tasks'[t].remote = tasks[t].remote /\ tasks[t].remote.run \in Runs \cup {NoRun}
  BY <1>2, <1>3 DEF Row, Remote
<1> QED
  BY <1>1, <1>4 DEF TrueResult, RunsGoOn, Over

\* A step is sound that moves jobs only at their beginning or ends them, reports
\* nothing and records no run.
LEMMA QuietInv ==
    ASSUME GatewayInv, [Next]_vars, LoopInv', GatewayType', RunsGoOn,
           \A x \in Runs : KnownRun(x)',
           \A t \in Tasks : /\ tasks'[t].status = "succeeded" => tasks[t].status = "succeeded"
                            /\ SameRun(tasks[t], tasks'[t]),
           \A t \in Tasks, k \in 1..MaxClaims :
              \/ LoopMoved(t, k) /\ work'[t][k] = work[t][k]
              \/ jobs'[t][k].pc = "none" /\ work'[t][k] = NoWork
    PROVE  GatewayInv'
<1>1. \A t \in Tasks, k \in 1..MaxClaims : JobFits(t, k)' /\ AttemptFits(t, k)'
  BY QuietJob, QuietAttempt
<1>2. \A t \in Tasks : TrueResult(t)'
  BY QuietResult
<1>3. ASSUME RoomForOneTask PROVE KeysFit'
  <2>1. \A t \in Tasks : RunFits(t)'
    BY <1>3, QuietRun
  <2>2. \A t \in Tasks, k \in 1..MaxClaims : KeyFits(t, k)'
    BY <1>3, <2>1, QuietKey
  <2> QED
    BY <2>1, <2>2 DEF KeysFit
<1> QED
  BY <1>1, <1>2, <1>3 DEF GatewayInv, RoomForOneTask

\* What a step that leaves the tasks alone has to show of them.
LEMMA TasksStay ==
    ASSUME IInv, UNCHANGED vars
    PROVE  /\ [Next]_vars
           /\ \A t \in Tasks : /\ tasks'[t].status = "succeeded" => tasks[t].status = "succeeded"
                               /\ SameRun(tasks[t], tasks'[t])
BY DEF vars, SameRun

\* The steps of the loop and of everybody else.
LEMMA AroundInv ==
    ASSUME GatewayInv, UNCHANGED <<runs, work>>,
           \/ \E w \in Workers : LoopStep(w) \/ SendHeartbeat(w) \/ BreakLoop(w)
           \/ OthersNext \/ Passing
    PROVE  GatewayInv' /\ [Next]_vars
<1>1. /\ LoopInv' /\ [Next]_vars /\ UnattachedStep
      /\ \A t \in Tasks, k \in 1..MaxClaims : LoopMoved(t, k)
  BY LoopEffects DEF GatewayInv
<1>2. \A t \in Tasks : /\ tasks'[t].status = "succeeded" => tasks[t].status = "succeeded"
                       /\ SameRun(tasks[t], tasks'[t])
  BY <1>1, UnreportedSucceeds DEF GatewayInv, LoopInv, StoreInv
<1>3. GatewayType' /\ RunsGoOn /\ \A x \in Runs : KnownRun(x)'
  BY DEF GatewayInv, GatewayType, RunsGoOn, KnownRun
<1> QED
  BY <1>1, <1>2, <1>3, QuietInv

\* A process that is gone takes its jobs with it, and leaves the runs.
LEMMA VanishInv ==
    ASSUME GatewayInv, NEW w \in Workers, Crash(w) \/ Exit(w), Vanish(w), UNCHANGED runs
    PROVE  GatewayInv' /\ [Next]_vars
<1>1. LoopInv' /\ UNCHANGED vars
  BY GoneInv DEF GatewayInv
<1>2. /\ jobs' = [t \in Tasks |-> [k \in 1..MaxClaims |->
                     IF Holds(w, t, k) THEN NoJob ELSE jobs[t][k]]]
      /\ work' = [t \in Tasks |-> [k \in 1..MaxClaims |->
                     IF Holds(w, t, k) THEN NoWork ELSE work[t][k]]]
  BY DEF Crash, Exit, Vanish
<1>3. NoWork \in Work
  BY DEF NoWork, Work, Reasons
<1>4. GatewayType' /\ RunsGoOn /\ \A x \in Runs : KnownRun(x)'
  BY <1>2, <1>3 DEF GatewayInv, GatewayType, RunsGoOn, KnownRun
<1>5. \A t \in Tasks, k \in 1..MaxClaims :
          \/ LoopMoved(t, k) /\ work'[t][k] = work[t][k]
          \/ jobs'[t][k].pc = "none" /\ work'[t][k] = NoWork
  BY <1>2, JobFacts DEF LoopMoved, SameJob
<1> QED
  BY <1>1, <1>4, <1>5, TasksStay, QuietInv DEF GatewayInv, LoopInv, StoreInv

\* Steps that move no job and tell the coordinator nothing.
LEMMA StillInv ==
    ASSUME GatewayInv, UNCHANGED <<vars, jobs, work>>, LoopType', \A v \in Workers : SameEntries(v),
           runs' \in [Runs -> GatewayRun], RunsGoOn, \A x \in Runs : KnownRun(x)'
    PROVE  GatewayInv' /\ [Next]_vars
<1>1. [Next]_vars
  OBVIOUS
<1>2. LoopInv'
  BY <1>1, GoingOn DEF GatewayInv, JobsGoOn
<1>3. GatewayType' /\ \A t \in Tasks, k \in 1..MaxClaims : LoopMoved(t, k)
  BY DEF GatewayInv, GatewayType, LoopMoved, SameJob
<1> QED
  BY <1>1, <1>2, <1>3, TasksStay, QuietInv DEF GatewayInv, LoopInv, StoreInv

\* The heartbeat loop hears of cancellations.
LEMMA HearCancellationsInv ==
    ASSUME GatewayInv, NEW w \in Workers, HearCancellations(w)
    PROVE  GatewayInv' /\ [Next]_vars
<1>1. /\ UNCHANGED <<vars, jobs, crashes, runs, work>>
      /\ proc' = [proc EXCEPT ![w].cancelled = @ \cup proc[w].heard, ![w].heard = {}]
  BY DEF HearCancellations
<1>2. proc' \in [Workers -> Process] /\ \A v \in Workers : SameEntries(v)
  <2> DEFINE q == [proc[w] EXCEPT !.cancelled = proc[w].cancelled \cup proc[w].heard,
                                  !.heard = {}]
  <2>1. proc \in [Workers -> Process]
    BY DEF GatewayInv, LoopInv, LoopType
  <2>2. proc' = [proc EXCEPT ![w] = q]
    BY <1>1
  <2>3. /\ q \in Process /\ q.active = proc[w].active /\ q.tokens = proc[w].tokens
        /\ q.state = proc[w].state
    BY <2>1 DEF Process
  <2> HIDE DEF q
  <2> QED
    BY <2>1, <2>2, <2>3 DEF SameEntries
<1>3. /\ LoopType' /\ runs' \in [Runs -> GatewayRun] /\ RunsGoOn
      /\ \A x \in Runs : KnownRun(x)'
  BY <1>1, <1>2 DEF GatewayInv, LoopInv, LoopType, GatewayType, RunsGoOn, KnownRun
<1> QED
  BY <1>1, <1>2, <1>3, StillInv

-----------------------------------------------------------------------------
(* What becomes of the runs *)

\* A run gets another state.
LEMMA RunChanged ==
    ASSUME GatewayInv, NEW x \in Runs, NEW q \in GatewayRun,
           runs' = [runs EXCEPT ![x] = q],
           runs[x].state # "unused" => q.state # "unused" /\ q.key = runs[x].key,
           runs[x].state \in Over => q.state = runs[x].state,
           q.known => q.state # "unused"
    PROVE  /\ runs' \in [Runs -> GatewayRun] /\ RunsGoOn /\ \A y \in Runs : KnownRun(y)'
           /\ runs'[x] = q
<1>1. runs \in [Runs -> GatewayRun] /\ \A y \in Runs : KnownRun(y)
  BY DEF GatewayInv, GatewayType
<1> QED
  BY <1>1 DEF RunsGoOn, KnownRun

\* The gateway answers a request to start a run.
LEMMA StartedRun ==
    ASSUME GatewayInv, NEW key \in (Tasks \X Nat), NEW x \in StartedBy(key), StartRun(x, key)
    PROVE  /\ runs' \in [Runs -> GatewayRun] /\ RunsGoOn /\ \A y \in Runs : KnownRun(y)'
           /\ x \in Runs /\ runs'[x].state # "unused" /\ runs'[x].key = key
<1>1. /\ x \in Runs /\ runs \in [Runs -> GatewayRun] /\ \A y \in Runs : KnownRun(y)
      /\ \/ runs[x].known /\ runs[x].key = key
         \/ runs[x].state = "unused"
  BY DEF StartedBy, GatewayInv, GatewayType
<1>2. CASE runs[x].state # "unused"
  BY <1>1, <1>2 DEF StartRun, RunsGoOn, KnownRun
<1>3. CASE runs[x].state = "unused"
  <2> DEFINE q == [state |-> "active", key |-> key, known |-> TRUE]
  <2>1. q \in GatewayRun /\ q.state # "unused" /\ q.key = key
    BY DEF GatewayRun, Live
  <2>2. runs' = [runs EXCEPT ![x] = q]
    BY <1>3 DEF StartRun
  <2> HIDE DEF q
  <2>3. runs[x].state \notin Over
    BY <1>3 DEF Over
  <2> QED
    BY <1>1, <1>3, <2>1, <2>2, <2>3, RunChanged
<1> QED
  BY <1>2, <1>3

\* The gateway answers a request to stop one.
LEMMA StoppedRun ==
    ASSUME GatewayInv, NEW x \in Runs, StopRun(x)
    PROVE  /\ runs' \in [Runs -> GatewayRun] /\ RunsGoOn /\ \A y \in Runs : KnownRun(y)'
<1> DEFINE s == IF runs[x].state = "active" THEN "stopping" ELSE runs[x].state
           q == [runs[x] EXCEPT !.state = s]
<1>1. runs \in [Runs -> GatewayRun] /\ runs[x] \in GatewayRun /\ KnownRun(x)
  BY DEF GatewayInv, GatewayType
<1>2. s \in {"unused"} \cup Live \cup Over
  BY <1>1 DEF GatewayRun, Live
<1>3. /\ q \in GatewayRun /\ q.key = runs[x].key /\ q.state = s /\ q.known = runs[x].known
  BY <1>1, <1>2 DEF GatewayRun
<1>4. runs' = [runs EXCEPT ![x] = q]
  BY DEF StopRun
<1> HIDE DEF q
<1> QED
  BY <1>1, <1>3, <1>4, RunChanged DEF Over, KnownRun

\* A run ends, or the gateway loses it.
LEMMA RunEndsInv ==
    ASSUME GatewayInv, NEW x \in Runs, RunEnds(x) \/ ForgetRun(x)
    PROVE  GatewayInv' /\ [Next]_vars
<1>1. runs \in [Runs -> GatewayRun] /\ runs[x] \in GatewayRun /\ KnownRun(x)
  BY DEF GatewayInv, GatewayType
<1>2. UNCHANGED <<vars, loopVars, work>>
  BY DEF RunEnds, ForgetRun
<1>3. runs' \in [Runs -> GatewayRun] /\ RunsGoOn /\ \A y \in Runs : KnownRun(y)'
  <2>1. CASE RunEnds(x)
    <3>1. PICK state \in Over : /\ runs[x].state \in {"active", "stopping"}
                                /\ runs' = [runs EXCEPT ![x].state = state]
      BY <2>1, EndsAssumption DEF RunEnds, Live
    <3> DEFINE q == [runs[x] EXCEPT !.state = state]
    <3>2. /\ q \in GatewayRun /\ q.key = runs[x].key /\ q.state = state
          /\ state # "unused" /\ runs[x].state \notin Over
      BY <1>1, <3>1 DEF GatewayRun, Over
    <3>3. runs' = [runs EXCEPT ![x] = q]
      BY <3>1
    <3> HIDE DEF q
    <3> QED
      BY <3>2, <3>3, RunChanged
  <2>2. CASE ForgetRun(x)
    <3> DEFINE s == IF runs[x].state \in Live THEN "failed" ELSE runs[x].state
               q == [runs[x] EXCEPT !.known = FALSE, !.state = s]
    <3>1. s \in {"unused"} \cup Live \cup Over
      BY <1>1 DEF GatewayRun, Over
    <3>2. q \in GatewayRun /\ q.key = runs[x].key /\ q.state = s /\ ~q.known
      BY <1>1, <3>1 DEF GatewayRun
    <3>3. runs' = [runs EXCEPT ![x] = q]
      BY <1>1, <2>2 DEF ForgetRun
    <3> HIDE DEF q
    <3>4. runs[x].state \in Over => s = runs[x].state
      BY DEF Over, Live
    <3>5. runs[x].state # "unused" => s # "unused"
      OBVIOUS
    <3> QED
      BY <3>2, <3>3, <3>4, <3>5, RunChanged
  <2> QED
    BY <2>1, <2>2
<1>4. LoopType' /\ \A v \in Workers : SameEntries(v)
  BY <1>2 DEF loopVars, SameEntries, GatewayInv, LoopInv, LoopType
<1> QED
  BY <1>2, <1>3, <1>4, StillInv DEF loopVars

-----------------------------------------------------------------------------
(* Steps of run_task *)

\* The point a job goes on to.
LEMMA Went ==
    ASSUME GatewayInv, NEW t \in Tasks, NEW k \in 1..MaxClaims, NEW p \in Points,
           NEW l \in Work, Go(t, k, p, l)
    PROVE  /\ jobs' \in [Tasks -> [1..MaxClaims -> Job]] /\ jobs'[t][k].pc = p
           /\ jobs'[t][k].task.attempt = jobs[t][k].task.attempt
           /\ jobs'[t][k].task.run = jobs[t][k].task.run
           /\ work' \in [Tasks -> [1..MaxClaims -> Work]] /\ work'[t][k] = l
           /\ UNCHANGED <<proc, crashes>>
           /\ \A u \in Tasks, j \in 1..MaxClaims : <<u, j>> # <<t, k>> =>
                 jobs'[u][j] = jobs[u][j] /\ work'[u][j] = work[u][j]
<1> DEFINE c == jobs[t][k].task
           b == IF p = "loop" /\ c.budget = NoTime THEN TaskTimeout ELSE c.budget
           d == [c EXCEPT !.budget = b]
           q == [pc |-> p, task |-> d]
<1>1. /\ jobs \in [Tasks -> [1..MaxClaims -> Job]] /\ c \in Carried
      /\ jobs[t][k] = [pc |-> jobs[t][k].pc, task |-> c]
  BY DEF GatewayInv, LoopInv, LoopType, Job
<1>2. b \in Timer
  BY <1>1, TimerFacts DEF Carried
<1>3. d \in Carried /\ d.attempt = c.attempt /\ d.run = c.run
  BY <1>1, <1>2 DEF Carried
<1>4. q \in Job /\ q.pc = p /\ q.task = d
  BY <1>3 DEF Job
<1>5. jobs' = [jobs EXCEPT ![t] = [jobs[t] EXCEPT ![k] = q]]
  <2>1. Enter(jobs[t][k], p) = q
    BY <1>1 DEF Enter
  <2>2. jobs' = [jobs EXCEPT ![t][k] = Enter(jobs[t][k], p)]
    BY DEF Go
  <2> QED
    BY <2>1, <2>2
<1> HIDE DEF q
<1>6. /\ jobs' \in [Tasks -> [1..MaxClaims -> Job]] /\ jobs'[t][k] = q
      /\ \A u \in Tasks, j \in 1..MaxClaims :
            <<u, j>> # <<t, k>> => jobs'[u][j] = jobs[u][j]
  BY <1>1, <1>4, <1>5
<1>7. /\ work' \in [Tasks -> [1..MaxClaims -> Work]] /\ work'[t][k] = l
      /\ \A u \in Tasks, j \in 1..MaxClaims :
            <<u, j>> # <<t, k>> => work'[u][j] = work[u][j]
  BY DEF Go, GatewayInv, GatewayType
<1> QED
  BY <1>3, <1>4, <1>6, <1>7 DEF Go

\* What a step has to show of the table.
RowsFit ==
    /\ \A u \in Tasks : TrueResult(u)'
    /\ RoomForOneTask => \A u \in Tasks : RunFits(u)'

\* If it reports and records nothing, it is so.
LEMMA QuietRows ==
    ASSUME GatewayInv, [Next]_vars, RunsGoOn,
           \A t \in Tasks : /\ tasks'[t].status = "succeeded" => tasks[t].status = "succeeded"
                            /\ SameRun(tasks[t], tasks'[t])
    PROVE  RowsFit
BY QuietResult, QuietRun DEF RowsFit

\* What a step of job k of task t leaves of the other jobs.
LEMMA ApartInv ==
    ASSUME GatewayInv, NEW t \in Tasks, NEW k \in 1..MaxClaims, [Next]_vars, LoopInv',
           GatewayType', RunsGoOn, \A x \in Runs : KnownRun(x)', RowsFit,
           \A u \in Tasks, j \in 1..MaxClaims : <<u, j>> # <<t, k>> =>
              jobs'[u][j] = jobs[u][j] /\ work'[u][j] = work[u][j],
           JobFits(t, k)', AttemptFits(t, k)', RoomForOneTask => KeyFits(t, k)'
    PROVE  GatewayInv'
<1>1. ASSUME NEW u \in Tasks, NEW j \in 1..MaxClaims, <<u, j>> # <<t, k>>
      PROVE  /\ JobFits(u, j)' /\ AttemptFits(u, j)'
             /\ RoomForOneTask => KeyFits(u, j)'
  <2>1. LoopMoved(u, j) /\ work'[u][j] = work[u][j]
    BY <1>1 DEF LoopMoved, SameJob
  <2>2. JobFits(u, j)' /\ AttemptFits(u, j)'
    BY <2>1, QuietJob, QuietAttempt
  <2>3. RoomForOneTask => KeyFits(u, j)'
    BY <2>1, QuietKey DEF RowsFit
  <2> QED
    BY <2>2, <2>3
<1>2. \A u \in Tasks, j \in 1..MaxClaims : JobFits(u, j)' /\ AttemptFits(u, j)'
  BY <1>1
<1>3. RoomForOneTask => KeysFit'
  BY <1>1 DEF KeysFit, RowsFit
<1> QED
  BY <1>2, <1>3 DEF GatewayInv, RowsFit, RoomForOneTask

\* A job goes on.
LEMMA AdvanceInv ==
    ASSUME GatewayInv, NEW t \in Tasks, NEW k \in 1..MaxClaims,
           Alive(jobs[t][k]), [Next]_vars,
           runs' \in [Runs -> GatewayRun], RunsGoOn, \A x \in Runs : KnownRun(x)', RowsFit,
           NEW p \in Points \ {"none", "offered"}, NEW l \in Work, Go(t, k, p, l),
           \* the point it goes to fits the run
           WorkFits(p, l), l.seen \in Over => runs'[l.run].state = l.seen,
           RoomForOneTask => StartedFor(runs', l.run, t, jobs[t][k].task.attempt)
    PROVE  GatewayInv'
<1>1. /\ jobs' \in [Tasks -> [1..MaxClaims -> Job]] /\ jobs'[t][k].pc = p
      /\ jobs'[t][k].task.attempt = jobs[t][k].task.attempt
      /\ jobs'[t][k].task.run = jobs[t][k].task.run
      /\ work' \in [Tasks -> [1..MaxClaims -> Work]] /\ work'[t][k] = l
      /\ UNCHANGED <<proc, crashes>>
      /\ \A u \in Tasks, j \in 1..MaxClaims : <<u, j>> # <<t, k>> =>
            jobs'[u][j] = jobs[u][j] /\ work'[u][j] = work[u][j]
  BY Went
<1>2. jobs[t][k].pc # "none" /\ jobs[t][k].task.run \in Runs \cup {NoRun}
  BY DEF Alive, GatewayInv, LoopInv, LoopType, Job, Carried
<1>3. LoopInv'
  <2>1. LoopType'
    BY <1>1 DEF GatewayInv, LoopInv, LoopType
  <2>2. JobsGoOn
    BY <1>1 DEF JobsGoOn, SameEntries, Alive
  <2> QED
    BY <2>1, <2>2, GoingOn DEF GatewayInv
<1>4. GatewayType'
  BY <1>1 DEF GatewayType
<1>5. JobFits(t, k)'
  BY <1>1 DEF JobFits
<1>6. AttemptFits(t, k)'
  BY <1>1, <1>2, QuietAttempt
<1>7. RoomForOneTask => KeyFits(t, k)'
  <2>1. RoomForOneTask => StartedFor(runs, jobs[t][k].task.run, t, jobs[t][k].task.attempt)
    BY <1>2 DEF GatewayInv, KeysFit, KeyFits
  <2>2. RoomForOneTask => StartedFor(runs', jobs[t][k].task.run, t, jobs[t][k].task.attempt)
    BY <1>2, <2>1 DEF StartedFor, RunsGoOn
  <2> QED
    BY <1>1, <2>2 DEF KeyFits
<1> QED
  BY <1>1, <1>3, <1>4, <1>5, <1>6, <1>7, ApartInv

\* A job ends.
LEMMA EndInv ==
    ASSUME GatewayInv, NEW w \in Workers, NEW t \in Tasks, NEW k \in 1..MaxClaims,
           Holds(w, t, k), Alive(jobs[t][k]), [Next]_vars, UNCHANGED runs, RowsFit,
           End(w, t, k)
    PROVE  GatewayInv'
<1>1. LoopInv'
  BY EndedInv DEF GatewayInv, End, Alive
<1>2. /\ jobs \in [Tasks -> [1..MaxClaims -> Job]]
      /\ work \in [Tasks -> [1..MaxClaims -> Work]] /\ NoWork \in Work
  BY DEF GatewayInv, LoopInv, LoopType, GatewayType, NoWork, Work, Reasons
<1>3. jobs' = [jobs EXCEPT ![t][k] = NoJob] /\ work' = [work EXCEPT ![t][k] = NoWork]
  BY DEF End, Ended
<1>4. /\ jobs'[t][k].pc = "none" /\ work'[t][k] = NoWork
      /\ \A u \in Tasks, j \in 1..MaxClaims : <<u, j>> # <<t, k>> =>
            jobs'[u][j] = jobs[u][j] /\ work'[u][j] = work[u][j]
  BY <1>2, <1>3, JobFacts
<1>5. GatewayType' /\ RunsGoOn /\ \A x \in Runs : KnownRun(x)'
  BY <1>2, <1>3 DEF GatewayInv, GatewayType, RunsGoOn, KnownRun
<1>6. JobFits(t, k)' /\ AttemptFits(t, k)'
  BY <1>4, <1>5, QuietJob, QuietAttempt
<1>7. RoomForOneTask => KeyFits(t, k)'
  BY <1>4 DEF KeyFits
<1> QED
  BY <1>1, <1>4, <1>5, <1>6, <1>7, ApartInv

\* The token a job goes by was issued to its process, and is its own if the
\* process has one job.
LEMMA TokenFacts ==
    ASSUME GatewayInv, NEW w \in Workers, NEW t \in Tasks, NEW k \in 1..MaxClaims,
           Holds(w, t, k), Alive(jobs[t][k])
    PROVE  /\ Token(w, t) # 0 => Holds(w, t, Token(w, t)) /\ Token(w, t) \in 1..MaxClaims
           /\ Token(w, t) \in Nat
           /\ RoomForOneTask => Token(w, t) = k
<1>1. Token(w, t) \in 0..MaxClaims /\ MaxClaims \in Nat
  BY WorkerAssumption DEF Token, GatewayInv, LoopInv, LoopType, Process
<1>2. Token(w, t) # 0 => Holds(w, t, Token(w, t))
  BY DEF Token, GatewayInv, LoopInv, TokensHeld
<1>3. RoomForOneTask => Token(w, t) = k
  <2>1. <<t, k>> \in JobsOf(w)
    BY DEF JobsOf, Alive
  <2> QED
    BY <2>1 DEF Token, RoomForOneTask, GatewayInv, LoopInv, OneJobEach, OneJob
<1> QED
  BY <1>1, <1>2, <1>3

-----------------------------------------------------------------------------
(* Calls of a job to the coordinator *)

\* A job has a run recorded that was started for the newest attempt.
LEMMA AttachRows ==
    ASSUME GatewayInv, NEW w \in Workers, NEW t \in Tasks, NEW k \in 1..MaxClaims,
           Holds(w, t, k), Alive(jobs[t][k]), Token(w, t) # 0, UNCHANGED runs,
           work[t][k].run # NoRun, NEW answer \in Answers, CallAttach(w, t, k, answer)
    PROVE  [Next]_vars /\ RowsFit
<1> DEFINE n == Token(w, t)
           run == work[t][k].run
<1>1. /\ Holds(w, t, n) /\ n \in 1..MaxClaims /\ n \in Nat
      /\ RoomForOneTask => n = k
  BY TokenFacts
<1>2. run \in Runs
  BY DEF GatewayInv, GatewayType, Work
<1>3. UNCHANGED vars \/ AttachRemoteRun(t, w, n, run)
  BY DEF CallAttach, Calls
<1>4. [Next]_vars /\ IInv /\ RunsGoOn
  BY <1>1, <1>2, <1>3 DEF Next, ClaimCall, GatewayInv, LoopInv, StoreInv, RunsGoOn
<1>5. CASE UNCHANGED vars
  BY <1>4, <1>5, TasksStay, QuietRows
<1>6. CASE AttachRemoteRun(t, w, n, run)
  <2>1. PICK o \in Nat, x \in Runs : o = n /\ x = run /\ AttachRemoteRun(t, w, o, x)
    BY <1>1, <1>2, <1>6
  <2>2. \A u \in Tasks :
            /\ tasks'[u].status = "succeeded" => tasks[u].status = "succeeded"
            /\ u # t => SameRun(tasks[u], tasks'[u])
    BY <1>4, <2>1, AttachmentEffect
  <2>3. /\ tasks'[t].remote.run = x /\ o = Len(tasks[t].claim.issued)
        /\ tasks'[t].attempt.count = tasks[t].attempt.count
    BY <1>4, <2>1, AttachmentEffect
  <2>4. \A u \in Tasks : TrueResult(u)'
    BY <1>4, <2>2, QuietResult
  <2>5. ASSUME RoomForOneTask PROVE \A u \in Tasks : RunFits(u)'
    <3>1. \A u \in Tasks : u # t => RunFits(u)'
      BY <1>4, <2>2, <2>5, QuietRun
    <3>2. jobs[t][k].task.attempt = tasks[t].attempt.count
      BY <1>1, <2>1, <2>3, <2>5 DEF GatewayInv, AttemptFits, Alive
    <3>3. StartedFor(runs, work[t][k].run, t, jobs[t][k].task.attempt)
      BY <2>5 DEF GatewayInv, KeysFit, KeyFits, Alive
    <3>4. RunFits(t)'
      BY <2>1, <2>3, <3>2, <3>3 DEF RunFits, StartedFor
    <3> QED
      BY <3>1, <3>4
  <2> QED
    BY <1>4, <2>4, <2>5 DEF RowsFit
<1> QED
  BY <1>3, <1>5, <1>6

\* A job says that it has started, or that it gives up the run for now.
LEMMA UnattachedRows ==
    ASSUME GatewayInv, NEW w \in Workers, NEW t \in Tasks, NEW k \in 1..MaxClaims,
           Holds(w, t, k), UNCHANGED runs,
           \/ UNCHANGED vars \/ UpdateTaskStatus(t, w, k)
           \/ \E exceeded \in BOOLEAN : MarkReconciling(t, w, k, exceeded)
    PROVE  [Next]_vars /\ RowsFit
<1>1. [Next]_vars /\ UnattachedStep /\ IInv /\ RunsGoOn
  BY DEF Next, ClaimCall, UnattachedStep, GatewayInv, LoopInv, StoreInv, RunsGoOn
<1> QED
  BY <1>1, UnreportedSucceeds, QuietRows

\* A job reports what it has seen.
LEMMA ReportRows ==
    ASSUME GatewayInv, NEW w \in Workers, NEW t \in Tasks, NEW k \in 1..MaxClaims,
           Holds(w, t, k), UNCHANGED runs, NEW run \in Runs \cup {NoRun},
           NEW outcome \in Terminal, NEW retryable \in BOOLEAN,
           UNCHANGED vars \/ ReportResult(t, w, k, run, outcome, retryable),
           outcome = "succeeded" => run # NoRun /\ runs[run].state = "succeeded"
    PROVE  [Next]_vars /\ RowsFit
<1>1. [Next]_vars /\ IInv /\ RunsGoOn /\ k \in Nat
  BY DEF Next, ClaimCall, GatewayInv, LoopInv, StoreInv, RunsGoOn
<1>2. CASE UNCHANGED vars
  BY <1>1, <1>2, TasksStay, QuietRows
<1>3. CASE ReportResult(t, w, k, run, outcome, retryable)
  <2>1. \A u \in Tasks : SameRun(tasks[u], tasks'[u])
    BY <1>1, <1>3, ReportSameRun
  <2>2. RoomForOneTask => \A u \in Tasks : RunFits(u)'
    BY <1>1, <2>1, QuietRun
  <2>3. ASSUME NEW u \in Tasks PROVE TrueResult(u)'
    <3>1. CASE tasks'[u].status = "succeeded" => tasks[u].status = "succeeded"
      BY <1>1, <3>1, QuietResult
    <3>2. CASE tasks'[u].status = "succeeded" /\ tasks[u].status # "succeeded"
      <4>1. u = t /\ outcome = "succeeded" /\ run = tasks'[t].remote.run
        BY <1>1, <1>3, <3>2, ReportSucceeds
      <4> QED
        BY <4>1 DEF TrueResult
    <3> QED
      BY <3>1, <3>2
  <2> QED
    BY <1>1, <2>2, <2>3 DEF RowsFit
<1> QED
  BY <1>2, <1>3

-----------------------------------------------------------------------------
(* One step of run_task after the other *)

\* Points a job goes on to.
Ahead == {"look", "begin", "attach", "reattach", "loop", "session", "poll", "stop",
          "confirm", "report", "reconcile"}

\* They are points of a job.
LEMMA AheadFacts == Ahead \subseteq Points \ {"none", "offered"}
BY DEF Ahead, Points

\* The local variables at the start.
LEMMA NoWorkFacts == NoWork \in Work /\ NoWork.run = NoRun /\ NoWork.seen \notin Over
BY DEF NoWork, Work, Over, Reasons

\* A reason is noted.
LEMMA BecauseFacts ==
    ASSUME NEW l \in Work, NEW why \in Reasons
    PROVE  /\ Because(l, why) \in Work /\ Because(l, why).run = l.run
           /\ Because(l, why).seen = l.seen /\ Because(l, why).why = why
BY DEF Work, Because

\* A run is noted.
LEMMA RunNoted ==
    ASSUME NEW run \in Runs \cup {NoRun}, NEW b \in BOOLEAN
    PROVE  LET l == [NoWork EXCEPT !.run = run, !.bound = b]
           IN  l \in Work /\ l.run = run /\ l.seen \notin Over /\ l.bound = b
BY DEF NoWork, Work, Reasons, Over

\* The state of a run is noted.
LEMMA SeenFacts ==
    ASSUME NEW l \in Work, NEW s \in {"running"} \cup Over
    PROVE  LET e == [l EXCEPT !.seen = s]
           IN  e \in Work /\ e.run = l.run /\ e.seen = s /\ e.why = l.why
BY DEF Work, Reasons

\* The end of a run is noted.
LEMMA EndNoted ==
    ASSUME NEW l \in Work, NEW s \in Over
    PROVE  \E e \in Work : /\ e = [l EXCEPT !.seen = s, !.why = "ended"]
                           /\ e.run = l.run /\ e.seen = s
<1> DEFINE f == [l EXCEPT !.seen = s, !.why = "ended"]
<1>1. f \in Work /\ f.run = l.run /\ f.seen = s
  BY DEF Work, Reasons
<1> QED
  BY <1>1

\* What a step has to show of the runs.
RunsFit == runs' \in [Runs -> GatewayRun] /\ RunsGoOn /\ \A x \in Runs : KnownRun(x)'

\* Steps that leave the runs alone, or runs and tasks.
LEMMA RunsStay ==
    ASSUME GatewayInv, UNCHANGED runs
    PROVE  RunsFit /\ (UNCHANGED vars => [Next]_vars /\ RowsFit)
<1>1. RunsFit
  BY DEF RunsFit, GatewayInv, GatewayType, RunsGoOn, KnownRun
<1> QED
  BY <1>1, TasksStay, QuietRows DEF RunsFit, GatewayInv, LoopInv, StoreInv

\* A job goes on, with a run that it knows.
LEMMA GoOnInv ==
    ASSUME GatewayInv, NEW t \in Tasks, NEW k \in 1..MaxClaims, Alive(jobs[t][k]),
           [Next]_vars, RunsFit, RowsFit,
           NEW p \in Ahead, NEW l \in Work, Go(t, k, p, l),
           l.run \in {NoRun, work[t][k].run, jobs[t][k].task.run},
           p \notin {"begin", "report", "reconcile"} => l.run # NoRun,
           p = "report" /\ l.why \in {"ended", "deadline"} => l.seen \in Over,
           l.seen \in Over => l.run # NoRun /\ runs'[l.run].state = l.seen
    PROVE  GatewayInv'
<1>1. WorkFits(p, l)
  BY DEF WorkFits, Ahead
<1>2. RoomForOneTask => StartedFor(runs, l.run, t, jobs[t][k].task.attempt)
  BY DEF GatewayInv, KeysFit, KeyFits, StartedFor, Alive
<1>3. RoomForOneTask => StartedFor(runs', l.run, t, jobs[t][k].task.attempt)
  BY <1>2 DEF Work, StartedFor, RunsFit, RunsGoOn
<1>4. p \in Points \ {"none", "offered"}
  BY AheadFacts
<1> QED
  BY <1>1, <1>3, <1>4, AdvanceInv DEF RunsFit

\* What a job knows when it takes a step.
LEMMA AtFacts ==
    ASSUME GatewayInv, NEW w \in Workers, NEW t \in Tasks, NEW k \in 1..MaxClaims, NEW p,
           At(w, t, k, p), p \notin {"none", "offered"}
    PROVE  /\ Holds(w, t, k) /\ Alive(jobs[t][k]) /\ work[t][k] \in Work
           /\ jobs[t][k].pc = p /\ WorkFits(p, work[t][k])
           /\ work[t][k].seen \in Over => runs[work[t][k].run].state = work[t][k].seen
           /\ jobs[t][k].task.run \in Runs \cup {NoRun} /\ jobs[t][k].task.attempt \in Nat
           /\ runs \in [Runs -> GatewayRun]
BY DEF At, Alive, GatewayInv, GatewayType, JobFits, LoopInv, LoopType, Job, Carried

\* The token is gone: the job ends.
LEMMA LoseTokenInv ==
    ASSUME GatewayInv, NEW w \in Workers, NEW t \in Tasks, NEW k \in 1..MaxClaims,
           LoseToken(w, t, k)
    PROVE  GatewayInv' /\ [Next]_vars
BY RunsStay, EndInv DEF LoseToken

\* A job enters its token again, which it only has to where another job of the
\* task may have touched it.
LEMMA EnterTokenInv ==
    ASSUME GatewayInv, NEW w \in Workers, NEW t \in Tasks, NEW k \in 1..MaxClaims,
           EnterToken(w, t, k)
    PROVE  GatewayInv' /\ [Next]_vars
<1>1. /\ Holds(w, t, k) /\ Alive(jobs[t][k]) /\ Token(w, t) # k
      /\ UNCHANGED <<vars, jobs, runs, work>>
      /\ proc' = [proc EXCEPT ![w].tokens[t] = k]
  BY AtFacts DEF EnterToken
<1>2. /\ StoreInv /\ LoopType /\ TokensHeld /\ JobsIssued /\ OneJobEach
      /\ proc \in [Workers -> Process]
  BY DEF GatewayInv, LoopInv, LoopType
<1>3. MaxConcurrency[w] # 1
  <2>1. <<t, k>> \in JobsOf(w)
    BY <1>1 DEF JobsOf, Alive
  <2> QED
    BY <1>1, <1>2, <2>1 DEF OneJobEach, OneJob, Token
<1>4. /\ proc' \in [Workers -> Process] /\ \A v \in Workers \ {w} : proc'[v] = proc[v]
      /\ proc'[w].tokens[t] = k
      /\ \A u \in Tasks \ {t} : proc'[w].tokens[u] = proc[w].tokens[u]
  <2> DEFINE q == [proc[w] EXCEPT !.tokens[t] = k]
  <2>1. proc' = [proc EXCEPT ![w] = q]
    BY <1>1
  <2>2. k \in 0..MaxClaims
    BY WorkerAssumption
  <2>3. q \in Process /\ q.tokens = [proc[w].tokens EXCEPT ![t] = k]
        /\ proc[w].tokens \in [Tasks -> 0..MaxClaims]
    BY <1>2, <2>2 DEF Process
  <2> HIDE DEF q
  <2> QED
    BY <1>2, <2>1, <2>3
<1>5. LoopType' /\ StoreInv'
  BY <1>1, <1>2, <1>4 DEF LoopType, StoreInv, IInv, vars
<1>6. TokensHeld' /\ JobsIssued'
  BY <1>1, <1>2, <1>4 DEF TokensHeld, JobsIssued, Holds, vars
<1>7. OneJobEach'
  <2> SUFFICES ASSUME NEW v \in Workers, MaxConcurrency[v] = 1 PROVE OneJob(v)'
    BY DEF OneJobEach
  <2>1. SameEntries(v)
    BY <1>3, <1>4 DEF SameEntries
  <2>2. \A u \in Tasks, j \in 1..MaxClaims : Holds(v, u, j)' <=> Holds(v, u, j)
    BY <1>1 DEF Holds, vars
  <2> QED
    BY <1>1, <2>1, <2>2, KeptJob DEF GatewayInv
<1>8. LoopInv'
  BY <1>5, <1>6, <1>7 DEF LoopInv
<1>9. GatewayType' /\ \A u \in Tasks, j \in 1..MaxClaims : LoopMoved(u, j)
  BY <1>1 DEF GatewayInv, GatewayType, LoopMoved, SameJob
<1>10. RunsGoOn /\ \A x \in Runs : KnownRun(x)'
  BY <1>1 DEF GatewayInv, GatewayType, RunsGoOn, KnownRun
<1> QED
  BY <1>1, <1>2, <1>8, <1>9, <1>10, TasksStay, QuietInv DEF StoreInv

\* What a job that refuses its task goes on to.
LEMMA Refused ==
    ASSUME GatewayInv, NEW w \in Workers, NEW t \in Tasks, NEW k \in 1..MaxClaims,
           RefuseTask(w, t, k)
    PROVE  \E p \in {"new", "look", "begin"}, l \in Work :
              /\ At(w, t, k, p)
              /\ l.run = IF p = "begin" THEN NoRun ELSE jobs[t][k].task.run
              /\ l.seen \notin Over
              /\ \/ Go(t, k, "report", l) /\ l.why = "unserved"
                 \/ Go(t, k, "reconcile", l) /\ p # "begin"
<1>1. PICK p \in {"new", "look", "begin"} : At(w, t, k, p)
  BY DEF RefuseTask
<1>2. At(w, t, k, "begin") <=> p = "begin"
  BY <1>1 DEF At
<1>3. jobs[t][k].task.run \in Runs \cup {NoRun}
  BY <1>1, AtFacts
<1>4. PICK run \in Runs \cup {NoRun}, b \in BOOLEAN :
          /\ run = IF p = "begin" THEN NoRun ELSE jobs[t][k].task.run
          /\ b = (run # NoRun)
  BY <1>3
<1> DEFINE l == [NoWork EXCEPT !.run = run, !.bound = b]
<1>5. l \in Work /\ l.run = run /\ l.seen \notin Over /\ l.bound = b
  BY RunNoted
<1>6. \/ Go(t, k, "report", Because(l, "unserved"))
      \/ b /\ Go(t, k, "reconcile", l)
  BY <1>2, <1>4, <1>5 DEF RefuseTask
<1> HIDE DEF l
<1>7. "unserved" \in Reasons
  BY DEF Reasons
<1>8. PICK e \in Work : /\ e = Because(l, "unserved") /\ e.run = run
                        /\ e.seen \notin Over /\ e.why = "unserved"
  BY <1>5, <1>7, BecauseFacts
<1>9. b => p # "begin"
  BY <1>4
<1> QED
  BY <1>1, <1>4, <1>5, <1>6, <1>8, <1>9

\* The task cannot be served.
LEMMA RefuseTaskInv ==
    ASSUME GatewayInv, NEW w \in Workers, NEW t \in Tasks, NEW k \in 1..MaxClaims,
           RefuseTask(w, t, k)
    PROVE  GatewayInv' /\ [Next]_vars
<1>1. PICK p \in {"new", "look", "begin"}, l \in Work, q \in {"report", "reconcile"} :
          /\ At(w, t, k, p) /\ Go(t, k, q, l)
          /\ l.run \in {NoRun, jobs[t][k].task.run} /\ l.seen \notin Over
          /\ q = "report" => l.why = "unserved"
  BY Refused
<1>2. Alive(jobs[t][k])
  BY <1>1, AtFacts
<1>3. RunsFit /\ [Next]_vars /\ RowsFit
  BY RunsStay DEF RefuseTask
<1>4. q \in Ahead
  BY DEF Ahead
<1> QED
  BY <1>1, <1>2, <1>3, <1>4, GoOnInv

\* set_running, and what the job makes of the answer.
LEMMA SetRunningInv ==
    ASSUME GatewayInv, NEW w \in Workers, NEW t \in Tasks, NEW k \in 1..MaxClaims,
           SetRunning(w, t, k)
    PROVE  GatewayInv' /\ [Next]_vars
<1>1. /\ Holds(w, t, k) /\ Alive(jobs[t][k]) /\ UNCHANGED runs
      /\ jobs[t][k].task.run \in Runs \cup {NoRun}
  BY AtFacts DEF SetRunning
<1>2. UNCHANGED vars \/ UpdateTaskStatus(t, w, k)
  BY DEF SetRunning, Calls
<1>3. RunsFit /\ [Next]_vars /\ RowsFit
  BY <1>1, <1>2, RunsStay, UnattachedRows
<1>4. PICK run \in Runs \cup {NoRun}, b \in BOOLEAN :
          run = jobs[t][k].task.run /\ b = (run # NoRun)
  BY <1>1
<1> DEFINE l == [NoWork EXCEPT !.run = run, !.bound = b]
<1>5. /\ l \in Work /\ l.run = run /\ l.seen \notin Over /\ l.bound = b
      /\ Because(l, "unbound") \in Work /\ Because(l, "unbound").run = run
      /\ Because(l, "unbound").seen \notin Over /\ Because(l, "unbound").why = "unbound"
  <2>1. l \in Work /\ l.run = run /\ l.seen \notin Over /\ l.bound = b
    BY RunNoted
  <2>2. "unbound" \in Reasons
    BY DEF Reasons
  <2> HIDE DEF l
  <2> QED
    BY <2>1, <2>2, BecauseFacts
<1>6. \/ Go(t, k, IF run = NoRun THEN "begin" ELSE "look", l)
      \/ End(w, t, k)
      \/ Escape(t, k, l)
  BY <1>4 DEF SetRunning, Answers
<1> HIDE DEF l
<1>7. {"begin", "look", "report", "reconcile"} \subseteq Ahead
  BY DEF Ahead
<1>8. ASSUME NEW p \in {"begin", "look"}, Go(t, k, p, l), p = "look" => run # NoRun
      PROVE  GatewayInv'
  BY <1>1, <1>3, <1>4, <1>5, <1>7, <1>8, GoOnInv
<1>9. CASE End(w, t, k)
  BY <1>1, <1>3, <1>9, EndInv
<1>10. CASE Escape(t, k, l)
  <2>1. CASE Go(t, k, "reconcile", l)
    BY <1>1, <1>3, <1>4, <1>5, <1>7, <2>1, GoOnInv
  <2>2. CASE Go(t, k, "report", Because(l, "unbound"))
    BY <1>1, <1>3, <1>4, <1>5, <1>7, <2>2, GoOnInv
  <2> QED
    BY <1>3, <1>10, <2>1, <2>2 DEF Escape
<1> QED
  BY <1>3, <1>6, <1>8, <1>9, <1>10

\* The look at the run that an earlier claim has left.
LEMMA LookForRunInv ==
    ASSUME GatewayInv, NEW w \in Workers, NEW t \in Tasks, NEW k \in 1..MaxClaims,
           LookForRun(w, t, k)
    PROVE  GatewayInv' /\ [Next]_vars
<1> DEFINE l == work[t][k]
           s == runs[l.run].state
<1>1. /\ At(w, t, k, "look") /\ Alive(jobs[t][k]) /\ l \in Work /\ WorkFits("look", l)
      /\ l.seen \in Over => s = l.seen
      /\ UNCHANGED <<vars, runs>>
  BY AtFacts DEF LookForRun
<1>2. l.run # NoRun
  BY <1>1 DEF WorkFits
<1>3. RunsFit /\ [Next]_vars /\ RowsFit
  BY <1>1, RunsStay
<1>4. {"begin", "loop", "stop", "report", "reconcile"} \subseteq Ahead
  BY DEF Ahead
<1>5. ASSUME NEW p \in {"loop", "reconcile"}, Go(t, k, p, l) PROVE GatewayInv'
  BY <1>1, <1>2, <1>3, <1>4, <1>5, GoOnInv
<1>6. ASSUME NEW p \in {"stop", "reconcile"}, NEW why \in Reasons, Go(t, k, p, Because(l, why))
      PROVE  GatewayInv'
  <2>1. PICK e \in Work : /\ e = Because(l, why) /\ e.run = l.run /\ e.seen = l.seen
                          /\ e.why = why
    BY <1>1, BecauseFacts
  <2>2. Go(t, k, p, e)
    BY <1>6, <2>1
  <2> QED
    BY <1>1, <1>2, <1>3, <1>4, <1>6, <2>1, <2>2, GoOnInv
<1>7. CASE Go(t, k, "begin", NoWork)
  BY <1>1, <1>3, <1>4, <1>7, NoWorkFacts, GoOnInv
<1>8. ASSUME NEW x \in Over, x = s,
             Go(t, k, "report", [l EXCEPT !.seen = x, !.why = "ended"])
      PROVE  GatewayInv'
  <2>1. PICK e \in Work : /\ e = [l EXCEPT !.seen = x, !.why = "ended"]
                          /\ e.run = l.run /\ e.seen = x
    BY <1>1, EndNoted
  <2>2. Go(t, k, "report", e)
    BY <1>8, <2>1
  <2> QED
    BY <1>1, <1>2, <1>3, <1>4, <1>8, <2>1, <2>2, GoOnInv
<1>9. "overdue" \in Reasons /\ "resumed" \in Reasons
  BY DEF Reasons
<1> QED
  BY <1>3, <1>5, <1>6, <1>7, <1>8, <1>9 DEF LookForRun

\* The request to start a run.
LEMMA BeginInv ==
    ASSUME GatewayInv, NEW w \in Workers, NEW t \in Tasks, NEW k \in 1..MaxClaims,
           Begin(w, t, k)
    PROVE  GatewayInv' /\ [Next]_vars
<1>1. /\ Alive(jobs[t][k]) /\ UNCHANGED vars /\ jobs[t][k].task.attempt \in Nat
  BY AtFacts DEF Begin
<1>2. PICK key \in Tasks \X Nat : /\ key = <<t, jobs[t][k].task.attempt>>
                                  /\ key = IdempotencyKey(t, k)
  BY <1>1 DEF IdempotencyKey
<1>3. [Next]_vars
  BY <1>1
<1>4. RunsGoOn => RowsFit
  BY <1>1, <1>3, TasksStay, QuietRows DEF GatewayInv, LoopInv, StoreInv
<1>5. ASSUME Escape(t, k, NoWork), RunsFit PROVE GatewayInv'
  <2>1. "report" \in Ahead /\ "unbound" \in Reasons
    BY DEF Ahead, Reasons
  <2>2. PICK l \in Work : /\ l = Because(NoWork, "unbound") /\ l.run = NoRun
                          /\ l.seen \notin Over /\ l.why = "unbound"
    BY <2>1, NoWorkFacts, BecauseFacts
  <2>3. Go(t, k, "report", l)
    BY <1>5, <2>2 DEF Escape, NoWork
  <2>4. RowsFit
    BY <1>4, <1>5 DEF RunsFit
  <2> QED
    BY <1>1, <1>3, <1>5, <2>1, <2>2, <2>3, <2>4, GoOnInv
<1>6. ASSUME NEW x \in StartedBy(key), StartRun(x, key)
      PROVE  /\ RunsFit /\ x \in Runs /\ runs'[x].key = key /\ runs'[x].state # "unused"
  BY <1>6, StartedRun DEF RunsFit
<1>7. ASSUME NEW x \in StartedBy(key), StartRun(x, key),
             LET s == runs'[x].state IN
             Go(t, k, "attach", [NoWork EXCEPT !.run = x, !.bound = TRUE,
                                               !.seen = IF s \in Over THEN s ELSE "running"])
      PROVE  GatewayInv'
  <2>1. PICK s \in {"running"} \cup Over :
            s = IF runs'[x].state \in Over THEN runs'[x].state ELSE "running"
    OBVIOUS
  <2>2. x \in Runs /\ RunsFit /\ RowsFit
    BY <1>4, <1>6, <1>7 DEF RunsFit
  <2>3. PICK l \in Work : /\ l = [NoWork EXCEPT !.run = x, !.bound = TRUE, !.seen = s]
                          /\ l.run = x /\ l.seen = s
    <3> DEFINE e == [NoWork EXCEPT !.run = x, !.bound = TRUE, !.seen = s]
    <3>1. x \in Runs
      BY <2>2
    <3>2. e \in Work /\ e.run = x /\ e.seen = s
      BY <3>1 DEF NoWork, Work, Reasons, Over
    <3> QED
      BY <3>2
  <2>4. Go(t, k, "attach", l)
    BY <1>7, <2>1, <2>3
  <2>5. l.seen \in Over => runs'[l.run].state = l.seen
    BY <2>1, <2>3 DEF Over
  <2>6. WorkFits("attach", l)
    BY <1>6, <1>7, <2>3, NullAssumption DEF WorkFits
  <2>7. "attach" \in Points \ {"none", "offered"}
    BY DEF Points
  <2>8. StartedFor(runs', l.run, t, jobs[t][k].task.attempt)
    BY <1>2, <1>6, <1>7, <2>3 DEF StartedFor
  <2> QED
    BY <1>1, <1>3, <2>2, <2>4, <2>5, <2>6, <2>7, <2>8, AdvanceInv DEF RunsFit
<1>8. UNCHANGED runs => RunsFit
  BY RunsStay
<1> QED
  BY <1>2, <1>3, <1>5, <1>6, <1>7, <1>8 DEF Begin

\* The requests to record the run.
LEMMA AttachInv ==
    ASSUME GatewayInv, NEW w \in Workers, NEW t \in Tasks, NEW k \in 1..MaxClaims,
           Attach(w, t, k) \/ AttachAgain(w, t, k)
    PROVE  GatewayInv' /\ [Next]_vars
<1> DEFINE l == work[t][k]
<1>1. /\ Holds(w, t, k) /\ Alive(jobs[t][k]) /\ l \in Work /\ UNCHANGED runs
      /\ Token(w, t) # 0 /\ l.run # NoRun
      /\ l.seen \in Over => runs[l.run].state = l.seen
  <2>1. UNCHANGED runs /\ Token(w, t) # 0
    BY DEF Attach, AttachAgain
  <2>2. CASE At(w, t, k, "attach")
    BY <2>1, <2>2, AtFacts DEF WorkFits
  <2>3. CASE At(w, t, k, "reattach")
    BY <2>1, <2>3, AtFacts DEF WorkFits
  <2> QED
    BY <2>2, <2>3 DEF Attach, AttachAgain
<1>2. \E answer \in Answers : CallAttach(w, t, k, answer)
  BY DEF Attach, AttachAgain
<1>3. RunsFit /\ [Next]_vars /\ RowsFit
  BY <1>1, <1>2, RunsStay, AttachRows
<1>4. /\ {"loop", "stop", "reconcile"} \subseteq Ahead
      /\ {"conflict", "audit", "unconfirmed"} \subseteq Reasons
  BY DEF Ahead, Reasons
<1>5. ASSUME NEW p \in {"loop", "reconcile"}, Go(t, k, p, l) PROVE GatewayInv'
  BY <1>1, <1>3, <1>4, <1>5, GoOnInv
<1>6. ASSUME NEW why \in Reasons, Go(t, k, "stop", Because(l, why))
      PROVE  GatewayInv'
  <2>1. PICK e \in Work : /\ e = Because(l, why) /\ e.run = l.run /\ e.seen = l.seen
                          /\ e.why = why
    BY <1>1, BecauseFacts
  <2>2. Go(t, k, "stop", e)
    BY <1>6, <2>1
  <2> QED
    BY <1>1, <1>3, <1>4, <2>1, <2>2, GoOnInv
<1> QED
  BY <1>3, <1>4, <1>5, <1>6 DEF Attach, AttachAgain, Answers

\* The turn that a look at the run gives the loop.
LEMMA OnwardInv ==
    ASSUME GatewayInv, NEW t \in Tasks, NEW k \in 1..MaxClaims, Alive(jobs[t][k]),
           [Next]_vars, RunsFit, RowsFit, UNCHANGED runs,
           work[t][k] \in Work, work[t][k].run # NoRun,
           work[t][k].seen \in Over => runs[work[t][k].run].state = work[t][k].seen,
           NEW p \in {"poll", "session", "stop", "report", "reconcile"}, NEW why \in Reasons,
           \/ Go(t, k, p, work[t][k]) /\ p # "report"
           \/ /\ Go(t, k, p, Because(work[t][k], why))
              /\ p = "report" => work[t][k].seen \in Over \/ why \notin {"ended", "deadline"}
    PROVE  GatewayInv'
<1> DEFINE l == work[t][k]
<1>1. p \in Ahead
  BY DEF Ahead
<1>2. CASE Go(t, k, p, l) /\ p # "report"
  BY <1>1, <1>2, GoOnInv
<1>3. CASE /\ Go(t, k, p, Because(l, why))
           /\ p = "report" => l.seen \in Over \/ why \notin {"ended", "deadline"}
  <2>1. PICK e \in Work : /\ e = Because(l, why) /\ e.run = l.run /\ e.seen = l.seen
                          /\ e.why = why
    BY BecauseFacts
  <2>2. Go(t, k, p, e)
    BY <1>3, <2>1
  <2> QED
    BY <1>1, <1>3, <2>1, <2>2, GoOnInv
<1> QED
  BY <1>2, <1>3

\* The head of the loop, and the request to record another session.
LEMMA LoopHeadInv ==
    ASSUME GatewayInv, NEW w \in Workers, NEW t \in Tasks, NEW k \in 1..MaxClaims,
           Loop(w, t, k) \/ AttachSession(w, t, k)
    PROVE  GatewayInv' /\ [Next]_vars
<1> DEFINE l == work[t][k]
<1>1. /\ Holds(w, t, k) /\ Alive(jobs[t][k]) /\ l \in Work /\ UNCHANGED runs /\ l.run # NoRun
      /\ l.seen \in Over => runs[l.run].state = l.seen
  <2>1. PICK p \in {"loop", "session"} : At(w, t, k, p)
    BY DEF Loop, AttachSession
  <2> QED
    BY <2>1, AtFacts DEF WorkFits, Loop, AttachSession
<1>2. RunsFit /\ [Next]_vars /\ RowsFit
  <2>1. CASE UNCHANGED vars
    BY <1>1, <2>1, RunsStay
  <2>2. CASE Token(w, t) # 0 /\ \E answer \in Answers : CallAttach(w, t, k, answer)
    BY <1>1, <2>2, RunsStay, AttachRows
  <2> QED
    BY <2>1, <2>2 DEF Loop, AttachSession
<1>3. {"ended", "deadline", "cancelled", "session"} \subseteq Reasons
  BY DEF Reasons
<1>4. CASE Onward(t, k, l)
  BY <1>1, <1>2, <1>3, <1>4, OnwardInv DEF Onward
<1>5. CASE Go(t, k, IF l.seen \in Over THEN "report" ELSE "stop", Because(l, "cancelled"))
  BY <1>1, <1>2, <1>3, <1>5, OnwardInv
<1>6. CASE \/ Go(t, k, "session", l) \/ Go(t, k, "reconcile", l)
           \/ Go(t, k, "stop", Because(l, "session"))
  BY <1>1, <1>2, <1>3, <1>6, OnwardInv
<1> QED
  BY <1>2, <1>4, <1>5, <1>6 DEF Loop, AttachSession, Answers

\* A look at the run.
LEMMA PollInv ==
    ASSUME GatewayInv, NEW w \in Workers, NEW t \in Tasks, NEW k \in 1..MaxClaims,
           Poll(w, t, k)
    PROVE  GatewayInv' /\ [Next]_vars
<1> DEFINE l == work[t][k]
<1>1. /\ Alive(jobs[t][k]) /\ l \in Work /\ UNCHANGED <<vars, runs>> /\ l.run # NoRun
      /\ l.seen \in Over => runs[l.run].state = l.seen
  BY AtFacts DEF WorkFits, Poll
<1>2. RunsFit /\ [Next]_vars /\ RowsFit
  BY <1>1, RunsStay
<1>3. CASE Go(t, k, "reconcile", l)
  BY <1>1, <1>2, <1>3, GoOnInv DEF Ahead
<1>4. PICK s \in {"running"} \cup Over :
          s = IF runs[l.run].state \in Over THEN runs[l.run].state ELSE "running"
  OBVIOUS
<1>5. CASE Go(t, k, "loop", [l EXCEPT !.seen = s])
  <2>1. PICK e \in Work : e = [l EXCEPT !.seen = s] /\ e.run = l.run /\ e.seen = s
    BY <1>1, SeenFacts
  <2>2. Go(t, k, "loop", e) /\ "loop" \in Ahead
    BY <1>5, <2>1 DEF Ahead
  <2>3. e.seen \in Over => runs[l.run].state = s
    BY <1>4, <2>1 DEF Over
  <2> QED
    BY <1>1, <1>2, <2>1, <2>2, <2>3, GoOnInv
<1> QED
  BY <1>2, <1>3, <1>4, <1>5 DEF Poll

\* The request to stop the run.
LEMMA StopInv ==
    ASSUME GatewayInv, NEW w \in Workers, NEW t \in Tasks, NEW k \in 1..MaxClaims,
           Stop(w, t, k)
    PROVE  GatewayInv' /\ [Next]_vars
<1> DEFINE l == work[t][k]
<1>1. /\ Alive(jobs[t][k]) /\ l \in Work /\ l.run # NoRun
      /\ l.seen \in Over => runs[l.run].state = l.seen
      /\ runs \in [Runs -> GatewayRun]
  BY AtFacts DEF WorkFits, Stop
<1>2. l.run \in Runs /\ UNCHANGED vars
  BY <1>1 DEF Work, Stop
<1>3. RunsFit
  <2>1. CASE StopRun(l.run)
    BY <1>2, <2>1, StoppedRun DEF RunsFit
  <2> QED
    BY <2>1, RunsStay DEF Stop
<1>4. [Next]_vars /\ RowsFit
  BY <1>2, <1>3, TasksStay, QuietRows DEF RunsFit, GatewayInv, LoopInv, StoreInv
<1>5. l.seen \in Over => runs'[l.run].state = l.seen
  BY <1>1, <1>2, <1>3 DEF RunsFit, RunsGoOn
<1>6. {"confirm", "report", "reattach", "reconcile"} \subseteq Ahead
  BY DEF Ahead
<1>7. CASE NotStopped(t, k, l)
  <2>1. PICK p \in {"report", "reattach", "reconcile"} :
            Go(t, k, p, l) /\ (p = "report" => l.why = "conflict")
    BY <1>7 DEF NotStopped
  <2> QED
    BY <1>1, <1>3, <1>4, <1>5, <1>6, <2>1, GoOnInv DEF WorkFits
<1>8. CASE Go(t, k, "confirm", l)
  BY <1>1, <1>3, <1>4, <1>5, <1>6, <1>8, GoOnInv
<1>9. ASSUME NEW s \in Over, s = runs'[l.run].state, Go(t, k, "report", [l EXCEPT !.seen = s])
      PROVE  GatewayInv'
  <2>1. PICK e \in Work : e = [l EXCEPT !.seen = s] /\ e.run = l.run /\ e.seen = s
    BY <1>1, SeenFacts
  <2>2. Go(t, k, "report", e)
    BY <1>9, <2>1
  <2> QED
    BY <1>1, <1>3, <1>4, <1>6, <1>9, <2>1, <2>2, GoOnInv
<1> QED
  BY <1>4, <1>7, <1>8, <1>9 DEF Stop, Stopped

\* A look at the run that was asked to stop.
LEMMA ConfirmStopInv ==
    ASSUME GatewayInv, NEW w \in Workers, NEW t \in Tasks, NEW k \in 1..MaxClaims,
           ConfirmStop(w, t, k)
    PROVE  GatewayInv' /\ [Next]_vars
<1> DEFINE l == work[t][k]
<1>1. /\ Alive(jobs[t][k]) /\ l \in Work /\ UNCHANGED <<vars, runs>> /\ l.run # NoRun
      /\ l.seen \in Over => runs[l.run].state = l.seen
  BY AtFacts DEF WorkFits, ConfirmStop
<1>2. RunsFit /\ [Next]_vars /\ RowsFit
  BY <1>1, RunsStay
<1>3. {"report", "reattach", "reconcile"} \subseteq Ahead
  BY DEF Ahead
<1>4. CASE NotStopped(t, k, l)
  <2>1. PICK p \in {"report", "reattach", "reconcile"} :
            Go(t, k, p, l) /\ (p = "report" => l.why = "conflict")
    BY <1>4 DEF NotStopped
  <2> QED
    BY <1>1, <1>2, <1>3, <2>1, GoOnInv DEF WorkFits
<1>5. ASSUME NEW s \in Over, s = runs[l.run].state, Go(t, k, "report", [l EXCEPT !.seen = s])
      PROVE  GatewayInv'
  <2>1. PICK e \in Work : e = [l EXCEPT !.seen = s] /\ e.run = l.run /\ e.seen = s
    BY <1>1, SeenFacts
  <2>2. Go(t, k, "report", e)
    BY <1>5, <2>1
  <2> QED
    BY <1>1, <1>2, <1>3, <1>5, <2>1, <2>2, GoOnInv
<1> QED
  BY <1>2, <1>4, <1>5 DEF ConfirmStop, Stopped

\* What a job reports.
LEMMA OutcomeFacts ==
    ASSUME NEW l \in Work, WorkFits("report", l)
    PROVE  /\ OutcomeOf(l) \in Terminal /\ RunReported(l) \in Runs \cup {NoRun}
           /\ OutcomeOf(l) = "succeeded" =>
                 l.seen = "succeeded" /\ l.run # NoRun /\ RunReported(l) = l.run
<1>1. l.seen \in {"running"} \cup Over /\ l.run \in Runs \cup {NoRun}
  BY DEF Work
<1>2. l.why \in {"ended", "deadline"} => l.seen \in Over
  BY DEF WorkFits
<1>3. OutcomeOf(l) \in Terminal
  BY <1>1, <1>2 DEF OutcomeOf, Over
<1>4. RunReported(l) \in Runs \cup {NoRun}
  BY <1>1 DEF RunReported
<1>5. OutcomeOf(l) = "succeeded" => l.seen = "succeeded" /\ l.why \in {"ended", "deadline"}
  BY <1>1 DEF OutcomeOf, Over
<1>6. l.seen = "succeeded" => l.run # NoRun
  BY DEF WorkFits, Over
<1> QED
  BY <1>3, <1>4, <1>5, <1>6 DEF RunReported

\* The report.
LEMMA ReportInv ==
    ASSUME GatewayInv, NEW w \in Workers, NEW t \in Tasks, NEW k \in 1..MaxClaims,
           Report(w, t, k)
    PROVE  GatewayInv' /\ [Next]_vars
<1> DEFINE l == work[t][k]
<1>1. /\ Holds(w, t, k) /\ Alive(jobs[t][k]) /\ l \in Work /\ UNCHANGED runs
      /\ Token(w, t) # 0 /\ WorkFits("report", l)
      /\ l.seen \in Over => runs[l.run].state = l.seen
  BY AtFacts DEF Report
<1>2. PICK n \in 1..MaxClaims : n = Token(w, t) /\ Holds(w, t, n)
  BY <1>1, TokenFacts
<1>3. PICK outcome \in Terminal, run \in Runs \cup {NoRun} :
          /\ outcome = OutcomeOf(l) /\ run = RunReported(l)
          /\ outcome = "succeeded" => run # NoRun /\ runs[run].state = "succeeded"
  BY <1>1, OutcomeFacts DEF Over
<1>4. PICK retryable \in BOOLEAN : retryable = (outcome = "failed" /\ l.why # "unserved")
  OBVIOUS
<1>5. UNCHANGED vars \/ ReportResult(t, w, n, run, outcome, retryable)
  BY <1>2, <1>3, <1>4 DEF Report, Calls
<1>6. [Next]_vars /\ RowsFit
  BY <1>1, <1>2, <1>3, <1>5, ReportRows
<1>7. CASE End(w, t, k)
  BY <1>1, <1>6, <1>7, EndInv
<1>8. CASE Go(t, k, "reconcile", Because(l, "none"))
  <2>1. RunsFit /\ "reconcile" \in Ahead /\ "none" \in Reasons
    BY <1>1, RunsStay DEF Ahead, Reasons
  <2>2. l.seen \in Over => l.run # NoRun
    BY <1>1 DEF WorkFits
  <2>3. PICK e \in Work : e = Because(l, "none") /\ e.run = l.run /\ e.seen = l.seen
    BY <1>1, <2>1, BecauseFacts
  <2>4. Go(t, k, "reconcile", e)
    BY <1>8, <2>3
  <2> QED
    BY <1>1, <1>6, <2>1, <2>2, <2>3, <2>4, GoOnInv
<1> QED
  BY <1>6, <1>7, <1>8 DEF Report

\* The reconciliation that a job asks for, after which it is over.
LEMMA ReconcileInv ==
    ASSUME GatewayInv, NEW w \in Workers, NEW t \in Tasks, NEW k \in 1..MaxClaims,
           Reconcile(w, t, k)
    PROVE  GatewayInv' /\ [Next]_vars
<1>1. /\ Holds(w, t, k) /\ Alive(jobs[t][k]) /\ UNCHANGED runs /\ Token(w, t) # 0
      /\ End(w, t, k)
  BY AtFacts DEF Reconcile
<1>2. PICK n \in 1..MaxClaims : n = Token(w, t) /\ Holds(w, t, n)
  BY <1>1, TokenFacts
<1> DEFINE exceeded == work[t][k].why \in {"deadline", "overdue"}
<1>3. exceeded \in BOOLEAN
  OBVIOUS
<1>4. UNCHANGED vars \/ MarkReconciling(t, w, n, exceeded)
  BY <1>2 DEF Reconcile, Calls
<1> HIDE DEF exceeded
<1>5. [Next]_vars /\ RowsFit
  BY <1>1, <1>2, <1>3, <1>4, UnattachedRows
<1> QED
  BY <1>1, <1>5, EndInv

-----------------------------------------------------------------------------
(* The invariant, and what follows from it *)

\* The first state.
LEMMA InitGatewayInv == GatewayInit => GatewayInv
<1> SUFFICES ASSUME GatewayInit PROVE GatewayInv
  OBVIOUS
<1>1. LoopInv /\ \A t \in Tasks : tasks[t] = Absent
  BY InitLoopInv DEF GatewayInit, LoopInit, Init
<1>2. Unused \in GatewayRun /\ ~Unused.known
  BY DEF Unused, GatewayRun
<1>3. GatewayType /\ \A x \in Runs : KnownRun(x)
  BY <1>2, NoWorkFacts DEF GatewayInit, GatewayType, KnownRun
<1>4. \A t \in Tasks, k \in 1..MaxClaims : jobs[t][k].pc = "none" /\ work[t][k] = NoWork
  BY JobFacts DEF GatewayInit, LoopInit
<1>5. \A t \in Tasks, k \in 1..MaxClaims : JobFits(t, k) /\ AttemptFits(t, k) /\ KeyFits(t, k)
  BY <1>4, NoWorkFacts DEF JobFits, WorkFits, AttemptFits, KeyFits
<1>6. \A t \in Tasks : TrueResult(t) /\ RunFits(t)
  BY <1>1 DEF Absent, NoRemote, TrueResult, RunFits, StartedFor
<1> QED
  BY <1>1, <1>3, <1>5, <1>6 DEF GatewayInv, KeysFit

\* Every step of the runtime is one that TaskStore allows, and is sound.
LEMMA StepGatewayInv == GatewayInv /\ [GatewayNext]_gatewayVars => GatewayInv' /\ [Next]_vars
<1> SUFFICES ASSUME GatewayInv, [GatewayNext]_gatewayVars PROVE GatewayInv' /\ [Next]_vars
  OBVIOUS
<1>1. CASE UNCHANGED gatewayVars
  <2>1. UNCHANGED vars /\ UNCHANGED loopVars /\ UNCHANGED <<runs, work>>
    BY <1>1 DEF gatewayVars
  <2>2. LoopType' /\ \A v \in Workers : SameEntries(v)
    BY <2>1 DEF GatewayInv, LoopInv, LoopType, loopVars, SameEntries
  <2> QED
    BY <2>1, <2>2, StillInv DEF loopVars, GatewayInv, GatewayType, RunsGoOn, KnownRun
<1>2. ASSUME NEW w \in Workers, NEW t \in Tasks, NEW k \in 1..MaxClaims, JobStep(w, t, k)
      PROVE  GatewayInv' /\ [Next]_vars
  BY <1>2, LoseTokenInv, EnterTokenInv, RefuseTaskInv, SetRunningInv, LookForRunInv, BeginInv, AttachInv,
     LoopHeadInv, PollInv, StopInv, ConfirmStopInv, ReportInv, ReconcileInv DEF JobStep
<1>3. ASSUME NEW w \in Workers, (Crash(w) \/ Exit(w)) /\ Vanish(w) /\ UNCHANGED runs
      PROVE  GatewayInv' /\ [Next]_vars
  BY <1>3, VanishInv
<1> QED
  BY <1>1, <1>2, <1>3, AroundInv, HearCancellationsInv, RunEndsInv DEF GatewayNext

\* The inductive invariant of the gateway runtime.
THEOREM GatewayInductive == GatewaySpec => []GatewayInv
<1> QED
  BY InitGatewayInv, StepGatewayInv, PTL DEF GatewaySpec

\* The worker makes no call that TaskStore does not allow: what is proved of the
\* store for every caller is true of the store with this runtime.
THEOREM GatewayImplementsStore == GatewaySpec => Spec
<1>1. GatewayInit => Init
  BY DEF GatewayInit, LoopInit
<1> QED
  BY <1>1, StepGatewayInv, GatewayInductive, PTL DEF GatewaySpec, Spec

\* Every part of the state stays of its kind.
THEOREM GatewayTypeCorrect == GatewaySpec => []GatewayTypeOK
<1>1. GatewayInv => GatewayTypeOK
  BY DEF GatewayInv, LoopInv, StoreInv, IInv, LoopType, GatewayType, GatewayTypeOK
<1> QED
  BY <1>1, GatewayInductive, PTL

\* The dictionaries of a process agree with its coroutines: a job goes by the
\* token of its own claim, and is the one that is listed as active.
JobsAreKnown ==
    \A w \in Workers : \A x \in JobsOf(w) :
        Alive(jobs[x[1]][x[2]]) => /\ proc[w].tokens[x[1]] = x[2]
                                   /\ x[1] \in proc[w].active

\* They do so for every worker with room for one task.
THEOREM GatewayJobsKnown == ASSUME RoomForOneTask PROVE GatewaySpec => []JobsAreKnown
<1>1. GatewayInv => JobsAreKnown
  <2> SUFFICES ASSUME GatewayInv, NEW w \in Workers, NEW x \in JobsOf(w),
                      Alive(jobs[x[1]][x[2]])
               PROVE  proc[w].tokens[x[1]] = x[2] /\ x[1] \in proc[w].active
    BY DEF JobsAreKnown
  <2>1. OneJob(w)
    BY DEF RoomForOneTask, GatewayInv, LoopInv, OneJobEach
  <2> QED
    BY <2>1 DEF OneJob
<1> QED
  BY <1>1, GatewayInductive, PTL

\* The run on record was started for the attempt on record, whatever is delayed.
THEOREM GatewayRunOfAttempt ==
    ASSUME RoomForOneTask PROVE GatewaySpec => []RecordedRunIsOfAttempt
<1>1. GatewayInv => RecordedRunIsOfAttempt
  BY DEF GatewayInv, KeysFit, RunFits, StartedFor, RecordedRunIsOfAttempt, RunOfAttempt
<1> QED
  BY <1>1, GatewayInductive, PTL

\* A task has succeeded only if the run that was started for its attempt has.
THEOREM GatewaySuccessIsTrue == ASSUME RoomForOneTask PROVE GatewaySpec => []SuccessIsTrue
<1>1. GatewayInv => SuccessIsTrue
  BY DEF GatewayInv, KeysFit, RunFits, StartedFor, TrueResult, SuccessIsTrue
<1> QED
  BY <1>1, GatewayInductive, PTL

-----------------------------------------------------------------------------
(* A run that goes on is not let go of: what a row keeps *)

\* A claim is made current by being issued.
LEMMA TokenStays ==
    ASSUME StoreInv, [Next]_vars, NEW t \in Tasks, NEW k \in DOMAIN tasks[t].claim.issued,
           tasks'[t].claim.token = k
    PROVE  tasks[t].claim.token = k
<1>1. /\ Moved(tasks[t], tasks'[t]) /\ RowInv(tasks[t]) /\ RowInv(tasks'[t])
      /\ UnbornUnclaimed(tasks[t]) /\ tasks[t].claim.issued \in Seq(Workers)
  <2>1. IInv /\ IInv' /\ RowInv(tasks[t]) /\ UnbornUnclaimed(tasks[t])
    BY StepIInv DEF StoreInv, IInv
  <2>2. Moved(tasks[t], tasks'[t])
    BY <2>1, StepsByRow, StepParts, Zenon DEF AllSteps
  <2> QED
    BY <2>1, <2>2 DEF IInv, Row, Claim
<1>2. k \in 1..Len(tasks[t].claim.issued) /\ k # 0
  BY <1>1
<1>3. tasks'[t].claim.token = Len(tasks'[t].claim.issued)
  BY <1>1, <1>2 DEF RowInv, HasLiveClaim
<1>4. ASSUME NEW r, NEW s, Moved(r, s), UnbornUnclaimed(r), r.claim.issued \in Seq(Workers),
             k \in 1..Len(r.claim.issued), s.claim.token = k, k = Len(s.claim.issued)
      PROVE  r.claim.token = k
  <2>1. CASE s = r \/ SameClaim(r, s)
    BY <1>4, <2>1 DEF SameClaim
  <2>2. CASE WasStated(r, s)
    <3>1. r.claim.issued # <<>>
      BY <1>4
    <3>2. r.status # "absent"
      BY <1>4, <3>1 DEF UnbornUnclaimed
    <3> QED
      BY <2>1, <2>2, <3>2 DEF WasStated
  <2>3. ASSUME NEW m, m = r \/ Swept(r, m) \/ Kept(r, m),
               s = m \/ Effect(m, s) \/ WasPlanned(m, s)
        PROVE  r.claim.token = k
    <3>1. m.claim.issued = r.claim.issued /\ m.claim.token \in {0, r.claim.token}
      BY <2>3 DEF Swept, Kept
    <3>2. ASSUME NEW w \in Workers PROVE s.claim.issued # Append(m.claim.issued, w)
      BY <1>4, <3>1
    <3>3. s = m \/ HolderEffect(m, s) \/ WasPlanned(m, s)
      BY <2>3, <3>2 DEF Effect, WasGranted
    <3>4. s.claim.token \in {0, m.claim.token}
      BY <3>3 DEF HolderEffect, WentOn, WasAttached, WasParked, WasReported, WasPlanned, SameClaim
    <3> QED
      BY <1>4, <3>1, <3>4
  <2> QED
    BY <1>4, <2>1, <2>2, <2>3 DEF Moved
<1> QED
  BY <1>1, <1>2, <1>3, <1>4

\* A row keeps the run it has, and is not settled but as timed_out.
RunStays(r, s) ==
    r.remote.run # NoRun =>
        /\ s.remote.run = r.remote.run
        /\ s.status \in Terminal \ {"timed_out"} => r.status \in Terminal

\* No step lets go of a run that neither reports nor records one.
LEMMA UnattachedStays ==
    ASSUME NEW r, RowInv(r), NEW s, Unattached(r, MaintainedRow(r), s)
    PROVE  RunStays(r, s)
<1> DEFINE m == MaintainedRow(r)
<1> SUFFICES ASSUME r.remote.run # NoRun
             PROVE  /\ s.remote.run = r.remote.run
                    /\ s.status \in Terminal \ {"timed_out"} => r.status \in Terminal
  BY DEF RunStays
<1>1. m = r \/ (r.status \in Active /\ Swept(r, m)) \/ Kept(r, m)
  BY MaintainedParts
<1>2. r \in Row /\ r.status \notin {"absent", "planning_pending", "planning", "pending"}
  BY DEF RowInv, Staged
<1>3. Unattached(r, m, s)
  OBVIOUS
<1> HIDE DEF m
<1>4. /\ m.remote.run = r.remote.run
      /\ m.status \in Terminal \ {"timed_out"} => r.status \in Terminal
  BY <1>1 DEF Swept, Kept
<1>5. CASE s = r \/ s = Aged(r)
  BY <1>2, <1>5, AgedParts
<1>6. CASE WasStated(r, s)
  <2>1. /\ s.remote.run = r.remote.run
        /\ s.status = r.status \/ s.status = "cancel_requested"
    BY <1>2, <1>6 DEF WasStated
  <2> QED
    BY <2>1
<1>7. CASE s = m \/ WentOn(m, s) \/ WasParked(m, s)
  BY <1>4, <1>7 DEF WentOn, WasParked
<1>8. ASSUME NEW w \in Workers, WasGranted(m, s, w)
      PROVE  s.remote.run = r.remote.run /\ s.status = "claimed"
  BY <1>4, <1>8 DEF WasGranted
<1> QED
  BY <1>3, <1>5, <1>6, <1>7, <1>8 DEF Unattached

\* The row of a current claim, when maintenance has seen to it.
LEMMA CurrentRow ==
    ASSUME NEW r, RowInv(r), NEW k, k # 0, MaintainedRow(r).claim.token = k
    PROVE  r.claim.token = k /\ MaintainedRow(r).remote.run = r.remote.run
           /\ MaintainedRow(r).status \in Active
<1> DEFINE m == MaintainedRow(r)
<1>1. m = r \/ (r.status \in Active /\ Swept(r, m)) \/ Kept(r, m)
  BY MaintainedParts
<1>2. RowInv(m)
  BY MaintainedInv
<1> HIDE DEF m
<1>3. m.claim.token = k => /\ r.claim.token = k /\ m.remote.run = r.remote.run
                           /\ m.status \in Active
  BY <1>1, <1>2 DEF Swept, Kept, RowInv, HasLiveClaim
<1> QED
  BY <1>3 DEF m

-----------------------------------------------------------------------------
(* What is invariant of a run that goes on *)

\* The gateway forgets a run only when it is over.
LiveKnown(x) == runs[x].state \in Live => runs[x].known

\* The run a job goes by.
InHand(t, k) ==
    IF jobs[t][k].pc \in {"offered", "new"} THEN jobs[t][k].task.run ELSE work[t][k].run

\* What the job knows of it, by the point the job is at: it looks for the run of
\* the claim, starts one when it has none, and reports of one it has seen to be over.
PointFits(p, l, run) ==
    /\ p = "look" => l.run = run
    /\ p = "begin" => l.run = NoRun
    /\ p = "report" /\ RunReported(l) # NoRun => l.seen \in Over

\* As long as the run on record goes on, it is the run of the current job.
HeldRun(t, k) ==
    tasks[t].claim.token = k /\ jobs[t][k].pc # "none" /\ LiveRun(tasks[t].remote.run) =>
        tasks[t].remote.run = InHand(t, k)

HoldInv ==
    /\ GatewayInv
    /\ \A x \in Runs : LiveKnown(x)
    /\ \A t \in Tasks, k \in 1..MaxClaims :
          /\ PointFits(jobs[t][k].pc, work[t][k], jobs[t][k].task.run)
          /\ HeldRun(t, k)

\* A run that nobody has asked to stop.
Going(x) == x # NoRun /\ runs[x].state = "active"

\* No run comes back to life.
RunWears(x) ==
    /\ runs[x].state # "unused" => runs'[x].state # "unused"
    /\ runs'[x].state \in Live => runs[x].state \in Live \cup {"unused"}
    /\ runs'[x].state = "active" => runs[x].state \in {"active", "unused"}
    /\ LiveKnown(x)'

-----------------------------------------------------------------------------
(* What the gateway does *)

\* A request to start a run wakes none but the one it is answered with.
LEMMA StartWears ==
    ASSUME GatewayInv, \A x \in Runs : LiveKnown(x),
           NEW key \in (Tasks \X Nat), NEW y \in Runs, StartRun(y, key)
    PROVE  \A x \in Runs : /\ RunWears(x)
                           /\ x # y => runs'[x] = runs[x]
<1>1. runs \in [Runs -> GatewayRun]
  BY DEF GatewayInv, GatewayType
<1>2. CASE runs[y].state # "unused"
  BY <1>2 DEF StartRun, RunWears, LiveKnown
<1>3. CASE runs[y].state = "unused"
  <2> DEFINE q == [state |-> "active", key |-> key, known |-> TRUE]
  <2>1. q.state = "active" /\ q.known = TRUE
    OBVIOUS
  <2>2. runs' = [runs EXCEPT ![y] = q]
    BY <1>3 DEF StartRun
  <2> HIDE DEF q
  <2> QED
    BY <1>1, <1>3, <2>1, <2>2 DEF RunWears, LiveKnown
<1> QED
  BY <1>2, <1>3

\* A request to stop a run wakes none, and that run is not active any more.
LEMMA StopWears ==
    ASSUME GatewayInv, \A x \in Runs : LiveKnown(x), NEW y \in Runs, StopRun(y)
    PROVE  /\ \A x \in Runs : RunWears(x) /\ (runs'[x].state = "active" => runs[x].state = "active")
           /\ runs'[y].state # "active"
<1> DEFINE s == IF runs[y].state = "active" THEN "stopping" ELSE runs[y].state
           q == [runs[y] EXCEPT !.state = s]
<1>1. runs \in [Runs -> GatewayRun] /\ runs[y] \in GatewayRun
  BY DEF GatewayInv, GatewayType
<1>2. q.state = s /\ q.known = runs[y].known
  BY <1>1 DEF GatewayRun
<1>3. runs' = [runs EXCEPT ![y] = q]
  BY DEF StopRun
<1>4. s # "active" /\ (s \in Live => runs[y].state \in Live) /\ (s = "unused" <=> runs[y].state = "unused")
  BY DEF Live
<1> HIDE DEF q, s
<1> QED
  BY <1>1, <1>2, <1>3, <1>4 DEF RunWears, LiveKnown

\* Nor does a run that ends or is lost.
LEMMA EndWears ==
    ASSUME GatewayInv, \A x \in Runs : LiveKnown(x), NEW y \in Runs, RunEnds(y) \/ ForgetRun(y)
    PROVE  \A x \in Runs : RunWears(x) /\ (runs'[x].state = "active" => runs[x].state = "active")
<1>1. runs \in [Runs -> GatewayRun] /\ runs[y] \in GatewayRun /\ KnownRun(y)
  BY DEF GatewayInv, GatewayType
<1>2. PICK q : /\ runs' = [runs EXCEPT ![y] = q]
               /\ q.state \notin Live \cup {"unused"} \/ (q.state = "unused" /\ runs[y].state = "unused")
  <2>1. CASE RunEnds(y)
    <3>1. PICK state \in Over : runs' = [runs EXCEPT ![y].state = state]
      BY <2>1, EndsAssumption DEF RunEnds
    <3> DEFINE q == [runs[y] EXCEPT !.state = state]
    <3>2. q.state = state /\ state \notin Live \cup {"unused"}
      BY <1>1 DEF GatewayRun, Over, Live
    <3>3. runs' = [runs EXCEPT ![y] = q]
      BY <3>1
    <3> HIDE DEF q
    <3> QED
      BY <3>2, <3>3
  <2>2. CASE ForgetRun(y)
    <3> DEFINE s == IF runs[y].state \in Live THEN "failed" ELSE runs[y].state
               q == [runs[y] EXCEPT !.known = FALSE, !.state = s]
    <3>1. q.state = s
      BY <1>1 DEF GatewayRun
    <3>2. runs' = [runs EXCEPT ![y] = q]
      BY <1>1, <2>2 DEF ForgetRun
    <3>3. s \notin Live \cup {"unused"}
      BY <1>1, <2>2 DEF ForgetRun, KnownRun, Live
    <3> HIDE DEF q, s
    <3> QED
      BY <3>1, <3>2, <3>3
  <2> QED
    BY <2>1, <2>2
<1> QED
  BY <1>1, <1>2 DEF RunWears, LiveKnown, Live

\* A run that stays as it is wears as well.
LEMMA StillWears ==
    ASSUME \A x \in Runs : LiveKnown(x), UNCHANGED runs
    PROVE  \A x \in Runs : RunWears(x)
BY DEF RunWears, LiveKnown

\* A run that was in use and goes on afterwards went on before.
LEMMA LiveBefore ==
    ASSUME NEW x, x \in Runs \cup {NoRun}, x # NoRun => RunWears(x) /\ runs[x].state # "unused"
    PROVE  /\ LiveRun(x)' => LiveRun(x)
           /\ Going(x)' => Going(x)
BY DEF RunWears, LiveRun, Going

-----------------------------------------------------------------------------
(* Steps of others *)

\* The run on record was in use before it goes on.
LEMMA RecordLive ==
    ASSUME GatewayInv, RoomForOneTask, \A x \in Runs : RunWears(x), NEW t \in Tasks,
           SameRun(tasks[t], tasks'[t]), LiveRun(tasks[t].remote.run)'
    PROVE  tasks'[t].remote.run = tasks[t].remote.run /\ LiveRun(tasks[t].remote.run)
<1>1. tasks[t].remote.run \in Runs \cup {NoRun} /\ RunFits(t)
  BY DEF GatewayInv, KeysFit, LoopInv, StoreInv, IInv, Row, Remote
<1>2. tasks'[t].remote.run = tasks[t].remote.run
  BY DEF SameRun, LiveRun
<1> QED
  BY <1>1, <1>2 DEF RunWears, LiveRun, RunFits, StartedFor

\* Of a job that is not moved, or only at its beginning, all stays true.
LEMMA HeldStays ==
    ASSUME HoldInv, RoomForOneTask, [Next]_vars, \A x \in Runs : RunWears(x),
           NEW t \in Tasks, NEW k \in 1..MaxClaims,
           \/ LoopMoved(t, k) /\ work'[t][k] = work[t][k]
           \/ jobs'[t][k].pc = "none",
           SameRun(tasks[t], tasks'[t]) \/ tasks'[t].claim.token # k
    PROVE  /\ PointFits(jobs'[t][k].pc, work'[t][k], jobs'[t][k].task.run)
           /\ HeldRun(t, k)'
<1>1. /\ GatewayInv /\ HeldRun(t, k) /\ jobs[t][k] \in Job
      /\ PointFits(jobs[t][k].pc, work[t][k], jobs[t][k].task.run)
  BY DEF HoldInv, GatewayInv, LoopInv, LoopType
<1>2. SameJob(t, k) => jobs'[t][k].task.run = jobs[t][k].task.run
  BY <1>1 DEF SameJob, Job, Carried
<1>3. PointFits(jobs'[t][k].pc, work'[t][k], jobs'[t][k].task.run)
  <2>1. CASE SameJob(t, k) /\ work'[t][k] = work[t][k]
    BY <1>1, <1>2, <2>1 DEF SameJob
  <2>2. CASE jobs'[t][k].pc \in {"none", "offered", "new"}
    BY <2>2 DEF PointFits
  <2> QED
    BY <2>1, <2>2 DEF LoopMoved, Opened, JobAt, Received, Lost
<1>4. HeldRun(t, k)'
  <2> SUFFICES ASSUME tasks'[t].claim.token = k, jobs'[t][k].pc # "none",
                      LiveRun(tasks[t].remote.run)'
               PROVE  tasks'[t].remote.run = InHand(t, k)'
    BY DEF HeldRun
  <2>1. /\ tasks'[t].remote.run = tasks[t].remote.run /\ LiveRun(tasks[t].remote.run)
        /\ tasks'[t].remote.run # NoRun
    BY <1>1, RecordLive DEF LiveRun
  <2>2. CASE Opened(t, k)
    <3>1. RunOfThisAttempt(tasks'[t])
      BY <1>1, StepIInv DEF GatewayInv, LoopInv, StoreInv, IInv, RowInv
    <3>2. jobs'[t][k].pc = "offered" /\ jobs'[t][k].task = Snapshot(tasks'[t])
      BY <2>2 DEF Opened, JobAt
    <3> QED
      BY <2>1, <3>1, <3>2 DEF InHand, Snapshot, RunOfThisAttempt
  <2>3. CASE (SameJob(t, k) \/ Received(t, k)) /\ work'[t][k] = work[t][k]
    <3>1. jobs[t][k].pc # "none" /\ InHand(t, k)' = InHand(t, k)
      BY <1>2, <2>3 DEF SameJob, Received, InHand
    <3>2. k \in DOMAIN tasks[t].claim.issued /\ StoreInv
      BY <1>1, <3>1 DEF GatewayInv, LoopInv, JobsIssued
    <3>3. tasks[t].claim.token = k
      BY <3>2, TokenStays
    <3> QED
      BY <1>1, <2>1, <3>1, <3>3 DEF HeldRun
  <2> QED
    BY <2>2, <2>3 DEF LoopMoved, Lost
<1> QED
  BY <1>3, <1>4

\* A step that neither reports nor records a run, and moves no job past its beginning.
LEMMA QuietHold ==
    ASSUME HoldInv, RoomForOneTask, GatewayInv', [Next]_vars, UnattachedStep,
           \A x \in Runs : RunWears(x),
           \A t \in Tasks, k \in 1..MaxClaims :
              \/ LoopMoved(t, k) /\ work'[t][k] = work[t][k]
              \/ jobs'[t][k].pc = "none"
    PROVE  HoldInv' /\ \A t \in Tasks : RunKept(t)
<1>1. IInv
  BY DEF HoldInv, GatewayInv, LoopInv, StoreInv
<1>2. \A t \in Tasks : SameRun(tasks[t], tasks'[t]) /\ RunStays(tasks[t], tasks'[t])
  BY <1>1, UnattachedRow, UnattachedEffect, UnattachedStays DEF IInv
<1>3. \A t \in Tasks, k \in 1..MaxClaims :
          /\ PointFits(jobs'[t][k].pc, work'[t][k], jobs'[t][k].task.run)
          /\ HeldRun(t, k)'
  BY <1>2, HeldStays
<1>4. \A t \in Tasks : RunKept(t)
  BY <1>2 DEF RunStays, RunKept, LiveRun
<1> QED
  BY <1>3, <1>4 DEF HoldInv, RunWears

\* The loop, the others, the end of a process, and what becomes of a run.
LEMMA AroundHold ==
    ASSUME HoldInv, RoomForOneTask,
           \/ UNCHANGED gatewayVars
           \/ \E w \in Workers :
                 \/ (LoopStep(w) \/ SendHeartbeat(w) \/ BreakLoop(w)) /\ UNCHANGED <<runs, work>>
                 \/ (Crash(w) \/ Exit(w)) /\ Vanish(w) /\ UNCHANGED runs
                 \/ HearCancellations(w)
           \/ \E x \in Runs : RunEnds(x) \/ ForgetRun(x)
           \/ (OthersNext \/ Passing) /\ UNCHANGED <<runs, work>>
    PROVE  HoldInv' /\ \A t \in Tasks : RunKept(t)
<1>1. GatewayInv' /\ [Next]_vars
  BY StepGatewayInv DEF HoldInv, GatewayNext
<1>2. GatewayInv /\ LoopInv
  BY DEF HoldInv, GatewayInv
<1>3. \A x \in Runs : RunWears(x)
  <2>1. CASE UNCHANGED runs
    BY <2>1, StillWears DEF HoldInv
  <2>2. CASE \E x \in Runs : RunEnds(x) \/ ForgetRun(x)
    BY <1>2, <2>2, EndWears DEF HoldInv
  <2> QED
    BY <2>1, <2>2 DEF gatewayVars, HearCancellations
<1>4. /\ UnattachedStep
      /\ \A t \in Tasks, k \in 1..MaxClaims :
            \/ LoopMoved(t, k) /\ work'[t][k] = work[t][k]
            \/ jobs'[t][k].pc = "none"
  <2>1. CASE UNCHANGED <<vars, jobs, work>>
    BY <2>1 DEF UnattachedStep, LoopMoved, SameJob
  <2>2. CASE /\ UNCHANGED <<runs, work>>
             /\ \/ \E w \in Workers : LoopStep(w) \/ SendHeartbeat(w) \/ BreakLoop(w)
                \/ OthersNext \/ Passing
    BY <1>2, <2>2, LoopEffects
  <2>3. ASSUME NEW w \in Workers, Crash(w) \/ Exit(w), Vanish(w)
        PROVE  /\ UnattachedStep
               /\ \A t \in Tasks, k \in 1..MaxClaims :
                     \/ LoopMoved(t, k) /\ work'[t][k] = work[t][k]
                     \/ jobs'[t][k].pc = "none"
    <3>1. /\ UNCHANGED vars
          /\ jobs' = [t \in Tasks |-> [k \in 1..MaxClaims |->
                         IF Holds(w, t, k) THEN NoJob ELSE jobs[t][k]]]
          /\ work' = [t \in Tasks |-> [k \in 1..MaxClaims |->
                         IF Holds(w, t, k) THEN NoWork ELSE work[t][k]]]
      BY <2>3 DEF Crash, Exit, Vanish
    <3> QED
      BY <3>1, JobFacts DEF UnattachedStep, LoopMoved, SameJob
  <2>4. ASSUME NEW x \in Runs, RunEnds(x) \/ ForgetRun(x) PROVE UNCHANGED <<vars, jobs, work>>
    BY <2>4 DEF RunEnds, ForgetRun, loopVars
  <2>5. ASSUME NEW w \in Workers, HearCancellations(w) PROVE UNCHANGED <<vars, jobs, work>>
    BY <2>5 DEF HearCancellations
  <2>6. UNCHANGED gatewayVars => UNCHANGED <<vars, jobs, work>>
    BY DEF gatewayVars, loopVars
  <2> QED
    BY <2>1, <2>2, <2>3, <2>4, <2>5, <2>6
<1> QED
  BY <1>1, <1>3, <1>4, QuietHold

-----------------------------------------------------------------------------
(* What a job makes of the table *)

\* No run that goes on is let go of, and none is recorded but the job's, under
\* its current claim.
TableKept(t, k) ==
    \A u \in Tasks :
        /\ RunKept(u)
        /\ \/ SameRun(tasks[u], tasks'[u])
           \/ /\ u = t /\ tasks'[t].claim.token = k
              /\ tasks'[t].remote.run = InHand(t, k)

\* Another task's row is only seen to by maintenance.
LEMMA OtherRow ==
    ASSUME IInv, NEW u \in Tasks, tasks'[u] = MaintainedRow(tasks[u])
    PROVE  RunKept(u) /\ SameRun(tasks[u], tasks'[u])
<1>1. RowInv(tasks[u]) /\ Unattached(tasks[u], MaintainedRow(tasks[u]), tasks'[u])
  BY DEF IInv, Unattached
<1>2. RunStays(tasks[u], tasks'[u]) /\ SameRun(tasks[u], tasks'[u])
  BY <1>1, UnattachedStays, UnattachedEffect
<1> QED
  BY <1>2 DEF RunStays, RunKept, LiveRun

\* A call that neither reports nor records a run.
LEMMA QuietTable ==
    ASSUME IInv, UnattachedStep, NEW t \in Tasks, NEW k
    PROVE  TableKept(t, k)
<1>1. \A u \in Tasks : SameRun(tasks[u], tasks'[u]) /\ RunStays(tasks[u], tasks'[u])
  BY UnattachedRow, UnattachedEffect, UnattachedStays DEF IInv
<1> QED
  BY <1>1 DEF TableKept, RunStays, RunKept, LiveRun

\* A job has its run recorded: it is the one on record if that goes on.
LEMMA AttachTable ==
    ASSUME HoldInv, RoomForOneTask, NEW w \in Workers, NEW t \in Tasks, NEW k \in 1..MaxClaims,
           NEW p \in {"attach", "reattach", "session"}, At(w, t, k, p),
           NEW answer \in Answers, CallAttach(w, t, k, answer)
    PROVE  TableKept(t, k)
<1> DEFINE run == work[t][k].run
           m == MaintainedRow(tasks[t])
<1>1. GatewayInv /\ IInv /\ HeldRun(t, k)
  BY DEF HoldInv, GatewayInv, LoopInv, StoreInv
<1>2. Alive(jobs[t][k]) /\ jobs[t][k].pc = p /\ work[t][k] \in Work
      /\ Token(w, t) = k /\ InHand(t, k) = run /\ run \in Runs
  <2>1. Alive(jobs[t][k]) /\ Holds(w, t, k) /\ work[t][k] \in Work /\ jobs[t][k].pc = p
        /\ WorkFits(p, work[t][k])
    BY <1>1, AtFacts
  <2> QED
    BY <1>1, <2>1, TokenFacts DEF InHand, WorkFits, Work
<1>3. UNCHANGED vars \/ AttachRemoteRun(t, w, k, run)
  BY <1>2 DEF CallAttach, Calls
<1>4. CASE UNCHANGED vars
  BY <1>1, <1>4, QuietTable DEF UnattachedStep
<1>5. CASE AttachRemoteRun(t, w, k, run)
  <2>1. /\ RowInv(tasks[t]) /\ RowInv(m) /\ m \in Row /\ MayAttach(m, w, k, run)
        /\ tasks'[t] = Attached(m, run)
        /\ \A u \in Tasks : u # t => tasks'[u] = MaintainedRow(tasks[u])
    BY <1>1, <1>5, MaintainedRows, MaintainedInv DEF IInv, RowInv, AttachRemoteRun, Transaction
  <2>2. m.claim.token = k /\ k # 0 /\ m.status \in {"claimed", "running"}
    BY <2>1 DEF MayAttach, RequireClaim
  <2>3. tasks[t].claim.token = k
    BY <2>1, <2>2, CurrentRow
  <2> HIDE DEF m
  <2>4. /\ tasks'[t].remote.run = run /\ tasks'[t].claim.token = k
        /\ tasks'[t].status \in {"claimed", "running"}
    <3> HIDE DEF run
    <3>1. WasAttached(m, Attached(m, run))
      BY <1>2, <2>1, AttachedParts
    <3>2. Attached(m, run).remote.run = run
      BY <2>1 DEF Attached, Row, NoRemote
    <3> QED
      BY <2>1, <2>2, <3>1, <3>2 DEF WasAttached, SameClaim
  <2>5. LiveRun(tasks[t].remote.run) => tasks[t].remote.run = run
    BY <1>1, <1>2, <2>3 DEF HeldRun, Alive
  <2>6. RunKept(t)
    BY <2>4, <2>5 DEF RunKept
  <2> QED
    BY <1>1, <1>2, <2>1, <2>4, <2>6, OtherRow DEF TableKept
<1> QED
  BY <1>3, <1>4, <1>5

\* A job reports: the run on record is over then, if the report is taken.
LEMMA ReportTable ==
    ASSUME HoldInv, RoomForOneTask, NEW w \in Workers, NEW t \in Tasks, NEW k \in 1..MaxClaims,
           Report(w, t, k)
    PROVE  TableKept(t, k)
<1> DEFINE l == work[t][k]
           m == MaintainedRow(tasks[t])
<1>1. GatewayInv /\ IInv /\ HeldRun(t, k) /\ PointFits("report", l, jobs[t][k].task.run)
  BY DEF HoldInv, GatewayInv, LoopInv, StoreInv, Report, At
<1>2. /\ Alive(jobs[t][k]) /\ Token(w, t) = k /\ l \in Work /\ WorkFits("report", l)
      /\ l.seen \in Over => runs[l.run].state = l.seen
  <2>1. /\ Alive(jobs[t][k]) /\ Holds(w, t, k) /\ l \in Work /\ WorkFits("report", l)
        /\ l.seen \in Over => runs[l.run].state = l.seen
    BY <1>1, AtFacts DEF Report
  <2> QED
    BY <1>1, <2>1, TokenFacts
<1>3. PICK outcome \in Terminal, run \in Runs \cup {NoRun} :
          outcome = OutcomeOf(l) /\ run = RunReported(l)
  BY <1>2, OutcomeFacts
<1>4. PICK retryable \in BOOLEAN : retryable = (outcome = "failed" /\ l.why # "unserved")
  OBVIOUS
<1>5. UNCHANGED vars \/ ReportResult(t, w, k, run, outcome, retryable)
  BY <1>2, <1>3, <1>4 DEF Report, Calls
<1>6. CASE UNCHANGED vars
  BY <1>1, <1>6, QuietTable DEF UnattachedStep
<1>7. CASE ReportResult(t, w, k, run, outcome, retryable)
  <2>1. /\ RowInv(tasks[t]) /\ MayReport(m, w, k, run, outcome)
        /\ \A u \in Tasks : u # t => tasks'[u] = MaintainedRow(tasks[u])
    BY <1>1, <1>7, MaintainedRows DEF IInv, ReportResult, Transaction
  <2>2. m.claim.token = k /\ k # 0 /\ run = m.remote.run
    BY <2>1 DEF MayReport, RequireClaim
  <2>3. run = tasks[t].remote.run
    BY <2>1, <2>2, CurrentRow
  <2>4. ~LiveRun(tasks[t].remote.run)
    <3>1. run # NoRun => run = l.run /\ l.seen \in Over
      BY <1>1, <1>3 DEF PointFits, RunReported
    <3> QED
      BY <1>2, <2>3, <3>1 DEF LiveRun, Live, Over
  <2>5. RunKept(t)
    BY <2>4 DEF RunKept
  <2>6. SameRun(tasks[t], tasks'[t])
    <3>1. k \in Nat
      OBVIOUS
    <3> QED
      BY <1>1, <1>7, <3>1, ReportSameRun
  <2> QED
    BY <1>1, <2>1, <2>5, <2>6, OtherRow DEF TableKept
<1> QED
  BY <1>5, <1>6, <1>7

\* Whatever a job does, no run that goes on is let go of.
LEMMA JobTable ==
    ASSUME HoldInv, RoomForOneTask, NEW w \in Workers, NEW t \in Tasks, NEW k \in 1..MaxClaims,
           JobStep(w, t, k)
    PROVE  TableKept(t, k)
<1>1. IInv
  BY DEF HoldInv, GatewayInv, LoopInv, StoreInv
<1>2. ASSUME NEW answer \in Answers, NEW p \in {"attach", "reattach", "session"},
             At(w, t, k, p), CallAttach(w, t, k, answer)
      PROVE  TableKept(t, k)
  BY <1>2, AttachTable
<1>3. CASE Attach(w, t, k) \/ AttachAgain(w, t, k) \/ AttachSession(w, t, k)
  BY <1>2, <1>3 DEF Attach, AttachAgain, AttachSession
<1>4. CASE SetRunning(w, t, k)
  <2>1. UNCHANGED vars \/ UpdateTaskStatus(t, w, k)
    BY <1>4 DEF SetRunning, Calls
  <2> QED
    BY <1>1, <2>1, QuietTable DEF UnattachedStep
<1>5. CASE Reconcile(w, t, k)
  <2> DEFINE exceeded == work[t][k].why \in {"deadline", "overdue"}
  <2>1. exceeded \in BOOLEAN
    OBVIOUS
  <2>2. UNCHANGED vars \/ MarkReconciling(t, w, Token(w, t), exceeded)
    BY <1>5 DEF Reconcile, Calls
  <2> HIDE DEF exceeded
  <2> QED
    BY <1>1, <2>1, <2>2, QuietTable DEF UnattachedStep
<1>6. CASE UNCHANGED vars
  BY <1>1, <1>6, QuietTable DEF UnattachedStep
<1>7. CASE Report(w, t, k)
  BY <1>7, ReportTable
<1> QED
  BY <1>3, <1>4, <1>5, <1>6, <1>7
  DEF JobStep, LoseToken, EnterToken, RefuseTask, LookForRun, Begin, Loop, Poll, Stop, ConfirmStop

-----------------------------------------------------------------------------
(* Where a job goes on to *)

\* The coordinator has not answered yet that it has recorded the run.
Untold == {"conflict", "audit", "unconfirmed"}
Loose(p, l) == p \in {"begin", "attach"} \/ (p = "stop" /\ l.why \in Untold)

\* No request to the gateway is lost.
GatewayReached == "start" \notin Faults /\ "gateway" \notin Faults

\* What holds of every point p and local variables l that a job goes on to: it
\* keeps its run unless that is over; and if no request is lost, it keeps the run
\* that it starts, and knows of the record what it knew.
Sound(t, k, p, l) ==
    /\ PointFits(p, l, jobs[t][k].task.run)
    /\ l.run = InHand(t, k) \/ ~LiveRun(InHand(t, k))
    /\ GatewayReached =>
          /\ \A x \in Runs : Going(x)' => Going(x) \/ x = l.run
          /\ \/ Loose(p, l) \/ ~Going(l.run)' \/ tasks'[t].remote.run = l.run
             \/ l.run = InHand(t, k) /\ ~Loose(jobs[t][k].pc, work[t][k])

\* A job ends with nothing in hand, or with what it knows of the record.
Quits(w, t, k) ==
    /\ End(w, t, k) /\ UNCHANGED runs
    /\ work[t][k].run = NoRun \/ ~Loose(jobs[t][k].pc, work[t][k])

GoesOn(t, k) == \E p \in Ahead, l \in Work : Go(t, k, p, l) /\ Sound(t, k, p, l)

\* The runs stay, and what the job knows is still right.
LEMMA SameSound ==
    ASSUME UNCHANGED runs, NEW t \in Tasks, NEW k \in 1..MaxClaims, NEW p \in Ahead,
           NEW l \in Work, Go(t, k, p, l), PointFits(p, l, jobs[t][k].task.run),
           l.run = InHand(t, k) \/ ~LiveRun(InHand(t, k)),
           \/ l.run = NoRun \/ Loose(p, l) \/ tasks'[t].remote.run = l.run
           \/ ~Going(l.run)
           \/ l.run = InHand(t, k) /\ ~Loose(jobs[t][k].pc, work[t][k])
    PROVE  GoesOn(t, k)
<1>1. \A x : Going(x)' = Going(x)
  BY DEF Going
<1> QED
  BY <1>1 DEF GoesOn, Sound, Going

\* What a job knows when it takes a step.
LEMMA HoldFacts ==
    ASSUME HoldInv, NEW w \in Workers, NEW t \in Tasks, NEW k \in 1..MaxClaims, NEW p,
           At(w, t, k, p), p \notin {"none", "offered"}
    PROVE  /\ GatewayInv /\ jobs[t][k].pc = p /\ Alive(jobs[t][k]) /\ work[t][k] \in Work
           /\ WorkFits(p, work[t][k]) /\ PointFits(p, work[t][k], jobs[t][k].task.run)
           /\ jobs[t][k].task.run \in Runs \cup {NoRun}
           /\ InHand(t, k) = IF p = "new" THEN jobs[t][k].task.run ELSE work[t][k].run
           /\ runs \in [Runs -> GatewayRun]
           /\ \A x \in Runs : ~runs[x].known => ~LiveRun(x) /\ ~Going(x)
BY AtFacts DEF HoldInv, InHand, LiveKnown, LiveRun, Going, Live

\* The task cannot be served.
LEMMA RefuseTaskHold ==
    ASSUME HoldInv, NEW w \in Workers, NEW t \in Tasks, NEW k \in 1..MaxClaims,
           RefuseTask(w, t, k)
    PROVE  GoesOn(t, k)
<1> DEFINE run == jobs[t][k].task.run
<1>1. PICK p \in {"new", "look", "begin"}, l \in Work, q \in {"report", "reconcile"} :
          /\ At(w, t, k, p) /\ Go(t, k, q, l)
          /\ l.run = IF p = "begin" THEN NoRun ELSE run
          /\ q = "report" => l.why = "unserved"
  BY Refused DEF HoldInv
<1>2. /\ jobs[t][k].pc = p
      /\ PointFits(p, work[t][k], run) /\ work[t][k] \in Work
      /\ InHand(t, k) = IF p = "new" THEN run ELSE work[t][k].run
  BY <1>1, HoldFacts
<1>3. InHand(t, k) = l.run
  BY <1>1, <1>2 DEF PointFits
<1>4. UNCHANGED runs /\ q \in Ahead
  BY DEF RefuseTask, Ahead
<1>5. PointFits(q, l, run)
  BY <1>1 DEF PointFits, RunReported
<1>6. l.run = NoRun \/ ~Loose(jobs[t][k].pc, work[t][k])
  BY <1>1, <1>2 DEF Loose
<1> QED
  BY <1>1, <1>3, <1>4, <1>5, <1>6, SameSound

\* set_running.
LEMMA SetRunningHold ==
    ASSUME HoldInv, NEW w \in Workers, NEW t \in Tasks, NEW k \in 1..MaxClaims,
           SetRunning(w, t, k)
    PROVE  GoesOn(t, k) \/ Quits(w, t, k)
<1>1. /\ jobs[t][k].pc = "new" /\ jobs[t][k].task.run \in Runs \cup {NoRun}
      /\ WorkFits("new", work[t][k])
      /\ InHand(t, k) = jobs[t][k].task.run /\ UNCHANGED runs
  BY HoldFacts DEF SetRunning
<1>2. PICK run \in Runs \cup {NoRun}, b \in BOOLEAN :
          run = jobs[t][k].task.run /\ b = (run # NoRun)
  BY <1>1
<1> DEFINE l == [NoWork EXCEPT !.run = run, !.bound = b]
<1>3. /\ l \in Work /\ l.run = run /\ l.bound = b
      /\ Because(l, "unbound") \in Work /\ Because(l, "unbound").run = run
      /\ Because(l, "unbound").why = "unbound"
  <2>1. l \in Work /\ l.run = run /\ l.bound = b
    BY RunNoted
  <2>2. "unbound" \in Reasons
    BY DEF Reasons
  <2> HIDE DEF l
  <2> QED
    BY <2>1, <2>2, BecauseFacts
<1>4. \/ Go(t, k, IF run = NoRun THEN "begin" ELSE "look", l)
      \/ End(w, t, k)
      \/ Escape(t, k, l)
  BY <1>2 DEF SetRunning, Answers
<1> HIDE DEF l
<1>5. {"begin", "look", "report", "reconcile"} \subseteq Ahead
  BY DEF Ahead
<1>6. ~Loose("new", work[t][k])
  BY DEF Loose
<1>7. ASSUME NEW p \in {"begin", "look", "reconcile"}, Go(t, k, p, l),
             p = "begin" => run = NoRun
      PROVE  GoesOn(t, k)
  <2>1. PointFits(p, l, run)
    BY <1>3, <1>7 DEF PointFits
  <2> QED
    BY <1>1, <1>2, <1>3, <1>5, <1>6, <1>7, <2>1, SameSound
<1>8. CASE Go(t, k, "report", Because(l, "unbound"))
  <2>1. PointFits("report", Because(l, "unbound"), run)
    BY <1>3 DEF PointFits, RunReported
  <2> QED
    BY <1>1, <1>2, <1>3, <1>5, <1>6, <1>8, <2>1, SameSound
<1>9. CASE End(w, t, k)
  BY <1>1, <1>6, <1>9 DEF Quits
<1> QED
  BY <1>4, <1>7, <1>8, <1>9 DEF Escape

\* The look at the run that an earlier claim has left.
LEMMA LookForRunHold ==
    ASSUME HoldInv, NEW w \in Workers, NEW t \in Tasks, NEW k \in 1..MaxClaims,
           LookForRun(w, t, k)
    PROVE  GoesOn(t, k)
<1> DEFINE l == work[t][k]
           run == jobs[t][k].task.run
           s == runs[l.run].state
<1>1. /\ jobs[t][k].pc = "look" /\ l \in Work /\ l.run = run /\ l.run # NoRun
      /\ InHand(t, k) = l.run /\ UNCHANGED runs
      /\ \A x \in Runs : ~runs[x].known => ~LiveRun(x) /\ ~Going(x)
  BY HoldFacts DEF LookForRun, PointFits, WorkFits
<1>2. l.run \in Runs /\ ~Loose("look", l)
  BY <1>1 DEF Work, Loose
<1>3. {"begin", "loop", "stop", "report", "reconcile"} \subseteq Ahead
  BY DEF Ahead
<1>4. ASSUME NEW p \in {"loop", "reconcile"}, Go(t, k, p, l) PROVE GoesOn(t, k)
  <2>1. PointFits(p, l, run)
    BY DEF PointFits
  <2> QED
    BY <1>1, <1>2, <1>3, <1>4, <2>1, SameSound
<1>5. ASSUME NEW p \in {"stop", "reconcile"}, NEW why \in Reasons, Go(t, k, p, Because(l, why))
      PROVE  GoesOn(t, k)
  <2>1. PICK e \in Work : e = Because(l, why) /\ e.run = l.run /\ e.why = why
    BY <1>1, BecauseFacts
  <2>2. PointFits(p, e, run)
    BY DEF PointFits
  <2> QED
    BY <1>1, <1>2, <1>3, <1>5, <2>1, <2>2, SameSound
<1>6. CASE Go(t, k, "begin", NoWork) /\ ~runs[l.run].known
  <2>1. PointFits("begin", NoWork, run)
    BY NoWorkFacts DEF PointFits
  <2> QED
    BY <1>1, <1>2, <1>3, <1>6, <2>1, NoWorkFacts, SameSound
<1>7. ASSUME NEW x \in Over, Go(t, k, "report", [l EXCEPT !.seen = x, !.why = "ended"])
      PROVE  GoesOn(t, k)
  <2>1. PICK e \in Work : /\ e = [l EXCEPT !.seen = x, !.why = "ended"]
                          /\ e.run = l.run /\ e.seen = x
    BY <1>1, EndNoted
  <2>2. PointFits("report", e, run)
    BY <2>1 DEF PointFits
  <2> QED
    BY <1>1, <1>2, <1>3, <1>7, <2>1, <2>2, SameSound
<1>8. "overdue" \in Reasons /\ "resumed" \in Reasons
  BY DEF Reasons
<1> QED
  BY <1>4, <1>5, <1>6, <1>7, <1>8 DEF LookForRun

\* The request to start a run.
LEMMA BeginHold ==
    ASSUME HoldInv, NEW w \in Workers, NEW t \in Tasks, NEW k \in 1..MaxClaims,
           Begin(w, t, k)
    PROVE  GoesOn(t, k)
<1> DEFINE run == jobs[t][k].task.run
<1>1. /\ GatewayInv /\ jobs[t][k].task.attempt \in Nat /\ InHand(t, k) = NoRun
  <2>1. At(w, t, k, "begin")
    BY DEF Begin
  <2>2. GatewayInv /\ PointFits("begin", work[t][k], run) /\ InHand(t, k) = work[t][k].run
    BY <2>1, HoldFacts
  <2>3. jobs[t][k].task.attempt \in Nat
    BY <2>1, <2>2, AtFacts
  <2> QED
    BY <2>2, <2>3 DEF PointFits
<1>2. ~LiveRun(InHand(t, k))
  BY <1>1 DEF LiveRun
<1>3. ASSUME Escape(t, k, NoWork), "start" \in Faults PROVE GoesOn(t, k)
  <2>1. "report" \in Ahead /\ "unbound" \in Reasons
    BY DEF Ahead, Reasons
  <2>2. PICK l \in Work : l = Because(NoWork, "unbound") /\ l.why = "unbound"
    BY <2>1, NoWorkFacts, BecauseFacts
  <2>3. Go(t, k, "report", l)
    BY <1>3, <2>2 DEF Escape, NoWork
  <2>4. PointFits("report", l, run)
    BY <2>2 DEF PointFits, RunReported
  <2> QED
    BY <1>2, <1>3, <2>1, <2>2, <2>3, <2>4 DEF GoesOn, Sound, GatewayReached
<1>4. ASSUME NEW x \in StartedBy(IdempotencyKey(t, k)), StartRun(x, IdempotencyKey(t, k)),
             LET s == runs'[x].state IN
             Go(t, k, "attach", [NoWork EXCEPT !.run = x, !.bound = TRUE,
                                               !.seen = IF s \in Over THEN s ELSE "running"])
      PROVE  GoesOn(t, k)
  <2>1. PICK s \in {"running"} \cup Over :
            s = IF runs'[x].state \in Over THEN runs'[x].state ELSE "running"
    OBVIOUS
  <2>2. PICK key \in Tasks \X Nat : key = IdempotencyKey(t, k)
    BY <1>1 DEF IdempotencyKey
  <2>3. x \in Runs /\ StartRun(x, key)
    BY <1>4, <2>2 DEF StartedBy
  <2>4. PICK l \in Work : l = [NoWork EXCEPT !.run = x, !.bound = TRUE, !.seen = s] /\ l.run = x
    <3> DEFINE e == [NoWork EXCEPT !.run = x, !.bound = TRUE, !.seen = s]
    <3>1. e \in Work /\ e.run = x
      BY <2>3 DEF NoWork, Work, Reasons, Over
    <3> QED
      BY <3>1
  <2>5. Go(t, k, "attach", l)
    BY <1>4, <2>1, <2>4
  <2>6. "attach" \in Ahead /\ PointFits("attach", l, run) /\ Loose("attach", l)
    BY DEF Ahead, PointFits, Loose
  <2>7. \A y \in Runs : Going(y)' => Going(y) \/ y = l.run
    BY <1>1, <2>3, <2>4, StartWears DEF HoldInv, Going
  <2> QED
    BY <1>2, <2>5, <2>6, <2>7 DEF GoesOn, Sound
<1> QED
  BY <1>3, <1>4 DEF Begin

\* A job goes on with the run it has, and knows of the record what it knew.
LEMMA KeptSound ==
    ASSUME UNCHANGED runs, NEW t \in Tasks, NEW k \in 1..MaxClaims, NEW p \in Ahead,
           NEW l \in Work, Go(t, k, p, l), p \notin {"look", "begin"},
           p = "report" => l.seen \in Over,
           l.run = InHand(t, k), l.run = work[t][k].run,
           \/ Loose(p, l) \/ ~Loose(jobs[t][k].pc, work[t][k])
           \/ tasks'[t].remote.run = work[t][k].run
    PROVE  GoesOn(t, k)
<1>1. PointFits(p, l, jobs[t][k].task.run)
  BY DEF PointFits
<1> QED
  BY <1>1, SameSound

\* The requests to record the run.
LEMMA AttachHold ==
    ASSUME HoldInv, NEW w \in Workers, NEW t \in Tasks, NEW k \in 1..MaxClaims,
           Attach(w, t, k) \/ AttachAgain(w, t, k)
    PROVE  GoesOn(t, k)
<1> DEFINE l == work[t][k]
<1>1. PICK p \in {"attach", "reattach"} : At(w, t, k, p)
  BY DEF Attach, AttachAgain
<1>2. /\ GatewayInv /\ jobs[t][k].pc = p /\ l \in Work /\ l.run # NoRun /\ Alive(jobs[t][k])
      /\ InHand(t, k) = l.run /\ UNCHANGED runs
  <2>1. /\ GatewayInv /\ jobs[t][k].pc = p /\ l \in Work /\ WorkFits(p, l) /\ Alive(jobs[t][k])
        /\ InHand(t, k) = l.run
    BY <1>1, HoldFacts
  <2> QED
    BY <2>1 DEF WorkFits, Attach, AttachAgain
<1>3. /\ {"loop", "stop", "reconcile"} \subseteq Ahead
      /\ {"conflict", "audit", "unconfirmed"} \subseteq Reasons
  BY DEF Ahead, Reasons
<1>4. CASE Attach(w, t, k) /\ Go(t, k, "loop", l) /\ CallAttach(w, t, k, "ok")
  <2>1. AttachRemoteRun(t, w, Token(w, t), l.run)
    BY <1>4 DEF CallAttach, Calls
  <2>2. Token(w, t) \in Nat /\ l.run \in Runs /\ IInv
    BY <1>1, <1>2, TokenFacts DEF Work, At, GatewayInv, LoopInv, StoreInv
  <2>3. tasks'[t].remote.run = l.run
    BY <2>1, <2>2, AttachmentEffect
  <2> QED
    BY <1>2, <1>3, <1>4, <2>3, KeptSound
<1>5. ASSUME NEW why \in Untold, Go(t, k, "stop", Because(l, why)) PROVE GoesOn(t, k)
  <2>1. PICK e \in Work : e = Because(l, why) /\ e.run = l.run /\ e.why = why
    BY <1>2, <1>3, BecauseFacts DEF Untold
  <2>2. Loose("stop", e)
    BY <2>1 DEF Loose
  <2> QED
    BY <1>2, <1>3, <1>5, <2>1, <2>2, KeptSound
<1>6. CASE AttachAgain(w, t, k) /\ Go(t, k, "reconcile", l)
  <2>1. p = "reattach"
    BY <1>1, <1>6 DEF AttachAgain, At
  <2> QED
    BY <1>2, <1>3, <1>6, <2>1, KeptSound DEF Loose
<1>7. {"conflict", "audit", "unconfirmed"} \subseteq Untold
  BY DEF Untold
<1>8. CASE Attach(w, t, k)
  <2>1. PICK answer \in Answers :
          /\ CallAttach(w, t, k, answer)
          /\ CASE answer = "ok" -> Go(t, k, "loop", work[t][k])
               [] answer = "conflict" -> Go(t, k, "stop", Because(work[t][k], "conflict"))
               [] answer = "error" -> Go(t, k, "stop", Because(work[t][k], "audit"))
               [] answer = "lost" -> Go(t, k, "stop", Because(work[t][k], "unconfirmed"))
    BY <1>8 DEF Attach
  <2> QED
    BY <1>4, <1>5, <1>7, <1>8, <2>1 DEF Answers
<1>9. CASE AttachAgain(w, t, k)
  BY <1>6, <1>9 DEF AttachAgain
<1> QED
  BY <1>8, <1>9

\* The head of the loop, and the request to record another session.
LEMMA LoopHeadHold ==
    ASSUME HoldInv, NEW w \in Workers, NEW t \in Tasks, NEW k \in 1..MaxClaims,
           Loop(w, t, k) \/ AttachSession(w, t, k)
    PROVE  GoesOn(t, k)
<1> DEFINE l == work[t][k]
<1>1. PICK q \in {"loop", "session"} : At(w, t, k, q)
  BY DEF Loop, AttachSession
<1>2. /\ jobs[t][k].pc = q /\ l \in Work /\ InHand(t, k) = l.run /\ UNCHANGED runs
      /\ ~Loose(q, l)
  BY <1>1, HoldFacts DEF Loop, AttachSession, Loose
<1>3. /\ {"poll", "session", "stop", "report", "reconcile"} \subseteq Ahead
      /\ {"ended", "deadline", "cancelled", "session"} \subseteq Reasons
  BY DEF Ahead, Reasons
<1>4. ASSUME NEW p \in {"poll", "session", "reconcile"}, Go(t, k, p, l) PROVE GoesOn(t, k)
  BY <1>2, <1>3, <1>4, KeptSound
<1>5. ASSUME NEW p \in {"stop", "report"}, NEW why \in Reasons, Go(t, k, p, Because(l, why)),
             p = "report" => l.seen \in Over
      PROVE  GoesOn(t, k)
  <2>1. PICK e \in Work : /\ e = Because(l, why) /\ e.run = l.run /\ e.seen = l.seen
    BY <1>2, BecauseFacts
  <2> QED
    BY <1>2, <1>3, <1>5, <2>1, KeptSound
<1>6. CASE Onward(t, k, l)
  BY <1>3, <1>4, <1>5, <1>6 DEF Onward
<1> QED
  BY <1>3, <1>4, <1>5, <1>6 DEF Loop, AttachSession, Answers

\* A look at the run.
LEMMA PollHold ==
    ASSUME HoldInv, NEW w \in Workers, NEW t \in Tasks, NEW k \in 1..MaxClaims, Poll(w, t, k)
    PROVE  GoesOn(t, k)
<1> DEFINE l == work[t][k]
<1>1. /\ jobs[t][k].pc = "poll" /\ l \in Work /\ InHand(t, k) = l.run /\ UNCHANGED runs
      /\ ~Loose("poll", l)
  BY HoldFacts DEF Poll, Loose
<1>2. {"loop", "reconcile"} \subseteq Ahead
  BY DEF Ahead
<1>3. CASE Go(t, k, "reconcile", l)
  BY <1>1, <1>2, <1>3, KeptSound
<1>4. PICK s \in {"running"} \cup Over :
          s = IF runs[l.run].state \in Over THEN runs[l.run].state ELSE "running"
  OBVIOUS
<1>5. CASE Go(t, k, "loop", [l EXCEPT !.seen = s])
  <2>1. PICK e \in Work : e = [l EXCEPT !.seen = s] /\ e.run = l.run
    BY <1>1, SeenFacts
  <2> QED
    BY <1>1, <1>2, <1>5, <2>1, KeptSound
<1> QED
  BY <1>3, <1>4, <1>5 DEF Poll

\* The request to stop the run: after it the run is not active, or the gateway
\* does not know it any more.
LEMMA StopHold ==
    ASSUME HoldInv, NEW w \in Workers, NEW t \in Tasks, NEW k \in 1..MaxClaims, Stop(w, t, k)
    PROVE  GoesOn(t, k)
<1> DEFINE l == work[t][k]
           run == jobs[t][k].task.run
<1>1. /\ GatewayInv /\ l \in Work /\ InHand(t, k) = l.run /\ l.run # NoRun
      /\ \A x \in Runs : ~runs[x].known => ~Going(x)
  <2>1. At(w, t, k, "stop")
    BY DEF Stop
  <2>2. /\ GatewayInv /\ l \in Work /\ InHand(t, k) = l.run /\ WorkFits("stop", l)
        /\ \A x \in Runs : ~runs[x].known => ~Going(x)
    BY <2>1, HoldFacts
  <2> QED
    BY <2>2 DEF WorkFits
<1>2. PICK y \in Runs : y = l.run
  BY <1>1 DEF Work
<1>3. ASSUME StopRun(y)
      PROVE  (\A x \in Runs : Going(x)' => Going(x)) /\ ~Going(y)'
  BY <1>1, <1>2, <1>3, StopWears DEF HoldInv, Going
<1>4. ASSUME UNCHANGED runs
      PROVE  /\ \A x \in Runs : Going(x)' => Going(x)
             /\ ~runs[y].known => ~Going(y)'
  BY <1>1, <1>4 DEF Going
<1>5. {"confirm", "report", "reattach", "reconcile"} \subseteq Ahead
  BY DEF Ahead
<1>6. ASSUME NEW p \in {"confirm", "report", "reattach", "reconcile"}, NEW e \in Work,
             e.run = l.run, Go(t, k, p, e), p = "report" => RunReported(e) = NoRun \/ e.seen \in Over,
             \/ StopRun(l.run) \/ (UNCHANGED runs /\ ~runs[l.run].known)
             \/ (StopRun(l.run) \/ UNCHANGED runs) /\ "gateway" \in Faults
      PROVE  GoesOn(t, k)
  <2>1. PointFits(p, e, run)
    BY <1>6 DEF PointFits
  <2>2. e.run = y /\ e.run = InHand(t, k)
    BY <1>1, <1>2, <1>6
  <2>3. GatewayReached => StopRun(y) \/ (UNCHANGED runs /\ ~runs[y].known)
    BY <1>2, <1>6 DEF GatewayReached
  <2>4. GatewayReached => (\A x \in Runs : Going(x)' => Going(x)) /\ ~Going(y)'
    BY <1>3, <1>4, <2>3
  <2>5. GatewayReached => ~Going(e.run)'
    BY <2>2, <2>4 DEF Going
  <2> QED
    BY <1>5, <1>6, <2>1, <2>2, <2>4, <2>5 DEF GoesOn, Sound
<1>7. ASSUME NotStopped(t, k, l),
             \/ UNCHANGED runs /\ ~runs[l.run].known
             \/ (StopRun(l.run) \/ UNCHANGED runs) /\ "gateway" \in Faults
      PROVE  GoesOn(t, k)
  <2>1. PICK p \in {"report", "reattach", "reconcile"} :
            Go(t, k, p, l) /\ (p = "report" => RunReported(l) = NoRun)
    BY <1>7 DEF NotStopped, RunReported
  <2> QED
    BY <1>1, <1>6, <1>7, <2>1
<1>8. CASE StopRun(l.run) /\ Go(t, k, "confirm", l)
  BY <1>1, <1>6, <1>8
<1>9. ASSUME NEW s \in Over, StopRun(l.run), Go(t, k, "report", [l EXCEPT !.seen = s])
      PROVE  GoesOn(t, k)
  <2>1. PICK e \in Work : e = [l EXCEPT !.seen = s] /\ e.run = l.run /\ e.seen = s
    BY <1>1, SeenFacts
  <2> QED
    BY <1>6, <1>9, <2>1
<1> QED
  BY <1>7, <1>8, <1>9 DEF Stop, Stopped

\* A look at the run that was asked to stop: it was not active before.
LEMMA ConfirmStopHold ==
    ASSUME HoldInv, NEW w \in Workers, NEW t \in Tasks, NEW k \in 1..MaxClaims,
           ConfirmStop(w, t, k)
    PROVE  GoesOn(t, k)
<1> DEFINE l == work[t][k]
<1>1. /\ jobs[t][k].pc = "confirm" /\ l \in Work /\ InHand(t, k) = l.run /\ UNCHANGED runs
      /\ ~Loose("confirm", l)
  BY HoldFacts DEF ConfirmStop, Loose
<1>2. {"report", "reattach", "reconcile"} \subseteq Ahead
  BY DEF Ahead
<1>3. CASE NotStopped(t, k, l)
  <2>1. PICK p \in {"report", "reattach", "reconcile"} :
            Go(t, k, p, l) /\ (p = "report" => RunReported(l) = NoRun)
    BY <1>3 DEF NotStopped, RunReported
  <2>2. PointFits(p, l, jobs[t][k].task.run)
    BY <2>1 DEF PointFits
  <2> QED
    BY <1>1, <1>2, <2>1, <2>2, SameSound
<1>4. ASSUME NEW s \in Over, Go(t, k, "report", [l EXCEPT !.seen = s])
      PROVE  GoesOn(t, k)
  <2>1. PICK e \in Work : e = [l EXCEPT !.seen = s] /\ e.run = l.run /\ e.seen = s
    BY <1>1, SeenFacts
  <2> QED
    BY <1>1, <1>2, <1>4, <2>1, KeptSound
<1> QED
  BY <1>3, <1>4 DEF ConfirmStop, Stopped

\* The report, and the reconciliation after which a job is over.
LEMMA TellHold ==
    ASSUME HoldInv, NEW w \in Workers, NEW t \in Tasks, NEW k \in 1..MaxClaims,
           Report(w, t, k) \/ Reconcile(w, t, k)
    PROVE  GoesOn(t, k) \/ Quits(w, t, k)
<1> DEFINE l == work[t][k]
<1>1. PICK p \in {"report", "reconcile"} : At(w, t, k, p)
  BY DEF Report, Reconcile
<1>2. /\ jobs[t][k].pc = p /\ l \in Work /\ InHand(t, k) = l.run /\ UNCHANGED runs
      /\ ~Loose(p, l)
  BY <1>1, HoldFacts DEF Report, Reconcile, Loose
<1>3. CASE Go(t, k, "reconcile", Because(l, "none"))
  <2>1. "reconcile" \in Ahead /\ "none" \in Reasons
    BY DEF Ahead, Reasons
  <2>2. PICK e \in Work : e = Because(l, "none") /\ e.run = l.run
    BY <1>2, <2>1, BecauseFacts
  <2>3. Go(t, k, "reconcile", e) /\ PointFits("reconcile", e, jobs[t][k].task.run)
    BY <1>3, <2>2 DEF PointFits
  <2> QED
    BY <1>2, <2>1, <2>2, <2>3, SameSound
<1>4. CASE End(w, t, k)
  BY <1>2, <1>4 DEF Quits
<1> QED
  BY <1>3, <1>4 DEF Report, Reconcile

\* Every step of a job is one of these: it has its own token.
LEMMA JobGoesOn ==
    ASSUME HoldInv, RoomForOneTask, NEW w \in Workers, NEW t \in Tasks, NEW k \in 1..MaxClaims,
           JobStep(w, t, k)
    PROVE  GoesOn(t, k) \/ Quits(w, t, k)
<1>1. ~LoseToken(w, t, k)
  BY TokenFacts DEF HoldInv, LoseToken
<1>2. ~EnterToken(w, t, k)
  BY AtFacts, TokenFacts DEF HoldInv, EnterToken
<1> QED
  BY <1>1, <1>2, RefuseTaskHold, SetRunningHold, LookForRunHold, BeginHold, AttachHold, LoopHeadHold,
     PollHold, StopHold, ConfirmStopHold, TellHold DEF JobStep


-----------------------------------------------------------------------------
(* Every step keeps it *)

\* A job wakes no run but the one it starts.
LEMMA JobWears ==
    ASSUME HoldInv, NEW w \in Workers, NEW t \in Tasks, NEW k \in 1..MaxClaims,
           JobStep(w, t, k)
    PROVE  \A x \in Runs : RunWears(x)
<1>1. GatewayInv /\ \A x \in Runs : LiveKnown(x)
  BY DEF HoldInv
<1>2. CASE UNCHANGED runs
  BY <1>1, <1>2, StillWears
<1>3. CASE Begin(w, t, k)
  <2>1. jobs[t][k].task.attempt \in Nat
    BY <1>1, <1>3, AtFacts DEF Begin
  <2>2. PICK key \in Tasks \X Nat : key = IdempotencyKey(t, k)
    BY <2>1 DEF IdempotencyKey
  <2>3. UNCHANGED runs \/ \E x \in Runs : StartRun(x, key)
    BY <1>3, <2>2 DEF Begin, StartedBy
  <2> QED
    BY <1>1, <1>2, <2>3, StartWears
<1>4. CASE Stop(w, t, k)
  <2>1. work[t][k].run \in Runs
    <3>1. At(w, t, k, "stop")
      BY <1>4 DEF Stop
    <3>2. work[t][k] \in Work /\ WorkFits("stop", work[t][k])
      BY <1>1, <3>1, AtFacts
    <3> QED
      BY <3>2 DEF WorkFits, Work
  <2>2. UNCHANGED runs \/ StopRun(work[t][k].run)
    BY <1>4 DEF Stop
  <2> QED
    BY <1>1, <1>2, <2>1, <2>2, StopWears
<1> QED
  BY <1>2, <1>3, <1>4
  DEF JobStep, LoseToken, EnterToken, RefuseTask, SetRunning, LookForRun, Attach, AttachAgain, Loop,
      AttachSession, Poll, ConfirmStop, Report, Reconcile

\* The run in the hands of a job was started, and its claim was issued.
LEMMA HandFacts ==
    ASSUME GatewayInv, RoomForOneTask, NEW t \in Tasks, NEW k \in 1..MaxClaims,
           jobs[t][k].pc # "none"
    PROVE  /\ InHand(t, k) \in Runs \cup {NoRun}
           /\ InHand(t, k) # NoRun => runs[InHand(t, k)].state # "unused"
           /\ work[t][k].run # NoRun => runs[work[t][k].run].state # "unused"
           /\ k \in DOMAIN tasks[t].claim.issued
<1>1. KeyFits(t, k) /\ jobs[t][k] \in Job /\ work[t][k] \in Work
  BY DEF GatewayInv, KeysFit, GatewayType, LoopInv, LoopType
<1>2. k \in DOMAIN tasks[t].claim.issued
  BY DEF GatewayInv, LoopInv, JobsIssued
<1> QED
  BY <1>1, <1>2 DEF KeyFits, StartedFor, InHand, Job, Carried, Work

\* What a step of job k of task t leaves of the other jobs.
LEMMA ApartHold ==
    ASSUME HoldInv, RoomForOneTask, GatewayInv', [Next]_vars, \A x \in Runs : RunWears(x),
           NEW t \in Tasks, NEW k \in 1..MaxClaims, TableKept(t, k),
           \A u \in Tasks, j \in 1..MaxClaims : <<u, j>> # <<t, k>> =>
              jobs'[u][j] = jobs[u][j] /\ work'[u][j] = work[u][j],
           PointFits(jobs'[t][k].pc, work'[t][k], jobs'[t][k].task.run),
           HeldRun(t, k)'
    PROVE  HoldInv'
<1>1. ASSUME NEW u \in Tasks, NEW j \in 1..MaxClaims, <<u, j>> # <<t, k>>
      PROVE  /\ PointFits(jobs'[u][j].pc, work'[u][j], jobs'[u][j].task.run)
             /\ HeldRun(u, j)'
  <2>1. LoopMoved(u, j) /\ work'[u][j] = work[u][j]
    BY <1>1 DEF LoopMoved, SameJob
  <2>2. SameRun(tasks[u], tasks'[u]) \/ tasks'[u].claim.token # j
    BY <1>1 DEF TableKept
  <2> QED
    BY <2>1, <2>2, HeldStays
<1>2. \A x \in Runs : LiveKnown(x)'
  BY DEF RunWears
<1> QED
  BY <1>1, <1>2 DEF HoldInv

\* A job goes on, or is over.
LEMMA JobHold ==
    ASSUME HoldInv, RoomForOneTask, NEW w \in Workers, NEW t \in Tasks, NEW k \in 1..MaxClaims,
           JobStep(w, t, k), GatewayInv', [Next]_vars
    PROVE  HoldInv' /\ \A u \in Tasks : RunKept(u)
<1>1. /\ GatewayInv /\ HeldRun(t, k) /\ TableKept(t, k) /\ \A x \in Runs : RunWears(x)
      /\ StoreInv
  BY JobTable, JobWears DEF HoldInv, GatewayInv, LoopInv
<1>2. CASE GoesOn(t, k)
  <2>1. PICK p \in Ahead, l \in Work : Go(t, k, p, l) /\ Sound(t, k, p, l)
    BY <1>2 DEF GoesOn
  <2>2. p \in Points
    BY AheadFacts
  <2>3. /\ jobs'[t][k].pc = p /\ jobs'[t][k].task.run = jobs[t][k].task.run
        /\ work'[t][k] = l
        /\ \A u \in Tasks, j \in 1..MaxClaims : <<u, j>> # <<t, k>> =>
              jobs'[u][j] = jobs[u][j] /\ work'[u][j] = work[u][j]
    BY <1>1, <2>1, <2>2, Went
  <2>4. PointFits(jobs'[t][k].pc, work'[t][k], jobs'[t][k].task.run)
    BY <2>1, <2>3 DEF Sound
  <2>5. jobs[t][k].pc # "none"
    <3>1. \E q : At(w, t, k, q) /\ q # "none"
      BY DEF JobStep, LoseToken, EnterToken, RefuseTask, SetRunning, LookForRun, Begin, Attach, AttachAgain,
             Loop, AttachSession, Poll, Stop, ConfirmStop, Report, Reconcile, At, Alive
    <3> QED
      BY <3>1 DEF At
  <2>6. HeldRun(t, k)'
    <3> SUFFICES ASSUME tasks'[t].claim.token = k, LiveRun(tasks[t].remote.run)'
                 PROVE  tasks'[t].remote.run = l.run
      <4>1. InHand(t, k)' = l.run
        BY <2>3 DEF InHand, Ahead
      <4> QED
        BY <4>1 DEF HeldRun
    <3>1. PICK x \in Runs \cup {NoRun} : /\ x = InHand(t, k)
                                         /\ x # NoRun => runs[x].state # "unused"
                                         /\ k \in DOMAIN tasks[t].claim.issued
      BY <1>1, <2>5, HandFacts
    <3>2. LiveRun(x)' => LiveRun(x)
      BY <1>1, <3>1, LiveBefore
    <3>3. tasks[t].claim.token = k
      BY <1>1, <3>1, TokenStays
    <3>4. LiveRun(x) => l.run = x
      BY <2>1, <3>1 DEF Sound
    <3>5. CASE SameRun(tasks[t], tasks'[t])
      <4>1. tasks'[t].remote.run = tasks[t].remote.run /\ LiveRun(tasks[t].remote.run)
        BY <1>1, <3>5, RecordLive
      <4> QED
        BY <1>1, <2>5, <3>1, <3>3, <3>4, <4>1 DEF HeldRun
    <3>6. CASE tasks'[t].remote.run = x
      BY <3>2, <3>4, <3>6 DEF LiveRun
    <3> QED
      BY <1>1, <3>1, <3>5, <3>6 DEF TableKept
  <2>7. HoldInv'
    BY <1>1, <2>3, <2>4, <2>6, ApartHold
  <2> QED
    BY <1>1, <2>7 DEF TableKept
<1>3. CASE Quits(w, t, k)
  <2>1. /\ jobs'[t][k].pc = "none"
        /\ \A u \in Tasks, j \in 1..MaxClaims : <<u, j>> # <<t, k>> =>
              jobs'[u][j] = jobs[u][j] /\ work'[u][j] = work[u][j]
    <3>1. /\ jobs' = [jobs EXCEPT ![t][k] = NoJob] /\ work' = [work EXCEPT ![t][k] = NoWork]
          /\ jobs \in [Tasks -> [1..MaxClaims -> Job]] /\ work \in [Tasks -> [1..MaxClaims -> Work]]
      BY <1>1, <1>3 DEF Quits, End, Ended, GatewayInv, GatewayType, LoopInv, LoopType
    <3> QED
      BY <3>1, JobFacts
  <2>2. PointFits(jobs'[t][k].pc, work'[t][k], jobs'[t][k].task.run) /\ HeldRun(t, k)'
    BY <2>1 DEF PointFits, HeldRun
  <2>3. HoldInv'
    BY <1>1, <2>1, <2>2, ApartHold
  <2> QED
    BY <1>1, <2>3 DEF TableKept
<1> QED
  BY <1>2, <1>3, JobGoesOn

\* Every step keeps the invariant, and lets go of no run that goes on.
LEMMA StepHold ==
    ASSUME RoomForOneTask, HoldInv, [GatewayNext]_gatewayVars
    PROVE  HoldInv' /\ \A t \in Tasks : RunKept(t)
<1>1. GatewayInv' /\ [Next]_vars
  BY StepGatewayInv DEF HoldInv
<1>2. ASSUME NEW w \in Workers, NEW t \in Tasks, NEW k \in 1..MaxClaims, JobStep(w, t, k)
      PROVE  HoldInv' /\ \A u \in Tasks : RunKept(u)
  BY <1>1, <1>2, JobHold
<1> QED
  BY <1>2, AroundHold DEF GatewayNext

\* So does the first state.
LEMMA InitHold == GatewayInit => HoldInv
<1> SUFFICES ASSUME GatewayInit PROVE HoldInv
  OBVIOUS
<1>1. GatewayInv
  BY InitGatewayInv
<1>2. \A x \in Runs : LiveKnown(x)
  BY DEF GatewayInit, LiveKnown, Unused, Live
<1>3. \A t \in Tasks, k \in 1..MaxClaims : jobs[t][k].pc = "none"
  BY JobFacts DEF GatewayInit, LoopInit
<1> QED
  BY <1>1, <1>2, <1>3 DEF HoldInv, PointFits, HeldRun

\* A run that is going on is not let go of.
THEOREM GatewayKeepsLiveRuns == ASSUME RoomForOneTask PROVE GatewaySpec => LiveRunIsKept
<1>1. HoldInv /\ [GatewayNext]_gatewayVars =>
          HoldInv' /\ [\A t \in Tasks : RunKept(t)]_gatewayVars
  BY StepHold
<1> QED
  BY <1>1, InitHold, PTL DEF GatewaySpec, LiveRunIsKept


-----------------------------------------------------------------------------
(* No run is lost sight of when the gateway answers *)

\* No worker crashes.
NoCrashes == MaxCrashes = 0

\* A job past the recording of its run knows that it is on record, as long as
\* nobody has asked the run to stop.
Recorded(t, k) ==
    jobs[t][k].pc # "none" /\ ~Loose(jobs[t][k].pc, work[t][k]) /\ Going(InHand(t, k)) =>
        tasks[t].remote.run = InHand(t, k)

StrayInv ==
    /\ HoldInv
    /\ crashes = 0
    /\ \A t \in Tasks, k \in 1..MaxClaims : Recorded(t, k)
    /\ NoStrayRun

\* A run on record that goes on stays on record.
LEMMA OnRecordStays ==
    ASSUME NEW t \in Tasks, RunKept(t), NEW x, Going(x), tasks[t].remote.run = x
    PROVE  tasks'[t].remote.run = x
BY DEF Going, LiveRun, Live, RunKept

\* A job that is not moved, or only at its beginning, knows what it knew.
LEMMA RecordedStays ==
    ASSUME HoldInv, RoomForOneTask, \A x \in Runs : RunWears(x),
           NEW t \in Tasks, NEW k \in 1..MaxClaims, Recorded(t, k), RunKept(t),
           \/ LoopMoved(t, k) /\ work'[t][k] = work[t][k]
           \/ jobs'[t][k].pc = "none"
    PROVE  Recorded(t, k)'
<1> SUFFICES ASSUME jobs'[t][k].pc # "none", ~Loose(jobs[t][k].pc, work[t][k])',
                    Going(InHand(t, k))'
             PROVE  tasks'[t].remote.run = InHand(t, k)'
  BY DEF Recorded
<1>1. GatewayInv /\ jobs[t][k] \in Job
  BY DEF HoldInv, GatewayInv, LoopInv, LoopType
<1>2. CASE Opened(t, k)
  <2>1. InHand(t, k)' = Snapshot(tasks'[t]).run
    BY <1>2 DEF Opened, JobAt, InHand
  <2>2. InHand(t, k)' # NoRun
    BY DEF Going
  <2> QED
    BY <2>1, <2>2 DEF Snapshot
<1>3. CASE (SameJob(t, k) \/ Received(t, k)) /\ work'[t][k] = work[t][k]
  <2>1. /\ jobs[t][k].pc # "none" /\ InHand(t, k)' = InHand(t, k)
        /\ ~Loose(jobs[t][k].pc, work[t][k])
    BY <1>1, <1>3 DEF SameJob, Received, InHand, Loose, Job, Carried
  <2>2. PICK x \in Runs \cup {NoRun} : /\ x = InHand(t, k)
                                       /\ x # NoRun => runs[x].state # "unused"
    BY <1>1, <2>1, HandFacts
  <2>3. Going(x)'
    BY <2>1, <2>2 DEF Going
  <2>4. Going(x)
    BY <2>2, <2>3, LiveBefore
  <2>5. tasks[t].remote.run = x
    BY <2>1, <2>2, <2>4 DEF Recorded
  <2> QED
    BY <2>1, <2>2, <2>4, <2>5, OnRecordStays
<1> QED
  BY <1>2, <1>3 DEF LoopMoved, Lost

\* No step but that of a job loses sight of a run.
LEMMA AroundStray ==
    ASSUME StrayInv, RoomForOneTask, GatewayReached, NoCrashes, HoldInv', \A t \in Tasks : RunKept(t),
           \/ UNCHANGED gatewayVars
           \/ \E w \in Workers :
                 \/ (LoopStep(w) \/ SendHeartbeat(w) \/ BreakLoop(w)) /\ UNCHANGED <<runs, work>>
                 \/ (Crash(w) \/ Exit(w)) /\ Vanish(w) /\ UNCHANGED runs
                 \/ HearCancellations(w)
           \/ \E x \in Runs : RunEnds(x) \/ ForgetRun(x)
           \/ (OthersNext \/ Passing) /\ UNCHANGED <<runs, work>>
    PROVE  StrayInv'
<1>1. HoldInv /\ GatewayInv /\ LoopInv
  BY DEF StrayInv, HoldInv, GatewayInv
<1>2. ASSUME NEW x \in Runs
      PROVE  RunWears(x) /\ (runs'[x].state = "active" => runs[x].state = "active")
  <2>1. CASE UNCHANGED runs
    BY <1>1, <2>1, StillWears DEF HoldInv
  <2>2. CASE \E y \in Runs : RunEnds(y) \/ ForgetRun(y)
    BY <1>1, <2>2, EndWears DEF HoldInv
  <2> QED
    BY <2>1, <2>2 DEF gatewayVars, HearCancellations
<1>3. ASSUME NEW w \in Workers PROVE ~Crash(w)
  BY DEF StrayInv, NoCrashes, Crash
<1>4. /\ crashes' = 0
      /\ \A t \in Tasks, k \in 1..MaxClaims :
            /\ \/ LoopMoved(t, k) /\ work'[t][k] = work[t][k]
               \/ jobs'[t][k].pc = "none"
            /\ Alive(jobs[t][k]) => Alive(jobs'[t][k]) /\ work'[t][k] = work[t][k]
  <2>1. CASE UNCHANGED <<jobs, crashes, work>>
    BY <2>1 DEF LoopMoved, SameJob, StrayInv
  <2>2. CASE /\ UNCHANGED <<runs, work>>
             /\ \/ \E w \in Workers : LoopStep(w) \/ SendHeartbeat(w) \/ BreakLoop(w)
                \/ OthersNext \/ Passing
    <3>1. crashes' = crashes /\ \A t \in Tasks, k \in 1..MaxClaims : LoopMoved(t, k)
      BY <1>1, <2>2, LoopEffects
    <3>2. \A t \in Tasks, k \in 1..MaxClaims : Alive(jobs[t][k]) => Alive(jobs'[t][k])
      BY <3>1 DEF LoopMoved, SameJob, Opened, Received, Lost, Alive
    <3> QED
      BY <2>2, <3>1, <3>2 DEF StrayInv
  <2>3. ASSUME NEW w \in Workers, Exit(w), Vanish(w)
        PROVE  /\ crashes' = 0
               /\ \A t \in Tasks, k \in 1..MaxClaims :
                     /\ \/ LoopMoved(t, k) /\ work'[t][k] = work[t][k]
                        \/ jobs'[t][k].pc = "none"
                     /\ Alive(jobs[t][k]) => Alive(jobs'[t][k]) /\ work'[t][k] = work[t][k]
    <3>1. /\ crashes' = crashes /\ proc[w].active = {}
          /\ jobs' = [t \in Tasks |-> [k \in 1..MaxClaims |->
                         IF Holds(w, t, k) THEN NoJob ELSE jobs[t][k]]]
          /\ work' = [t \in Tasks |-> [k \in 1..MaxClaims |->
                         IF Holds(w, t, k) THEN NoWork ELSE work[t][k]]]
      BY <2>3 DEF Exit, Vanish
    <3>2. ASSUME NEW t \in Tasks, NEW k \in 1..MaxClaims, Holds(w, t, k)
          PROVE  ~Alive(jobs[t][k])
      <4>1. OneJob(w)
        BY <1>1 DEF LoopInv, OneJobEach, RoomForOneTask
      <4>2. <<t, k>> \in JobsOf(w) => ~Alive(jobs[t][k])
        BY <3>1, <4>1 DEF OneJob
      <4> QED
        BY <3>2, <4>2 DEF JobsOf, Alive
    <3> QED
      BY <3>1, <3>2, JobFacts DEF LoopMoved, SameJob, StrayInv
  <2>4. ASSUME NEW x \in Runs, RunEnds(x) \/ ForgetRun(x) PROVE UNCHANGED <<jobs, crashes, work>>
    BY <2>4 DEF RunEnds, ForgetRun, loopVars
  <2>5. ASSUME NEW w \in Workers, HearCancellations(w) PROVE UNCHANGED <<jobs, crashes, work>>
    BY <2>5 DEF HearCancellations
  <2>6. UNCHANGED gatewayVars => UNCHANGED <<jobs, crashes, work>>
    BY DEF gatewayVars, loopVars
  <2> QED
    BY <1>3, <2>1, <2>2, <2>3, <2>4, <2>5, <2>6
<1>5. \A t \in Tasks, k \in 1..MaxClaims : Recorded(t, k)'
  BY <1>1, <1>2, <1>4, RecordedStays DEF StrayInv
<1>6. NoStrayRun'
  <2> SUFFICES ASSUME NEW x \in Runs, runs'[x].state = "active"
               PROVE  \E t \in Tasks :
                         \/ tasks'[t].remote.run = x
                         \/ \E k \in 1..MaxClaims : Alive(jobs'[t][k]) /\ work'[t][k].run = x
    BY DEF NoStrayRun, Alive
  <2>1. runs[x].state = "active" /\ Going(x)
    BY <1>2, NullAssumption DEF Going
  <2>2. PICK t \in Tasks :
            \/ tasks[t].remote.run = x
            \/ \E k \in 1..MaxClaims : Alive(jobs[t][k]) /\ work[t][k].run = x
    BY <2>1 DEF StrayInv, NoStrayRun
  <2>3. tasks[t].remote.run = x => tasks'[t].remote.run = x
    BY <2>1, OnRecordStays
  <2> QED
    BY <1>4, <2>2, <2>3
<1> QED
  BY <1>4, <1>5, <1>6 DEF StrayInv


\* Nor does a job: the run it starts is in its hands until it is on record.
LEMMA JobStray ==
    ASSUME StrayInv, RoomForOneTask, GatewayReached, NoCrashes, HoldInv', \A u \in Tasks : RunKept(u),
           NEW w \in Workers, NEW t \in Tasks, NEW k \in 1..MaxClaims, JobStep(w, t, k)
    PROVE  StrayInv'
<1>1. HoldInv /\ GatewayInv /\ LoopInv
  BY DEF StrayInv, HoldInv, GatewayInv
<1>2. \A x \in Runs : RunWears(x)
  BY <1>1, JobWears
<1>3. \E q : At(w, t, k, q) /\ q \notin {"none", "offered"}
  BY Zenon DEF JobStep, LoseToken, EnterToken, RefuseTask, SetRunning, LookForRun, Begin, Attach, AttachAgain,
         Loop, AttachSession, Poll, Stop, ConfirmStop, Report, Reconcile, At, Alive
<1>4. Alive(jobs[t][k]) /\ jobs[t][k].pc # "none" /\ WorkFits(jobs[t][k].pc, work[t][k])
  BY <1>1, <1>3, AtFacts DEF Alive
<1>5. PICK h \in Runs \cup {NoRun} : /\ h = InHand(t, k)
                                     /\ h # NoRun => runs[h].state # "unused"
  BY <1>1, <1>4, HandFacts
<1>6. work[t][k].run # NoRun => work[t][k].run = h
  BY <1>4, <1>5, NoWorkFacts DEF WorkFits, InHand, Alive
<1>7. ~Loose(jobs[t][k].pc, work[t][k]) /\ Going(h) => tasks'[t].remote.run = h
  BY <1>4, <1>5, OnRecordStays DEF StrayInv, Recorded
<1>8. /\ crashes' = 0
      /\ \A u \in Tasks, j \in 1..MaxClaims : <<u, j>> # <<t, k>> =>
            jobs'[u][j] = jobs[u][j] /\ work'[u][j] = work[u][j]
      /\ Recorded(t, k)'
      /\ \A x \in Runs : Going(x)' =>
            \/ Going(x) /\ (work[t][k].run = x =>
                               \/ Alive(jobs'[t][k]) /\ work'[t][k].run = x
                               \/ tasks'[t].remote.run = x)
            \/ Alive(jobs'[t][k]) /\ work'[t][k].run = x
  <2>1. CASE GoesOn(t, k)
    <3>1. PICK p \in Ahead, l \in Work : Go(t, k, p, l) /\ Sound(t, k, p, l)
      BY <2>1 DEF GoesOn
    <3>2. p \in Points /\ p \notin {"none", "offered", "new"}
      BY AheadFacts DEF Ahead
    <3>3. /\ jobs'[t][k].pc = p /\ work'[t][k] = l /\ crashes' = crashes
          /\ \A u \in Tasks, j \in 1..MaxClaims : <<u, j>> # <<t, k>> =>
                jobs'[u][j] = jobs[u][j] /\ work'[u][j] = work[u][j]
      BY <1>1, <3>1, <3>2, Went
    <3>4. PICK y \in Runs \cup {NoRun} : y = l.run
      BY DEF Work
    <3>5. /\ y = h \/ ~LiveRun(h)
          /\ \A x \in Runs : Going(x)' => Going(x) \/ x = y
          /\ \/ Loose(p, l) \/ ~Going(y)' \/ tasks'[t].remote.run = y
             \/ y = h /\ ~Loose(jobs[t][k].pc, work[t][k])
      BY <1>1, <1>5, <3>1, <3>4 DEF Sound, Going
    <3>6. Recorded(t, k)'
      <4>1. InHand(t, k)' = y
        BY <3>2, <3>3, <3>4 DEF InHand
      <4>2. Loose(jobs[t][k].pc, work[t][k])' <=> Loose(p, l)
        BY <3>3 DEF Loose
      <4>3. y = h /\ Going(y)' => Going(h)
        BY <1>2, <1>5, LiveBefore
      <4>4. ~Loose(p, l) /\ Going(y)' => tasks'[t].remote.run = y
        BY <1>7, <3>5, <4>3
      <4>5. Going(InHand(t, k))' <=> Going(y)'
        BY <4>1 DEF Going
      <4> QED
        BY <4>1, <4>2, <4>4, <4>5 DEF Recorded
    <3>7. Alive(jobs'[t][k]) /\ \A x : Going(x) => LiveRun(x)
      BY <3>2, <3>3 DEF Alive, Going, LiveRun, Live
    <3>8. \A x \in Runs : x # NoRun
      BY NullAssumption
    <3> QED
      BY <1>6, <3>3, <3>4, <3>5, <3>6, <3>7, <3>8 DEF StrayInv
  <2>2. CASE Quits(w, t, k)
    <3>1. /\ jobs'[t][k].pc = "none"
          /\ \A u \in Tasks, j \in 1..MaxClaims : <<u, j>> # <<t, k>> =>
                jobs'[u][j] = jobs[u][j] /\ work'[u][j] = work[u][j]
      <4>1. /\ jobs' = [jobs EXCEPT ![t][k] = NoJob] /\ work' = [work EXCEPT ![t][k] = NoWork]
            /\ jobs \in [Tasks -> [1..MaxClaims -> Job]]
            /\ work \in [Tasks -> [1..MaxClaims -> Work]]
        BY <1>1, <2>2 DEF Quits, End, Ended, GatewayInv, GatewayType, LoopInv, LoopType
      <4> QED
        BY <4>1, JobFacts
    <3>2. crashes' = 0 /\ UNCHANGED runs
      BY <2>2 DEF Quits, End, StrayInv
    <3>3. Recorded(t, k)'
      BY <3>1 DEF Recorded
    <3>4. ASSUME NEW x \in Runs, Going(x)'
          PROVE  Going(x) /\ (work[t][k].run = x => tasks'[t].remote.run = x)
      <4>1. Going(x) /\ x # NoRun
        BY <3>2, <3>4 DEF Going
      <4>2. work[t][k].run = x => ~Loose(jobs[t][k].pc, work[t][k])
        BY <2>2, <4>1 DEF Quits
      <4> QED
        BY <1>6, <1>7, <4>1, <4>2
    <3> QED
      BY <3>1, <3>2, <3>3, <3>4
  <2> QED
    BY <1>1, <2>1, <2>2, JobGoesOn
<1>9. \A u \in Tasks, j \in 1..MaxClaims : Recorded(u, j)'
  <2>1. ASSUME NEW u \in Tasks, NEW j \in 1..MaxClaims, <<u, j>> # <<t, k>>
        PROVE  Recorded(u, j)'
    <3>1. LoopMoved(u, j) /\ work'[u][j] = work[u][j]
      BY <1>8, <2>1 DEF LoopMoved, SameJob
    <3> QED
      BY <1>1, <1>2, <3>1, RecordedStays DEF StrayInv
  <2> QED
    BY <1>8, <2>1
<1>10. NoStrayRun'
  <2> SUFFICES ASSUME NEW x \in Runs, runs'[x].state = "active"
               PROVE  \E u \in Tasks :
                         \/ tasks'[u].remote.run = x
                         \/ \E j \in 1..MaxClaims : Alive(jobs'[u][j]) /\ work'[u][j].run = x
    BY DEF NoStrayRun, Alive
  <2>1. x # NoRun /\ Going(x)'
    BY NullAssumption DEF Going
  <2>2. CASE Alive(jobs'[t][k]) /\ work'[t][k].run = x
    BY <2>2
  <2>3. CASE Going(x)
    <3>1. PICK u \in Tasks :
              \/ tasks[u].remote.run = x
              \/ \E j \in 1..MaxClaims : Alive(jobs[u][j]) /\ work[u][j].run = x
      BY <2>3 DEF StrayInv, NoStrayRun, Going
    <3>2. tasks[u].remote.run = x => tasks'[u].remote.run = x
      BY <2>3, OnRecordStays
    <3>3. ASSUME NEW j \in 1..MaxClaims, Alive(jobs[u][j]), work[u][j].run = x
          PROVE  \/ Alive(jobs'[u][j]) /\ work'[u][j].run = x
                 \/ tasks'[u].remote.run = x
      <4>1. CASE <<u, j>> = <<t, k>>
        BY <1>6, <1>8, <2>1, <3>3, <4>1
      <4>2. CASE <<u, j>> # <<t, k>>
        BY <1>8, <3>3, <4>2
      <4> QED
        BY <4>1, <4>2
    <3> QED
      BY <3>1, <3>2, <3>3
  <2> QED
    BY <1>8, <2>1, <2>2, <2>3
<1> QED
  BY <1>8, <1>9, <1>10 DEF StrayInv


\* Every step keeps the invariant.
LEMMA StepStray ==
    ASSUME RoomForOneTask, GatewayReached, NoCrashes, StrayInv, [GatewayNext]_gatewayVars
    PROVE  StrayInv'
<1>1. HoldInv' /\ \A t \in Tasks : RunKept(t)
  BY StepHold DEF StrayInv
<1>2. ASSUME NEW w \in Workers, NEW t \in Tasks, NEW k \in 1..MaxClaims, JobStep(w, t, k)
      PROVE  StrayInv'
  BY <1>1, <1>2, JobStray
<1> QED
  BY <1>1, <1>2, AroundStray DEF GatewayNext

\* The first state has no run and no job.
LEMMA InitStray == GatewayInit => StrayInv
<1> SUFFICES ASSUME GatewayInit PROVE StrayInv
  OBVIOUS
<1>1. HoldInv /\ crashes = 0
  BY InitHold DEF GatewayInit, LoopInit
<1>2. \A t \in Tasks, k \in 1..MaxClaims : jobs[t][k].pc = "none"
  BY JobFacts DEF GatewayInit, LoopInit
<1>3. \A x \in Runs : runs[x].state # "active"
  BY DEF GatewayInit, Unused
<1> QED
  BY <1>1, <1>2, <1>3 DEF StrayInv, Recorded, NoStrayRun

\* If every request to the gateway is answered and no worker crashes, a run that
\* nobody has asked to stop is on record or in the hands of a job, whatever the
\* coordinator refuses and whichever of its answers are lost.
THEOREM GatewayLeavesNoStrayRun ==
    ASSUME RoomForOneTask, GatewayReached, NoCrashes PROVE GatewaySpec => []NoStrayRun
<1>1. StrayInv /\ [GatewayNext]_gatewayVars => StrayInv'
  BY StepStray
<1>2. StrayInv => NoStrayRun
  BY DEF StrayInv
<1> QED
  BY <1>1, <1>2, InitStray, PTL DEF GatewaySpec

=============================================================================
