-------------------------- MODULE LocalWorkerProofs --------------------------
(***************************************************************************)
(* The process runtime for every number of tasks, workers, claims and      *)
(* crashes: what it reports as a success was one, and it ends a task as    *)
(* cancelled only if that was asked for, whatever its room; with room for  *)
(* one task it runs one child, obeys cancellations and leaves no child     *)
(* behind.                                                                 *)
(***************************************************************************)
EXTENDS LocalWorkerProperties, WorkerLoopProofs

USE DEF Terminal, Active

ChildType ==
    /\ children \in [Tasks -> [1..MaxClaims -> ChildStates]]
    /\ processes \in [Workers -> [Tasks -> 0..MaxClaims]]
    /\ locals \in [Tasks -> [1..MaxClaims -> Locals]]
    /\ crashes \in Nat

\* How far a job's child is, by the point the job is at.
ChildOfJob(t, k) ==
    /\ k \notin DOMAIN tasks[t].claim.issued => children[t][k] = "none"
    /\ jobs[t][k].pc \in {"offered", "new", "prepare"} => children[t][k] = "none"
    /\ jobs[t][k].pc = "collect" => ~Running(t, k)
    /\ jobs[t][k].pc = "report" =>
          /\ ~Running(t, k)
          /\ locals[t][k].verdict # "none"
          /\ locals[t][k].verdict = "succeeded" => children[t][k] = "exited"

\* SuccessIsTrue, of a claim that has a job.
TrueSuccess(t) ==
    tasks[t].status = "succeeded" =>
        /\ Len(tasks[t].claim.issued) \in 1..MaxClaims
        /\ children[t][Len(tasks[t].claim.issued)] = "exited"

\* What a job that is alone in its process can count on.
Alone(w, t, k) ==
    Holds(w, t, k) =>
        /\ jobs[t][k].pc \in {"spawned", "kill", "wait"} => processes[w][t] = k
        /\ jobs[t][k].pc = "kill" => children[t][k] # "running"
        /\ jobs[t][k].pc = "wait" /\ t \in proc[w].cancelled => children[t][k] # "running"
        /\ crashes = 0 /\ Running(t, k) => Alive(jobs[t][k])

LocalInv ==
    /\ LoopInv
    /\ ChildType
    /\ \A t \in Tasks, k \in 1..MaxClaims : ChildOfJob(t, k)
    /\ \A t \in Tasks : TrueSuccess(t)
    /\ \A w \in Workers, t \in Tasks, k \in 1..MaxClaims :
          MaxConcurrency[w] = 1 => Alone(w, t, k)

-----------------------------------------------------------------------------
(* What a step leaves of the children it is not about *)

\* A child goes on, is told to end, or ends.
ChildMoved(t, k) ==
    \/ children'[t][k] = children[t][k]
    \/ /\ children[t][k] \in {"running", "terminating"}
       /\ children'[t][k] \in {"terminating", "exited", "failed"}

\* The child of a job that stays where it is, or of one that is gone.
LEMMA QuietChild ==
    ASSUME LocalInv, [Next]_vars, NEW t \in Tasks, NEW k \in 1..MaxClaims, ChildMoved(t, k),
           \/ LoopMoved(t, k) /\ locals'[t][k] = locals[t][k]
           \/ jobs'[t][k].pc = "none"
    PROVE  ChildOfJob(t, k)'
<1>1. ChildOfJob(t, k)
  BY DEF LocalInv
<1>2. k \in DOMAIN tasks[t].claim.issued => k \in DOMAIN tasks'[t].claim.issued
  BY HoldersStay DEF LocalInv, LoopInv
<1>3. jobs'[t][k].pc = "none" \/ jobs'[t][k].pc = jobs[t][k].pc
      \/ (jobs'[t][k].pc \in {"offered", "new"} /\ children[t][k] = "none")
  BY <1>1 DEF LoopMoved, SameJob, Opened, JobAt, Received, Lost, ChildOfJob
<1>4. k # 0
  OBVIOUS
<1> QED
  BY <1>1, <1>2, <1>3, <1>4 DEF LoopMoved, SameJob, Opened, JobAt, Received, Lost,
     ChildOfJob, ChildMoved, Running

\* A success stays true.
LEMMA QuietSuccess ==
    ASSUME LocalInv, [Next]_vars, NEW t \in Tasks,
           tasks'[t].status = "succeeded" => tasks[t].status = "succeeded",
           \A k \in 1..MaxClaims : ChildMoved(t, k) \/ children[t][k] = "none"
    PROVE  TrueSuccess(t)'
<1> SUFFICES ASSUME tasks'[t].status = "succeeded"
             PROVE  /\ Len(tasks'[t].claim.issued) \in 1..MaxClaims
                    /\ children'[t][Len(tasks'[t].claim.issued)] = "exited"
  BY DEF TrueSuccess
<1>1. tasks[t].status = "succeeded" /\ TrueSuccess(t)
  BY DEF LocalInv
<1>2. tasks'[t].claim.issued = tasks[t].claim.issued
  <2>1. SettledStays(tasks[t], tasks'[t]) /\ tasks[t] \in Row
    BY SettledStep DEF LocalInv, LoopInv, StoreInv, IInv
  <2>2. tasks'[t] = [tasks[t] EXCEPT !.outbox.acked = tasks'[t].outbox.acked]
    BY <1>1, <2>1 DEF SettledStays
  <2> QED
    BY <2>1, <2>2 DEF Row
<1> QED
  BY <1>1, <1>2 DEF TrueSuccess, ChildMoved

\* What a job alone counts on, as long as it stays where it is.
LEMMA QuietAlone ==
    ASSUME LocalInv, [Next]_vars, NEW w \in Workers, MaxConcurrency[w] = 1,
           NEW t \in Tasks, NEW k \in 1..MaxClaims, ChildMoved(t, k), LoopMoved(t, k),
           processes'[w][t] = processes[w][t], proc'[w].cancelled \subseteq proc[w].cancelled,
           crashes' = crashes
    PROVE  Alone(w, t, k)'
<1>1. Alone(w, t, k) /\ ChildOfJob(t, k)
  BY DEF LocalInv
<1>2. k # 0
  OBVIOUS
<1>3. CASE k \in DOMAIN tasks[t].claim.issued
  <2>1. Holds(w, t, k)' <=> Holds(w, t, k)
    BY <1>3, HoldersStay DEF LocalInv, LoopInv
  <2>2. \/ jobs'[t][k].pc = jobs[t][k].pc
        \/ jobs[t][k].pc = "offered" /\ jobs'[t][k].pc \in {"new", "none"}
    BY <1>3 DEF LoopMoved, SameJob, Opened, Received, Lost
  <2>3. children[t][k] = "running" \/ Running(t, k) \/ children'[t][k] = children[t][k]
    BY <1>2 DEF ChildMoved, Running
  <2>4. Running(t, k)' => Running(t, k)
    BY <1>2 DEF ChildMoved, Running
  <2>5. children'[t][k] = "running" => children[t][k] = "running"
    BY DEF ChildMoved
  <2> QED
    BY <1>1, <2>1, <2>2, <2>4, <2>5 DEF Alone, Alive
<1>4. CASE k \notin DOMAIN tasks[t].claim.issued
  <2>1. children'[t][k] = "none"
    BY <1>1, <1>4 DEF ChildOfJob, ChildMoved
  <2>2. jobs[t][k].pc = "none"
    BY <1>4 DEF LocalInv, LoopInv, JobsIssued
  <2>3. jobs'[t][k].pc \in {"none", "offered"}
    BY <2>2 DEF LoopMoved, SameJob, Opened, JobAt, Received, Lost
  <2> QED
    BY <2>1, <2>3 DEF Alone, Running
<1> QED
  BY <1>3, <1>4


\* A step is sound that moves jobs only at their beginning, and reports nothing.
LEMMA QuietInv ==
    ASSUME LocalInv, [Next]_vars, LoopInv', ChildType', crashes' = crashes,
           \A t \in Tasks : tasks'[t].status = "succeeded" => tasks[t].status = "succeeded",
           \A t \in Tasks, k \in 1..MaxClaims :
              ChildMoved(t, k) /\ LoopMoved(t, k) /\ locals'[t][k] = locals[t][k],
           \A w \in Workers, t \in Tasks : processes'[w][t] = processes[w][t],
           \A w \in Workers : proc'[w].cancelled \subseteq proc[w].cancelled
    PROVE  LocalInv'
<1>1. \A t \in Tasks, k \in 1..MaxClaims : ChildOfJob(t, k)'
  BY QuietChild
<1>2. \A t \in Tasks : TrueSuccess(t)'
  BY QuietSuccess
<1>3. \A w \in Workers, t \in Tasks, k \in 1..MaxClaims :
          MaxConcurrency[w] = 1 => Alone(w, t, k)'
  BY QuietAlone
<1> QED
  BY <1>1, <1>2, <1>3 DEF LocalInv

\* The steps of the loop and of everybody else.
LEMMA AroundInv ==
    ASSUME LocalInv,
           \/ \E w \in Workers : \/ (LoopStep(w) \/ SendHeartbeat(w)) /\ UNCHANGED childVars
                                 \/ BreakLoop(w) /\ StopHeartbeats(w)
           \/ (OthersNext \/ Passing) /\ UNCHANGED childVars
    PROVE  LocalInv' /\ [Next]_vars
<1>1. /\ LoopInv' /\ [Next]_vars /\ UnattachedStep /\ crashes' = crashes
      /\ \A t \in Tasks, k \in 1..MaxClaims : LoopMoved(t, k)
      /\ \A v \in Workers : proc'[v].cancelled \subseteq proc[v].cancelled
  BY LoopEffects DEF LocalInv
<1>2. UNCHANGED <<children, processes, locals>>
  BY DEF StopHeartbeats, childVars
<1>3. \A t \in Tasks : tasks'[t].status = "succeeded" => tasks[t].status = "succeeded"
  BY <1>1, UnreportedSucceeds DEF LocalInv, LoopInv, StoreInv
<1>4. ChildType'
  BY <1>1, <1>2 DEF ChildType, LocalInv
<1> QED
  BY <1>1, <1>2, <1>3, <1>4, QuietInv DEF ChildMoved

\* Children that end by themselves, or because they were told to.
LEMMA ChildEndsInv ==
    ASSUME LocalInv, NEW t \in Tasks, NEW k \in 1..MaxClaims, ChildEnds(t, k)
    PROVE  LocalInv' /\ UNCHANGED vars
<1>1. UNCHANGED <<vars, loopVars, processes, locals>> /\ Running(t, k)
  BY DEF ChildEnds
<1>2. PICK state \in {"exited", "failed"} : children' = [children EXCEPT ![t][k] = state]
  BY DEF ChildEnds
<1>3. /\ children' \in [Tasks -> [1..MaxClaims -> ChildStates]] /\ children'[t][k] = state
      /\ \A u \in Tasks, j \in 1..MaxClaims :
            <<u, j>> # <<t, k>> => children'[u][j] = children[u][j]
  BY <1>2 DEF LocalInv, ChildType, ChildStates
<1>4. \A u \in Tasks, j \in 1..MaxClaims : ChildMoved(u, j)
  BY <1>1, <1>3 DEF ChildMoved, Running
<1>5. ChildType'
  BY <1>1, <1>3 DEF LocalInv, ChildType, loopVars
<1>6. LoopInv'
  BY <1>1, GoingOn DEF LocalInv, LoopInv, LoopType, loopVars, JobsGoOn, SameEntries
<1> QED
  BY <1>1, <1>4, <1>5, <1>6, QuietInv DEF vars, loopVars, LoopMoved, SameJob

\* The heartbeat loop has waited long enough.
LEMMA HeartbeatsGoOnInv ==
    ASSUME LocalInv, NEW w \in Workers, CancelledChildHasEnded(w)
    PROVE  LocalInv' /\ UNCHANGED vars
<1>1. UNCHANGED <<vars, loopVars, children, processes, locals>>
  BY DEF CancelledChildHasEnded
<1>2. LoopInv'
  BY <1>1, GoingOn DEF LocalInv, LoopInv, LoopType, loopVars, JobsGoOn, SameEntries
<1>3. ChildType'
  BY <1>1 DEF LocalInv, ChildType, loopVars
<1> QED
  BY <1>1, <1>2, <1>3, QuietInv DEF vars, loopVars, LoopMoved, SameJob, ChildMoved

\* The child that has the entry of a task is told to end.
LEMMA Terminated ==
    ASSUME LocalInv, NEW w \in Workers, NEW t \in Tasks, Terminate(w, t)
    PROVE  /\ children' \in [Tasks -> [1..MaxClaims -> ChildStates]]
           /\ \A u \in Tasks, k \in 1..MaxClaims : ChildMoved(u, k)
           /\ processes[w][t] # 0 => children'[t][processes[w][t]] # "running"
           /\ Target(w, t) \in 0..MaxClaims
<1>1. /\ children \in [Tasks -> [1..MaxClaims -> ChildStates]]
      /\ processes[w][t] \in 0..MaxClaims /\ 0 \in 0..MaxClaims
  BY WorkerAssumption DEF LocalInv, ChildType
<1>2. children' = [children EXCEPT ![t] =
          [k \in 1..MaxClaims |-> IF k = Target(w, t) THEN "terminating" ELSE children[t][k]]]
  BY DEF Terminate
<1>3. \A u \in Tasks, k \in 1..MaxClaims :
          children'[u][k] = IF u = t /\ k = Target(w, t) THEN "terminating" ELSE children[u][k]
  BY <1>1, <1>2
<1>4. children' \in [Tasks -> [1..MaxClaims -> ChildStates]]
  BY <1>1, <1>2 DEF ChildStates
<1>5. \A k \in 1..MaxClaims : k = Target(w, t) => Running(t, k)
  BY DEF Target
<1>6. \A u \in Tasks, k \in 1..MaxClaims : ChildMoved(u, k)
  BY <1>3, <1>5 DEF ChildMoved, Running
<1>7. processes[w][t] # 0 => children'[t][processes[w][t]] # "running"
  BY <1>1, <1>3 DEF Target, Running
<1>8. Target(w, t) \in 0..MaxClaims
  BY <1>1 DEF Target
<1> QED
  BY <1>4, <1>6, <1>7, <1>8

\* A heartbeat's answer reaches the child that has the entry of the task.
LEMMA HearCancellationInv ==
    ASSUME LocalInv, NEW w \in Workers, NEW t \in Tasks, HearCancellation(w, t)
    PROVE  LocalInv' /\ UNCHANGED vars
<1>1. /\ UNCHANGED <<vars, jobs, crashes, processes, locals>> /\ Terminate(w, t)
      /\ proc' = [proc EXCEPT ![w].heard = @ \ {t}, ![w].cancelled = @ \cup {t}]
  BY DEF HearCancellation
<1>2. /\ children' \in [Tasks -> [1..MaxClaims -> ChildStates]]
      /\ \A u \in Tasks, k \in 1..MaxClaims : ChildMoved(u, k)
      /\ processes[w][t] # 0 => children'[t][processes[w][t]] # "running"
  BY <1>1, Terminated
<1>3. /\ proc' \in [Workers -> Process] /\ \A v \in Workers \ {w} : proc'[v] = proc[v]
      /\ proc'[w].active = proc[w].active /\ proc'[w].tokens = proc[w].tokens
      /\ proc'[w].state = proc[w].state /\ proc'[w].cancelled = proc[w].cancelled \cup {t}
  <2> DEFINE q == [proc[w] EXCEPT !.heard = proc[w].heard \ {t},
                                  !.cancelled = proc[w].cancelled \cup {t}]
  <2>1. proc \in [Workers -> Process]
    BY DEF LocalInv, LoopInv, LoopType
  <2>2. proc' = [proc EXCEPT ![w] = q]
    BY <1>1
  <2>3. /\ q \in Process /\ q.active = proc[w].active /\ q.tokens = proc[w].tokens
        /\ q.state = proc[w].state /\ q.cancelled = proc[w].cancelled \cup {t}
    BY <2>1 DEF Process
  <2> HIDE DEF q
  <2> QED
    BY <2>1, <2>2, <2>3
<1>4. LoopInv'
  BY <1>1, <1>3, GoingOn DEF LocalInv, LoopInv, LoopType, JobsGoOn, SameEntries
<1>5. ChildType'
  BY <1>1, <1>2 DEF LocalInv, ChildType
<1>6. \A u \in Tasks, k \in 1..MaxClaims : LoopMoved(u, k) /\ ChildOfJob(u, k)'
  BY <1>1, <1>2, QuietChild DEF LoopMoved, SameJob
<1>7. \A u \in Tasks : TrueSuccess(u)'
  BY <1>1, <1>2, QuietSuccess DEF vars
<1>8. ASSUME NEW v \in Workers, NEW u \in Tasks, NEW k \in 1..MaxClaims, MaxConcurrency[v] = 1
      PROVE  Alone(v, u, k)'
  <2>1. CASE v # w
    BY <1>1, <1>2, <1>3, <1>6, <1>8, <2>1, QuietAlone
  <2>2. CASE v = w
    <3>1. Alone(w, u, k) /\ (Holds(w, u, k)' <=> Holds(w, u, k)) /\ jobs'[u][k] = jobs[u][k]
      BY <1>1, <1>8, <2>2 DEF LocalInv, vars, Holds
    <3>2. children'[u][k] = "running" => children[u][k] = "running"
      BY <1>2 DEF ChildMoved
    <3>3. Running(u, k)' => Running(u, k)
      BY <1>2 DEF ChildMoved, Running
    <3>4. Holds(w, u, k) /\ u = t /\ jobs[u][k].pc = "wait" => children'[u][k] # "running"
      <4>1. k # 0
        OBVIOUS
      <4> QED
        BY <1>2, <3>1, <4>1 DEF Alone
    <3> QED
      BY <1>1, <1>3, <2>2, <3>1, <3>2, <3>3, <3>4 DEF Alone, Alive
  <2> QED
    BY <2>1, <2>2
<1> QED
  BY <1>1, <1>4, <1>5, <1>6, <1>7, <1>8 DEF LocalInv

\* A process that is gone takes its jobs with it.  If it was not killed it had
\* none; a child that is left has been left by a crash.
LEMMA VanishInv ==
    ASSUME LocalInv, NEW w \in Workers, Crash(w) \/ Exit(w), Vanish(w)
    PROVE  LocalInv' /\ UNCHANGED vars
<1>1. LoopInv' /\ UNCHANGED vars
  BY GoneInv DEF LocalInv
<1>2. /\ proc' = [proc EXCEPT ![w] = [Fresh EXCEPT !.state = "down"]]
      /\ jobs' = [t \in Tasks |-> [k \in 1..MaxClaims |->
                     IF Holds(w, t, k) THEN NoJob ELSE jobs[t][k]]]
      /\ children' = children
      /\ processes' = [processes EXCEPT ![w] = [t \in Tasks |-> 0]]
      /\ locals' = [t \in Tasks |-> [k \in 1..MaxClaims |->
                       IF Holds(w, t, k) THEN NoLocals ELSE locals[t][k]]]
  BY DEF Crash, Exit, Vanish
<1>3. /\ proc \in [Workers -> Process] /\ 0 \in 0..MaxClaims /\ NoLocals \in Locals
      /\ processes \in [Workers -> [Tasks -> 0..MaxClaims]] /\ crashes \in Nat
  BY WorkerAssumption DEF LocalInv, LoopInv, LoopType, ChildType, NoLocals, Locals
<1>4. ChildType'
  <2>1. crashes' \in Nat
    BY <1>3 DEF Crash, Exit
  <2> QED
    BY <1>2, <1>3, <2>1 DEF LocalInv, ChildType
<1>5. \A t \in Tasks, k \in 1..MaxClaims :
          /\ Holds(w, t, k) => jobs'[t][k].pc = "none"
          /\ ~Holds(w, t, k) => jobs'[t][k] = jobs[t][k] /\ locals'[t][k] = locals[t][k]
          /\ ChildMoved(t, k)
  BY <1>2, JobFacts DEF ChildMoved
<1>6. \A t \in Tasks, k \in 1..MaxClaims : ChildOfJob(t, k)'
  BY <1>1, <1>5, QuietChild DEF LoopMoved, SameJob
<1>7. \A t \in Tasks : TrueSuccess(t)'
  BY <1>1, <1>5, QuietSuccess DEF vars
<1>8. ASSUME NEW v \in Workers, NEW t \in Tasks, NEW k \in 1..MaxClaims, MaxConcurrency[v] = 1
      PROVE  Alone(v, t, k)'
  <2>1. (Holds(v, t, k)' <=> Holds(v, t, k)) /\ (Holds(v, t, k) /\ v # w => ~Holds(w, t, k))
    BY <1>1 DEF vars, Holds
  <2>2. Alone(v, t, k) /\ (Running(t, k)' <=> Running(t, k))
    BY <1>2, <1>8 DEF LocalInv, Running
  <2>3. CASE v # w
    <3>1. Holds(v, t, k) => jobs'[t][k] = jobs[t][k]
      BY <1>5, <2>1, <2>3
    <3>2. proc'[v] = proc[v] /\ processes'[v] = processes[v]
      BY <1>2, <1>3, <2>3
    <3>3. crashes' = 0 => crashes = 0
      BY <1>3 DEF Crash, Exit
    <3> QED
      BY <1>2, <2>1, <2>2, <3>1, <3>2, <3>3 DEF Alone, Alive
  <2>4. CASE v = w
    <3>1. Holds(v, t, k) => jobs'[t][k].pc = "none"
      BY <1>5, <2>4
    <3>2. Holds(v, t, k) => ~(crashes' = 0 /\ Running(t, k))
      <4>1. CASE Crash(w)
        BY <1>3, <4>1 DEF Crash
      <4>2. CASE Exit(w)
        <5> SUFFICES ASSUME Holds(w, t, k), crashes' = 0, Running(t, k) PROVE FALSE
          BY <2>4
        <5>1. crashes = 0 /\ proc[w].active = {}
          BY <4>2 DEF Exit
        <5>2. Alive(jobs[t][k])
          BY <2>2, <2>4, <5>1 DEF Alone
        <5>3. <<t, k>> \in JobsOf(w) /\ OneJob(w)
          BY <1>8, <2>4, <5>2 DEF JobsOf, Alive, LocalInv, LoopInv, OneJobEach
        <5> QED
          BY <5>1, <5>2, <5>3 DEF OneJob
      <4> QED
        BY <4>1, <4>2
    <3> QED
      BY <2>1, <2>2, <3>1, <3>2 DEF Alone
  <2> QED
    BY <2>3, <2>4
<1> QED
  BY <1>1, <1>4, <1>6, <1>7, <1>8 DEF LocalInv

-----------------------------------------------------------------------------
(* Steps of run_task *)

\* The point a job goes on to.
LEMMA Went ==
    ASSUME LoopType, ChildType, NEW t \in Tasks, NEW k \in 1..MaxClaims, NEW p \in Points,
           NEW l \in Locals, Go(t, k, p, l)
    PROVE  /\ jobs' \in [Tasks -> [1..MaxClaims -> Job]] /\ jobs'[t][k].pc = p
           /\ locals' \in [Tasks -> [1..MaxClaims -> Locals]] /\ locals'[t][k] = l
           /\ UNCHANGED <<proc, crashes>>
           /\ \A u \in Tasks, j \in 1..MaxClaims : <<u, j>> # <<t, k>> =>
                 jobs'[u][j] = jobs[u][j] /\ locals'[u][j] = locals[u][j]
<1> DEFINE c == jobs[t][k].task
           b == IF p = "wait" THEN TaskTimeout ELSE c.budget
           d == [c EXCEPT !.budget = b]
           q == [pc |-> p, task |-> d]
<1>1. /\ jobs \in [Tasks -> [1..MaxClaims -> Job]] /\ c \in Carried
      /\ jobs[t][k] = [pc |-> jobs[t][k].pc, task |-> c]
  BY DEF LoopType, Job
<1>2. b \in Timer
  BY <1>1, TimerFacts DEF Carried
<1>3. d \in Carried
  BY <1>1, <1>2 DEF Carried
<1>4. q \in Job /\ q.pc = p
  BY <1>3 DEF Job
<1>5. jobs' = [jobs EXCEPT ![t] = [jobs[t] EXCEPT ![k] = q]]
  <2>1. Enter(jobs[t][k], p) = q
    BY <1>1 DEF Enter
  <2>2. jobs' = [jobs EXCEPT ![t][k] = Enter(jobs[t][k], p)]
    BY DEF Go
  <2> QED
    BY <2>1, <2>2
<1> HIDE DEF q
<1>6. /\ jobs' \in [Tasks -> [1..MaxClaims -> Job]] /\ jobs'[t][k].pc = p
      /\ \A u \in Tasks, j \in 1..MaxClaims :
            <<u, j>> # <<t, k>> => jobs'[u][j] = jobs[u][j]
  BY <1>1, <1>4, <1>5
<1>7. /\ locals' \in [Tasks -> [1..MaxClaims -> Locals]] /\ locals'[t][k] = l
      /\ \A u \in Tasks, j \in 1..MaxClaims :
            <<u, j>> # <<t, k>> => locals'[u][j] = locals[u][j]
  BY DEF Go, ChildType
<1> QED
  BY <1>6, <1>7 DEF Go

\* What a step of job k of task t leaves of everything else.
Apart(w, t, k) ==
    /\ \A u \in Tasks, j \in 1..MaxClaims : <<u, j>> # <<t, k>> =>
          /\ ChildMoved(u, j)
          /\ jobs'[u][j] = jobs[u][j] /\ locals'[u][j] = locals[u][j]
    /\ \A v \in Workers, u \in Tasks : <<v, u>> # <<w, t>> => processes'[v][u] = processes[v][u]
    /\ \A v \in Workers : proc'[v].cancelled \subseteq proc[v].cancelled
    /\ crashes' = crashes

\* It is then enough to look at that job, and at what is reported.
LEMMA ApartInv ==
    ASSUME LocalInv, NEW w \in Workers, NEW t \in Tasks, NEW k \in 1..MaxClaims,
           Holds(w, t, k), jobs[t][k].pc # "none", [Next]_vars, LoopInv', ChildType',
           Apart(w, t, k), ChildOfJob(t, k)', \A u \in Tasks : TrueSuccess(u)',
           MaxConcurrency[w] = 1 => Alone(w, t, k)'
    PROVE  LocalInv'
<1>1. \A u \in Tasks, j \in 1..MaxClaims : ChildOfJob(u, j)'
  <2> SUFFICES ASSUME NEW u \in Tasks, NEW j \in 1..MaxClaims, <<u, j>> # <<t, k>>
               PROVE  ChildOfJob(u, j)'
    OBVIOUS
  <2>1. ChildMoved(u, j) /\ LoopMoved(u, j) /\ locals'[u][j] = locals[u][j]
    BY DEF Apart, LoopMoved, SameJob
  <2> QED
    BY <2>1, QuietChild
<1>2. ASSUME NEW v \in Workers, NEW u \in Tasks, NEW j \in 1..MaxClaims, MaxConcurrency[v] = 1,
             <<v, u, j>> # <<w, t, k>>
      PROVE  Alone(v, u, j)'
  <2>1. CASE v = w
    <3>1. /\ <<u, j>> # <<t, k>> /\ ChildMoved(u, j) /\ jobs'[u][j] = jobs[u][j]
          /\ crashes' = crashes
      BY <1>2, <2>1 DEF Apart
    <3>2. <<t, k>> \in JobsOf(w) /\ \A x, y \in JobsOf(w) : x = y
      BY <1>2, <2>1 DEF JobsOf, LocalInv, LoopInv, OneJobEach, OneJob
    <3>3. Holds(w, u, j) => jobs[u][j].pc = "none"
      BY <3>1, <3>2 DEF JobsOf
    <3>4. Holds(w, u, j) => ~(crashes = 0 /\ Running(u, j))
      BY <1>2, <2>1, <3>3 DEF LocalInv, Alone, Alive
    <3>5. Running(u, j)' => Running(u, j)
      BY <3>1 DEF ChildMoved, Running
    <3>6. CASE j \in DOMAIN tasks[u].claim.issued
      <4>1. Holds(w, u, j)' <=> Holds(w, u, j)
        BY <3>6, HoldersStay DEF LocalInv, LoopInv
      <4> QED
        BY <2>1, <3>1, <3>3, <3>4, <3>5, <4>1 DEF Alone
    <3>7. CASE j \notin DOMAIN tasks[u].claim.issued
      <4>1. children[u][j] = "none" /\ jobs[u][j].pc = "none"
        BY <3>7 DEF LocalInv, LoopInv, ChildOfJob, JobsIssued
      <4>2. ~Running(u, j)
        BY <4>1 DEF Running
      <4> QED
        BY <2>1, <3>1, <3>5, <4>1, <4>2 DEF Alone
    <3> QED
      BY <3>6, <3>7
  <2>2. CASE v # w /\ <<u, j>> # <<t, k>>
    <3>1. /\ ChildMoved(u, j) /\ LoopMoved(u, j) /\ processes'[v][u] = processes[v][u]
          /\ proc'[v].cancelled \subseteq proc[v].cancelled /\ crashes' = crashes
      BY <2>2 DEF Apart, LoopMoved, SameJob
    <3> QED
      BY <1>2, <3>1, QuietAlone
  <2>3. CASE v # w /\ u = t /\ j = k
    <3>1. k \in DOMAIN tasks[t].claim.issued
      BY DEF Holds
    <3>2. Holds(v, t, k)' <=> Holds(v, t, k)
      BY <3>1, HoldersStay DEF LocalInv, LoopInv
    <3>3. ~Holds(v, t, k)
      BY <2>3 DEF Holds
    <3> QED
      BY <2>3, <3>2, <3>3 DEF Alone
  <2> QED
    BY <2>1, <2>2, <2>3
<1> QED
  BY <1>1, <1>2 DEF LocalInv

\* A job goes on, having told the coordinator nothing, or that it has started.
LEMMA AdvanceInv ==
    ASSUME LocalInv, NEW w \in Workers, NEW t \in Tasks, NEW k \in 1..MaxClaims,
           Holds(w, t, k), Alive(jobs[t][k]), UNCHANGED vars \/ UpdateTaskStatus(t, w, k),
           NEW p \in Points \ {"none", "offered"}, NEW l \in Locals, Go(t, k, p, l),
           children' \in [Tasks -> [1..MaxClaims -> ChildStates]],
           \A u \in Tasks, j \in 1..MaxClaims : <<u, j>> # <<t, k>> => ChildMoved(u, j),
           ChildMoved(t, k) \/ children[t][k] = "none",
           processes' \in {processes, [processes EXCEPT ![w][t] = k]},
           \* the point it goes to fits its child
           p = "new" => children'[t][k] = "none",
           p = "prepare" => children'[t][k] = "none",
           p = "collect" => ~Running(t, k)',
           p = "report" => /\ ~Running(t, k)' /\ l.verdict # "none"
                           /\ l.verdict = "succeeded" => children'[t][k] = "exited",
           MaxConcurrency[w] = 1 =>
               /\ p \in {"spawned", "kill", "wait"} => processes'[w][t] = k
               /\ p = "kill" => children'[t][k] # "running"
               /\ p = "wait" /\ t \in proc[w].cancelled => children'[t][k] # "running"
    PROVE  LocalInv' /\ [Next]_vars
<1>1. /\ jobs' \in [Tasks -> [1..MaxClaims -> Job]] /\ jobs'[t][k].pc = p
      /\ locals' \in [Tasks -> [1..MaxClaims -> Locals]] /\ locals'[t][k] = l
      /\ UNCHANGED <<proc, crashes>>
      /\ \A u \in Tasks, j \in 1..MaxClaims : <<u, j>> # <<t, k>> =>
            jobs'[u][j] = jobs[u][j] /\ locals'[u][j] = locals[u][j]
  BY Went DEF LocalInv, LoopInv
<1>2. [Next]_vars /\ UnattachedStep
  BY DEF Next, ClaimCall, UnattachedStep
<1>3. LoopInv'
  <2>1. LoopType'
    BY <1>1 DEF LocalInv, LoopInv, LoopType
  <2>2. JobsGoOn
    BY <1>1 DEF JobsGoOn, SameEntries, Alive
  <2> QED
    BY <1>2, <2>1, <2>2, GoingOn DEF LocalInv
<1>4. ChildType'
  <2>1. k \in 0..MaxClaims /\ processes \in [Workers -> [Tasks -> 0..MaxClaims]]
    BY WorkerAssumption DEF LocalInv, ChildType
  <2>2. [processes EXCEPT ![w][t] = k] \in [Workers -> [Tasks -> 0..MaxClaims]]
    BY <2>1
  <2>3. processes' = processes \/ processes' = [processes EXCEPT ![w][t] = k]
    OBVIOUS
  <2>4. processes' \in [Workers -> [Tasks -> 0..MaxClaims]]
    BY <2>1, <2>2, <2>3
  <2> QED
    BY <1>1, <2>4 DEF LocalInv, ChildType
<1>5. Apart(w, t, k)
  BY <1>1 DEF Apart, LocalInv, ChildType
<1>6. k \in DOMAIN tasks'[t].claim.issued /\ Holds(w, t, k)'
  <2>1. k \in DOMAIN tasks[t].claim.issued
    BY DEF Holds
  <2> QED
    BY <1>2, <2>1, HoldersStay DEF LocalInv, LoopInv
<1>7. ChildOfJob(t, k)'
  BY <1>1, <1>6 DEF ChildOfJob
<1>8. \A u \in Tasks : TrueSuccess(u)'
  <2>1. \A u \in Tasks : tasks'[u].status = "succeeded" => tasks[u].status = "succeeded"
    BY <1>2, UnreportedSucceeds DEF LocalInv, LoopInv, StoreInv
  <2> QED
    BY <1>2, <2>1, QuietSuccess
<1>9. MaxConcurrency[w] = 1 => Alone(w, t, k)'
  BY <1>1, <1>6 DEF Alone, Alive
<1> QED
  BY <1>1, <1>2, <1>3, <1>4, <1>5, <1>7, <1>8, <1>9, ApartInv DEF Alive

\* A job ends, and its child has ended before it.
LEMMA EndInv ==
    ASSUME LocalInv, NEW w \in Workers, NEW t \in Tasks, NEW k \in 1..MaxClaims,
           Holds(w, t, k), Alive(jobs[t][k]), [Next]_vars, End(w, t, k),
           children' = children, ~Running(t, k), \A u \in Tasks : TrueSuccess(u)'
    PROVE  LocalInv'
<1>1. LoopInv'
  BY EndedInv DEF LocalInv, End, Alive
<1>2. /\ proc \in [Workers -> Process] /\ jobs \in [Tasks -> [1..MaxClaims -> Job]]
      /\ locals \in [Tasks -> [1..MaxClaims -> Locals]] /\ NoLocals \in Locals
      /\ processes \in [Workers -> [Tasks -> 0..MaxClaims]] /\ 0 \in 0..MaxClaims
      /\ crashes \in Nat
  BY WorkerAssumption DEF LocalInv, LoopInv, LoopType, ChildType, NoLocals, Locals
<1>3. /\ proc' = [proc EXCEPT ![w].active = @ \ {t}, ![w].tokens[t] = 0,
                              ![w].cancelled = @ \ {t}]
      /\ jobs' = [jobs EXCEPT ![t][k] = NoJob]
      /\ processes' = [processes EXCEPT ![w][t] = 0]
      /\ locals' = [locals EXCEPT ![t][k] = NoLocals]
      /\ crashes' = crashes
  BY DEF End, Ended
<1>4. \A v \in Workers : proc'[v].cancelled \subseteq proc[v].cancelled
  BY <1>2, <1>3, EntriesDropped
<1>5. /\ jobs'[t][k].pc = "none"
      /\ \A u \in Tasks, j \in 1..MaxClaims : <<u, j>> # <<t, k>> =>
            jobs'[u][j] = jobs[u][j] /\ locals'[u][j] = locals[u][j]
  BY <1>2, <1>3, JobFacts
<1>6. ChildType'
  BY <1>2, <1>3 DEF LocalInv, ChildType
<1>7. Apart(w, t, k)
  BY <1>2, <1>3, <1>4, <1>5 DEF Apart, ChildMoved
<1>8. ChildOfJob(t, k)'
  BY <1>5, QuietChild DEF ChildMoved
<1>9. Alone(w, t, k)'
  BY <1>5 DEF Alone, Running
<1> QED
  BY <1>1, <1>5, <1>6, <1>7, <1>8, <1>9, ApartInv DEF Alive

-----------------------------------------------------------------------------
(* One step of run_task after the other *)

\* Values that local variables take.
LEMMA LocalValues ==
    /\ NoLocals \in Locals /\ NoLocals.verdict = "none"
    /\ \A v \in {"succeeded", "failed", "unserved", "cancelled", "timed_out"} :
          /\ [NoLocals EXCEPT !.verdict = v] \in Locals
          /\ [NoLocals EXCEPT !.verdict = v].verdict = v
    /\ \A n \in 0..MaxClaims :
          /\ [NoLocals EXCEPT !.target = n] \in Locals
          /\ [verdict |-> "timed_out", target |-> n] \in Locals
BY WorkerAssumption DEF NoLocals, Locals

\* The steps up to the start of the child.
LEMMA BeforeChildInv ==
    ASSUME LocalInv, NEW w \in Workers, NEW t \in Tasks, NEW k \in 1..MaxClaims,
           CancelledBeforeStart(w, t, k) \/ RefuseTask(w, t, k) \/ Spawn(w, t, k)
    PROVE  LocalInv' /\ [Next]_vars
<1>1. /\ Holds(w, t, k) /\ jobs[t][k].pc \in {"new", "prepare"} /\ UNCHANGED vars
      /\ children[t][k] = "none"
  BY DEF CancelledBeforeStart, RefuseTask, Spawn, At, LocalInv, ChildOfJob
<1>2. Alive(jobs[t][k]) /\ k # 0
  BY <1>1 DEF Alive
<1>3. ASSUME NEW l \in Locals, l.verdict \in {"cancelled", "unserved"}, Go(t, k, "report", l),
             UNCHANGED <<children, processes>>
      PROVE  LocalInv' /\ [Next]_vars
  BY <1>1, <1>2, <1>3, AdvanceInv DEF Points, ChildMoved, Running, LocalInv, ChildType
<1>4. CASE Spawn(w, t, k)
  <2>1. /\ children' = [children EXCEPT ![t][k] = "running"]
        /\ processes' = [processes EXCEPT ![w][t] = k] /\ Go(t, k, "spawned", NoLocals)
    BY <1>4 DEF Spawn
  <2>2. /\ children' \in [Tasks -> [1..MaxClaims -> ChildStates]]
        /\ \A u \in Tasks, j \in 1..MaxClaims : <<u, j>> # <<t, k>> => ChildMoved(u, j)
    BY <2>1 DEF LocalInv, ChildType, ChildStates, ChildMoved
  <2>3. processes'[w][t] = k
    BY <2>1 DEF LocalInv, ChildType
  <2> QED
    <3>1. /\ "spawned" \in Points \ {"none", "offered"} /\ NoLocals \in Locals
          /\ processes' \in {processes, [processes EXCEPT ![w][t] = k]}
      BY <2>1, LocalValues DEF Points
    <3> QED
      BY <1>1, <1>2, <2>1, <2>2, <2>3, <3>1, AdvanceInv
<1> QED
  BY <1>3, <1>4, LocalValues DEF CancelledBeforeStart, RefuseTask, ToReport

\* set_running, and what the job makes of the answer.
LEMMA SetRunningInv ==
    ASSUME LocalInv, NEW w \in Workers, NEW t \in Tasks, NEW k \in 1..MaxClaims,
           SetRunning(w, t, k)
    PROVE  LocalInv' /\ [Next]_vars
<1>1. /\ Holds(w, t, k) /\ jobs[t][k].pc = "new" /\ children' = children
      /\ children[t][k] = "none" /\ ~Running(t, k)
  BY DEF SetRunning, At, LocalInv, ChildOfJob, Running
<1>2. Alive(jobs[t][k])
  BY <1>1 DEF Alive
<1>3. UNCHANGED vars \/ UpdateTaskStatus(t, w, k)
  BY DEF SetRunning, Calls
<1>4. [Next]_vars /\ UnattachedStep
  BY <1>1, <1>3 DEF Next, ClaimCall, UnattachedStep
<1>5. \A u \in Tasks : TrueSuccess(u)'
  <2>1. \A u \in Tasks : tasks'[u].status = "succeeded" => tasks[u].status = "succeeded"
    BY <1>4, UnreportedSucceeds DEF LocalInv, LoopInv, StoreInv
  <2> QED
    BY <1>1, <1>4, <2>1, QuietSuccess DEF ChildMoved
<1>6. CASE End(w, t, k)
  BY <1>1, <1>2, <1>4, <1>5, <1>6, EndInv
<1>7. ASSUME NEW l \in Locals, NEW p \in {"prepare", "report"}, Go(t, k, p, l),
             processes' = processes, p = "report" => l.verdict = "cancelled"
      PROVE  LocalInv' /\ [Next]_vars
  BY <1>1, <1>2, <1>3, <1>7, AdvanceInv DEF Points, ChildMoved, Running, LocalInv, ChildType
<1>8. \/ End(w, t, k)
      \/ Go(t, k, "prepare", NoLocals) /\ processes' = processes
      \/ /\ Go(t, k, "report", [NoLocals EXCEPT !.verdict = "cancelled"])
         /\ processes' = processes
  BY DEF SetRunning, ToReport, Answers
<1> QED
  BY <1>6, <1>7, <1>8, LocalValues

\* The steps that wait for a child, and the last look at it.
LEMMA WaitingInv ==
    ASSUME LocalInv, NEW w \in Workers, NEW t \in Tasks, NEW k \in 1..MaxClaims,
           \/ Killed(w, t, k) \/ ChildHasEnded(w, t, k)
           \/ OvertimeOver(w, t, k) \/ Collect(w, t, k)
    PROVE  LocalInv' /\ [Next]_vars
<1>1. /\ Holds(w, t, k) /\ Alive(jobs[t][k]) /\ UNCHANGED <<vars, children, processes>>
      /\ k # 0
  BY DEF Killed, ChildHasEnded, OvertimeOver, Collect, At, Alive
<1>2. /\ children' \in [Tasks -> [1..MaxClaims -> ChildStates]]
      /\ \A u \in Tasks, j \in 1..MaxClaims : ChildMoved(u, j)
      /\ ChildOfJob(t, k)
      /\ MaxConcurrency[w] = 1 => Alone(w, t, k)
  BY <1>1 DEF LocalInv, ChildType, ChildMoved
<1>3. Running(t, k)' <=> Running(t, k)
  BY <1>1 DEF Running
<1>4. CASE Killed(w, t, k)
  <2>1. /\ jobs[t][k].pc = "kill" /\ Go(t, k, "wait", NoLocals)
        /\ "wait" \in Points \ {"none", "offered"} /\ NoLocals \in Locals
    BY <1>4, LocalValues DEF Killed, At, Points
  <2>2. MaxConcurrency[w] = 1 => processes'[w][t] = k /\ children'[t][k] # "running"
    BY <1>1, <1>2, <2>1 DEF Alone
  <2> QED
    BY <1>1, <1>2, <2>1, <2>2, AdvanceInv
<1>5. CASE ChildHasEnded(w, t, k)
  <2>1. /\ Go(t, k, "collect", NoLocals) /\ ~Running(t, k)
        /\ "collect" \in Points \ {"none", "offered"} /\ NoLocals \in Locals
    BY <1>5, LocalValues DEF ChildHasEnded, Points
  <2> QED
    BY <1>1, <1>2, <1>3, <2>1, AdvanceInv
<1>6. ASSUME NEW l \in Locals, l.verdict # "none", Go(t, k, "report", l), ~Running(t, k),
             l.verdict = "succeeded" => children[t][k] = "exited"
      PROVE  LocalInv' /\ [Next]_vars
  <2>1. "report" \in Points \ {"none", "offered"}
    BY DEF Points
  <2> QED
    BY <1>1, <1>2, <1>3, <1>6, <2>1, AdvanceInv
<1>7. CASE OvertimeOver(w, t, k)
  BY <1>6, <1>7, LocalValues DEF OvertimeOver, ToReport
<1>8. CASE Collect(w, t, k)
  <2>1. PICK v \in {"succeeded", "failed", "cancelled"} :
            /\ ToReport(t, k, v)
            /\ v = "succeeded" => children[t][k] = "exited"
    BY <1>8 DEF Collect
  <2>2. ~Running(t, k)
    BY <1>2, <1>8 DEF Collect, At, ChildOfJob
  <2> QED
    BY <1>6, <2>1, <2>2, LocalValues DEF ToReport
<1> QED
  BY <1>4, <1>5, <1>7, <1>8

\* The steps that may end the child: a cancellation made up for, the timeout.
LEMMA TerminatingInv ==
    ASSUME LocalInv, NEW w \in Workers, NEW t \in Tasks, NEW k \in 1..MaxClaims,
           CheckCancelled(w, t, k) \/ TimeOut(w, t, k)
    PROVE  LocalInv' /\ [Next]_vars
<1>1. /\ Holds(w, t, k) /\ Alive(jobs[t][k]) /\ UNCHANGED <<vars, processes>> /\ k # 0
  BY DEF CheckCancelled, TimeOut, At, Alive
<1>2. MaxConcurrency[w] = 1 => Alone(w, t, k)
  BY DEF LocalInv
<1>3. CASE TimeOut(w, t, k)
  <2>1. /\ Terminate(w, t)
        /\ Go(t, k, "overtime", [verdict |-> "timed_out", target |-> Target(w, t)])
    BY <1>3 DEF TimeOut
  <2>2. /\ children' \in [Tasks -> [1..MaxClaims -> ChildStates]]
        /\ \A u \in Tasks, j \in 1..MaxClaims : ChildMoved(u, j)
        /\ Target(w, t) \in 0..MaxClaims
    BY <2>1, Terminated
  <2>3. /\ "overtime" \in Points \ {"none", "offered"}
        /\ [verdict |-> "timed_out", target |-> Target(w, t)] \in Locals
    BY <2>2, LocalValues DEF Points
  <2> QED
    BY <1>1, <2>1, <2>2, <2>3, AdvanceInv
<1>4. CASE CheckCancelled(w, t, k) /\ t \in proc[w].cancelled
  <2>1. /\ Terminate(w, t) /\ Go(t, k, "kill", [NoLocals EXCEPT !.target = Target(w, t)])
        /\ jobs[t][k].pc = "spawned"
    BY <1>4 DEF CheckCancelled, At
  <2>2. /\ children' \in [Tasks -> [1..MaxClaims -> ChildStates]]
        /\ \A u \in Tasks, j \in 1..MaxClaims : ChildMoved(u, j)
        /\ Target(w, t) \in 0..MaxClaims
        /\ processes[w][t] # 0 => children'[t][processes[w][t]] # "running"
    BY <2>1, Terminated
  <2>3. /\ "kill" \in Points \ {"none", "offered"}
        /\ [NoLocals EXCEPT !.target = Target(w, t)] \in Locals
    BY <2>2, LocalValues DEF Points
  <2>4. MaxConcurrency[w] = 1 => processes'[w][t] = k /\ children'[t][k] # "running"
    BY <1>1, <1>2, <2>1, <2>2 DEF Alone
  <2> QED
    BY <1>1, <2>1, <2>2, <2>3, <2>4, AdvanceInv
<1>5. CASE CheckCancelled(w, t, k) /\ t \notin proc[w].cancelled
  <2>1. /\ children' = children /\ Go(t, k, "wait", NoLocals) /\ jobs[t][k].pc = "spawned"
        /\ "wait" \in Points \ {"none", "offered"} /\ NoLocals \in Locals
    BY <1>5, LocalValues DEF CheckCancelled, At, Points
  <2>2. /\ children' \in [Tasks -> [1..MaxClaims -> ChildStates]]
        /\ \A u \in Tasks, j \in 1..MaxClaims : ChildMoved(u, j)
    BY <2>1 DEF LocalInv, ChildType, ChildMoved
  <2>3. MaxConcurrency[w] = 1 => processes'[w][t] = k
    BY <1>1, <1>2, <2>1 DEF Alone
  <2> QED
    BY <1>1, <1>5, <2>1, <2>2, <2>3, AdvanceInv
<1> QED
  BY <1>3, <1>4, <1>5

\* The report, after which the job is over whatever the answer.
LEMMA ReportInv ==
    ASSUME LocalInv, NEW w \in Workers, NEW t \in Tasks, NEW k \in 1..MaxClaims,
           Report(w, t, k)
    PROVE  LocalInv' /\ [Next]_vars
<1> DEFINE verdict == locals[t][k].verdict
           outcome == IF verdict = "unserved" THEN "failed" ELSE verdict
<1>1. /\ Holds(w, t, k) /\ Alive(jobs[t][k]) /\ End(w, t, k) /\ children' = children
      /\ ~Running(t, k) /\ verdict # "none"
      /\ verdict = "succeeded" => children[t][k] = "exited"
  BY DEF Report, At, Alive, LocalInv, ChildOfJob
<1>2. outcome \in Terminal
  <2>1. locals[t][k] \in Locals
    BY DEF LocalInv, ChildType
  <2>2. verdict \in {"succeeded", "failed", "unserved", "cancelled", "timed_out"}
    BY <1>1, <2>1 DEF Locals
  <2> HIDE DEF verdict
  <2> QED
    BY <2>2
<1>3. UNCHANGED vars \/ ReportResult(t, w, k, NoRun, outcome, verdict = "failed")
  BY DEF Report, Calls
<1>4. PICK o \in Terminal, retryable \in BOOLEAN :
          /\ o = outcome
          /\ UNCHANGED vars \/ ReportResult(t, w, k, NoRun, o, retryable)
  BY <1>2, <1>3
<1>5. o = "succeeded" => children[t][k] = "exited"
  BY <1>1, <1>4
<1> HIDE DEF outcome
<1>6. [Next]_vars
  BY <1>1, <1>4 DEF Next, ClaimCall
<1>7. ASSUME NEW u \in Tasks PROVE TrueSuccess(u)'
  <2>1. CASE tasks'[u].status = "succeeded" => tasks[u].status = "succeeded"
    BY <1>1, <1>6, <2>1, QuietSuccess DEF ChildMoved
  <2>2. CASE tasks'[u].status = "succeeded" /\ tasks[u].status # "succeeded"
    <3>1. ReportResult(t, w, k, NoRun, o, retryable)
      BY <1>4, <2>2 DEF vars
    <3>2. u = t /\ o = "succeeded" /\ k = Len(tasks'[t].claim.issued)
      <4>1. IInv /\ k \in Nat /\ NoRun \in Runs \cup {NoRun}
        BY WorkerAssumption DEF LocalInv, LoopInv, StoreInv
      <4>2. \/ tasks[u].status = "succeeded"
            \/ /\ u = t /\ o = "succeeded"
               /\ k = Len(tasks'[t].claim.issued) /\ NoRun = tasks'[t].remote.run
        BY <2>2, <3>1, <4>1, ReportSucceeds
      <4> QED
        BY <2>2, <4>2
    <3> QED
      BY <1>1, <1>5, <3>2 DEF TrueSuccess
  <2> QED
    BY <2>1, <2>2
<1> QED
  BY <1>1, <1>6, <1>7, EndInv

-----------------------------------------------------------------------------
(* Where the marks of cancellations come from.  LocalInv says nothing of it: *)
(* CancelInv is a second invariant, on top of the first.                     *)

\* A row is cancelled, or being cancelled, with its mark; a task that does not
\* exist yet has none.
MarkFits(r) ==
    /\ r.status \in {"cancelled", "cancel_requested"} => r.cancel
    /\ r.status = "absent" => ~r.cancel

\* A job that has not started its task, and one that gives it back unstarted.
BeforeStart(t, k) ==
    \/ jobs[t][k].pc \in {"offered", "new"}
    \/ jobs[t][k].pc = "report" /\ locals[t][k].verdict = "cancelled"

\* Nobody else starts the task in the name of such a job: when it reports that
\* the task is cancelled, nobody having asked for it, the report is refused.
ClaimIsUnstarted(t, k) ==
    BeforeStart(t, k) /\ tasks[t].claim.token = k /\ ~tasks[t].cancel =>
        tasks[t].status = "claimed"

MarkHeard(w, t) == t \in proc[w].cancelled \cup proc[w].heard => tasks[t].cancel

CancelInv ==
    /\ \A t \in Tasks : MarkFits(tasks[t])
    /\ \A w \in Workers, t \in Tasks : MarkHeard(w, t)
    /\ \A t \in Tasks, k \in 1..MaxClaims : ClaimIsUnstarted(t, k)

\* What a step that reports nothing makes of the mark of a row, and of its claim.
LEMMA UnattachedMark ==
    ASSUME NEW r, RowInv(r), MarkFits(r), NEW s, RowInv(s),
           Unattached(r, MaintainedRow(r), s)
    PROVE  /\ MarkFits(s) /\ (r.cancel => s.cancel)
           /\ \A k \in Nat \ {0} : s.claim.token = k =>
                 \/ k \notin DOMAIN r.claim.issued /\ s.status = "claimed"
                 \/ s.cancel
                 \/ r.claim.token = k /\ s.status \in {r.status, "running"}
<1> DEFINE m == MaintainedRow(r)
           Good(q) ==
              /\ MarkFits(q) /\ (r.cancel => q.cancel)
              /\ \A k \in Nat \ {0} : q.claim.token = k =>
                    \/ k \notin DOMAIN r.claim.issued /\ q.status = "claimed"
                    \/ q.cancel
                    \/ r.claim.token = k /\ q.status \in {r.status, "running"}
<1>1. m = r \/ (r.status \in Active /\ Swept(r, m)) \/ Kept(r, m)
  BY MaintainedParts
<1>2. RowInv(m) /\ m \in Row /\ r \in Row /\ r.cancel \in BOOLEAN /\ s.cancel \in BOOLEAN
  BY MaintainedInv DEF RowInv, Row
<1>3. Unattached(r, m, s)
  OBVIOUS
<1>4. r.status \notin Active => r.claim.token = 0
  BY DEF RowInv, HasLiveClaim
<1> HIDE DEF m
<1>5. MarkFits(m) /\ m.cancel = r.cancel /\ (m = r \/ m.claim.token = 0)
      /\ m.claim.issued = r.claim.issued
  BY <1>1, <1>4 DEF Swept, Kept, MarkFits
<1>6. Good(r) /\ Good(m)
  BY <1>5
<1>7. s = Aged(r) => Good(s)
  BY <1>2, <1>5, AgedParts DEF SameClaim, MarkFits
<1>8. CASE WasStated(r, s)
  <2>1. \A q, rank : LET c == Created(q, rank) IN
            c.cancel = FALSE /\ c.claim.token = 0 /\ c.status \in {"pending", "planning_pending"}
    BY DEF Created, Absent
  <2>2. CASE r.status = "absent" /\ \E q \in Requests, rank \in Int : s = Created(q, rank)
    <3>1. s.cancel = FALSE /\ s.claim.token = 0 /\ s.status \in {"pending", "planning_pending"}
      BY <2>1, <2>2
    <3> QED
      BY <2>2, <3>1 DEF MarkFits
  <2>3. CASE /\ SameClaim(r, s) /\ s.cancel \in {r.cancel, TRUE}
             /\ \/ s.status = r.status /\ (r.status = "absent" => s.cancel = r.cancel)
                \/ s.status \in {"cancelled", "cancel_requested"} /\ s.cancel = TRUE
    BY <1>2, <2>3 DEF SameClaim, MarkFits
  <2>4. \/ r.status = "absent" /\ \E q \in Requests, rank \in Int : s = Created(q, rank)
        \/ /\ SameClaim(r, s) /\ s.cancel \in {r.cancel, TRUE}
           /\ \/ s.status = r.status /\ (r.status = "absent" => s.cancel = r.cancel)
              \/ s.status \in {"cancelled", "cancel_requested"} /\ s.cancel = TRUE
    BY <1>8, Zenon DEF WasStated
  <2> QED
    BY <2>2, <2>3, <2>4
<1>9. WentOn(m, s) => Good(s)
  BY <1>5 DEF WentOn, SameClaim, MarkFits
<1>10. WasParked(m, s) => Good(s)
  BY <1>5 DEF WasParked, MarkFits
<1>11. ASSUME NEW w \in Workers, WasGranted(m, s, w)
       PROVE  Good(s)
  <2>1. s.claim.token = Len(s.claim.issued) /\ s.claim.issued = Append(r.claim.issued, w)
        /\ r.claim.issued \in Seq(Workers) /\ s.status = "claimed" /\ s.cancel = r.cancel
    BY <1>2, <1>5, <1>11 DEF WasGranted, RowInv, HasLiveClaim, Row, Claim
  <2>2. Len(s.claim.issued) \notin DOMAIN r.claim.issued
    BY <2>1
  <2> QED
    BY <2>1, <2>2 DEF MarkFits
<1> QED
  BY <1>3, <1>6, <1>7, <1>8, <1>9, <1>10, <1>11, Zenon DEF Unattached

\* What the claim of a job that has not started its task stays.
LEMMA StaysUnstarted ==
    ASSUME LocalInv, CancelInv, NEW t \in Tasks, NEW k \in 1..MaxClaims,
           RowInv(tasks'[t]), Unattached(tasks[t], MaintainedRow(tasks[t]), tasks'[t]),
           BeforeStart(t, k)' =>
              \/ k \notin DOMAIN tasks[t].claim.issued
              \/ tasks[t].cancel
              \/ /\ BeforeStart(t, k)
                 /\ tasks'[t].claim.token = k /\ tasks'[t].status = "running" =>
                        tasks[t].status = "running"
    PROVE  ClaimIsUnstarted(t, k)'
<1> SUFFICES ASSUME BeforeStart(t, k)', tasks'[t].claim.token = k, ~tasks'[t].cancel
             PROVE  tasks'[t].status = "claimed"
  BY DEF ClaimIsUnstarted
<1>1. RowInv(tasks[t]) /\ MarkFits(tasks[t]) /\ ClaimIsUnstarted(t, k)
  BY DEF LocalInv, LoopInv, StoreInv, IInv, CancelInv
<1>2. k \in Nat \ {0}
  BY WorkerAssumption
<1>3. tasks[t].cancel => tasks'[t].cancel
  BY <1>1, UnattachedMark
<1>4. \/ k \notin DOMAIN tasks[t].claim.issued /\ tasks'[t].status = "claimed"
      \/ tasks'[t].cancel
      \/ tasks[t].claim.token = k /\ tasks'[t].status \in {tasks[t].status, "running"}
  BY <1>1, <1>2, UnattachedMark
<1>5. CASE tasks[t].claim.token = k /\ tasks'[t].status \in {tasks[t].status, "running"}
  <2>1. k \in DOMAIN tasks[t].claim.issued
    BY <1>1, <1>2, <1>5 DEF RowInv, HasLiveClaim, Row, Claim
  <2>2. BeforeStart(t, k) /\ (tasks'[t].status = "running" => tasks[t].status = "running")
    BY <1>3, <2>1
  <2>3. tasks[t].status = "claimed"
    BY <1>1, <1>3, <1>5, <2>2 DEF ClaimIsUnstarted
  <2> QED
    BY <1>5, <2>2, <2>3
<1> QED
  BY <1>4, <1>5

\* A step is sound that reports nothing, adds no mark but one that was asked for,
\* and starts no task in the name of a job that has not.
LEMMA MarksKept ==
    ASSUME LocalInv, CancelInv, [Next]_vars, UnattachedStep,
           \A w \in Workers, t \in Tasks : t \in proc'[w].cancelled \cup proc'[w].heard =>
              t \in proc[w].cancelled \cup proc[w].heard \/ tasks'[t].status = "cancel_requested",
           \A t \in Tasks, k \in 1..MaxClaims : BeforeStart(t, k)' =>
              \/ k \notin DOMAIN tasks[t].claim.issued
              \/ tasks[t].cancel
              \/ /\ BeforeStart(t, k)
                 /\ tasks'[t].claim.token = k /\ tasks'[t].status = "running" =>
                        tasks[t].status = "running"
    PROVE  CancelInv'
<1>1. IInv /\ IInv'
  BY StepIInv DEF LocalInv, LoopInv, StoreInv
<1>2. \A t \in Tasks : /\ RowInv(tasks[t]) /\ MarkFits(tasks[t]) /\ RowInv(tasks'[t])
                       /\ Unattached(tasks[t], MaintainedRow(tasks[t]), tasks'[t])
  BY <1>1, UnattachedRow DEF IInv, CancelInv
<1>3. \A t \in Tasks : MarkFits(tasks'[t]) /\ (tasks[t].cancel => tasks'[t].cancel)
  BY <1>2, UnattachedMark
<1>4. ASSUME NEW w \in Workers, NEW t \in Tasks
      PROVE  MarkHeard(w, t)'
  <2> SUFFICES ASSUME t \in proc'[w].cancelled \cup proc'[w].heard PROVE tasks'[t].cancel
    BY DEF MarkHeard
  <2>1. CASE t \in proc[w].cancelled \cup proc[w].heard
    BY <1>3, <2>1 DEF CancelInv, MarkHeard
  <2>2. CASE tasks'[t].status = "cancel_requested"
    BY <1>3, <2>2 DEF MarkFits
  <2> QED
    BY <2>1, <2>2
<1>5. \A t \in Tasks, k \in 1..MaxClaims : ClaimIsUnstarted(t, k)'
  BY <1>2, StaysUnstarted
<1> QED
  BY <1>3, <1>4, <1>5 DEF CancelInv

\* The steps of the loop and of everybody else.
LEMMA AroundMarks ==
    ASSUME LocalInv, CancelInv,
           \/ \E w \in Workers : \/ (LoopStep(w) \/ SendHeartbeat(w)) /\ UNCHANGED childVars
                                 \/ BreakLoop(w) /\ StopHeartbeats(w)
           \/ (OthersNext \/ Passing) /\ UNCHANGED childVars
    PROVE  CancelInv'
<1>1. /\ [Next]_vars /\ UnattachedStep
      /\ \A t \in Tasks, k \in 1..MaxClaims : LoopMoved(t, k)
      /\ \A v \in Workers : proc'[v].cancelled \subseteq proc[v].cancelled
      /\ \A v \in Workers, t \in Tasks : t \in proc'[v].heard =>
            t \in proc[v].heard \/ tasks'[t].status = "cancel_requested"
      /\ \A t \in Tasks : tasks'[t].status = "running" => tasks[t].status = "running"
  BY LoopEffects DEF LocalInv
<1>2. locals' = locals
  BY DEF StopHeartbeats, childVars
<1>3. ASSUME NEW t \in Tasks, NEW k \in 1..MaxClaims, BeforeStart(t, k)'
      PROVE  k \notin DOMAIN tasks[t].claim.issued \/ BeforeStart(t, k)
  BY <1>1, <1>2, <1>3 DEF BeforeStart, LoopMoved, SameJob, Opened, Received, Lost
<1> QED
  BY <1>1, <1>3, MarksKept

\* What a step of job k of task t leaves of the other jobs, and of the marks.
Beside(t, k) ==
    /\ \A u \in Tasks, j \in 1..MaxClaims : <<u, j>> # <<t, k>> =>
          jobs'[u][j] = jobs[u][j] /\ locals'[u][j] = locals[u][j]
    /\ \A v \in Workers : proc'[v].cancelled \subseteq proc[v].cancelled
                        /\ proc'[v].heard = proc[v].heard

\* A job that goes on adds no mark.
LEMMA GoMarks ==
    ASSUME LocalInv, NEW t \in Tasks, NEW k \in 1..MaxClaims, NEW p \in Points,
           NEW l \in Locals, Go(t, k, p, l)
    PROVE  Beside(t, k) /\ jobs'[t][k].pc = p /\ locals'[t][k] = l
BY Went DEF LocalInv, LoopInv, Beside

\* A job that ends adds none either.
LEMMA EndMarks ==
    ASSUME LocalInv, NEW w \in Workers, NEW t \in Tasks, NEW k \in 1..MaxClaims, End(w, t, k)
    PROVE  Beside(t, k) /\ jobs'[t][k].pc = "none"
<1>1. /\ proc \in [Workers -> Process] /\ jobs \in [Tasks -> [1..MaxClaims -> Job]]
      /\ locals \in [Tasks -> [1..MaxClaims -> Locals]]
  BY DEF LocalInv, LoopInv, LoopType, ChildType
<1>2. /\ proc' = [proc EXCEPT ![w].active = @ \ {t}, ![w].tokens[t] = 0,
                              ![w].cancelled = @ \ {t}]
      /\ jobs' = [jobs EXCEPT ![t][k] = NoJob]
      /\ locals' = [locals EXCEPT ![t][k] = NoLocals]
  BY DEF End, Ended
<1>3. \A v \in Workers : proc'[v].cancelled \subseteq proc[v].cancelled
                        /\ proc'[v].heard = proc[v].heard
  BY <1>1, <1>2, EntriesDropped
<1>4. /\ jobs'[t][k].pc = "none"
      /\ \A u \in Tasks, j \in 1..MaxClaims : <<u, j>> # <<t, k>> =>
            jobs'[u][j] = jobs[u][j] /\ locals'[u][j] = locals[u][j]
  BY <1>1, <1>2, JobFacts
<1> QED
  BY <1>3, <1>4 DEF Beside

\* A step of a job that calls nobody: the job has not started its task after it
\* only if it had not before, or a cancellation was asked for.
LEMMA SilentMarks ==
    ASSUME LocalInv, CancelInv, UNCHANGED vars, NEW t \in Tasks, NEW k \in 1..MaxClaims,
           Beside(t, k), BeforeStart(t, k)' => tasks[t].cancel \/ BeforeStart(t, k)
    PROVE  CancelInv'
<1>1. [Next]_vars /\ UnattachedStep /\ tasks' = tasks
  BY DEF UnattachedStep, vars
<1>2. \A u \in Tasks, j \in 1..MaxClaims :
          BeforeStart(u, j)' => tasks[u].cancel \/ BeforeStart(u, j)
  BY DEF Beside, BeforeStart
<1>3. \A v \in Workers, u \in Tasks : u \in proc'[v].cancelled \cup proc'[v].heard =>
          u \in proc[v].cancelled \cup proc[v].heard
  BY DEF Beside
<1> QED
  BY <1>1, <1>2, <1>3, MarksKept

\* The steps of a job that call nobody.
LEMMA SilentJobMarks ==
    ASSUME LocalInv, CancelInv, NEW w \in Workers, NEW t \in Tasks, NEW k \in 1..MaxClaims,
           \/ CancelledBeforeStart(w, t, k) \/ RefuseTask(w, t, k) \/ Spawn(w, t, k)
           \/ Killed(w, t, k) \/ ChildHasEnded(w, t, k) \/ OvertimeOver(w, t, k)
           \/ Collect(w, t, k) \/ CheckCancelled(w, t, k) \/ TimeOut(w, t, k)
    PROVE  CancelInv'
<1>1. UNCHANGED vars
  BY DEF CancelledBeforeStart, RefuseTask, Spawn, Killed, ChildHasEnded, OvertimeOver,
         Collect, CheckCancelled, TimeOut
<1>2. ASSUME NEW p \in Points, NEW l \in Locals, Go(t, k, p, l),
             p \in {"offered", "new"} => BeforeStart(t, k),
             p = "report" /\ l.verdict = "cancelled" => tasks[t].cancel \/ BeforeStart(t, k)
      PROVE  CancelInv'
  <2>1. Beside(t, k) /\ jobs'[t][k].pc = p /\ locals'[t][k] = l
    BY <1>2, GoMarks
  <2>2. BeforeStart(t, k)' => tasks[t].cancel \/ BeforeStart(t, k)
    BY <1>2, <2>1 DEF BeforeStart
  <2> QED
    BY <1>1, <2>1, <2>2, SilentMarks
<1>3. \A p \in {"report", "spawned", "wait", "collect", "kill", "overtime"} :
          p \in Points /\ p \notin {"offered", "new"}
  BY DEF Points
<1>4. Target(w, t) \in 0..MaxClaims
  BY WorkerAssumption DEF Target, LocalInv, ChildType
<1>5. CASE CancelledBeforeStart(w, t, k)
  <2>1. BeforeStart(t, k)
    BY <1>5 DEF CancelledBeforeStart, At, BeforeStart
  <2>2. Go(t, k, "report", [NoLocals EXCEPT !.verdict = "cancelled"])
    BY <1>5 DEF CancelledBeforeStart, ToReport
  <2> QED
    BY <1>2, <1>3, <2>1, <2>2, LocalValues
<1>6. CASE RefuseTask(w, t, k) \/ OvertimeOver(w, t, k)
  <2>1. PICK v \in {"unserved", "timed_out"} :
            Go(t, k, "report", [NoLocals EXCEPT !.verdict = v])
    BY <1>6 DEF RefuseTask, OvertimeOver, ToReport
  <2> QED
    BY <1>2, <1>3, <2>1, LocalValues
<1>7. CASE Collect(w, t, k)
  <2>1. PICK v \in {"succeeded", "failed", "cancelled"} :
            /\ Go(t, k, "report", [NoLocals EXCEPT !.verdict = v])
            /\ v = "cancelled" => t \in proc[w].cancelled
    BY <1>7 DEF Collect, ToReport
  <2>2. v = "cancelled" => tasks[t].cancel
    BY <2>1 DEF CancelInv, MarkHeard
  <2> QED
    BY <1>2, <1>3, <2>1, <2>2, LocalValues
<1>8. CASE \/ Spawn(w, t, k) \/ Killed(w, t, k) \/ ChildHasEnded(w, t, k)
           \/ CheckCancelled(w, t, k) \/ TimeOut(w, t, k)
  <2>1. \/ \E p \in {"spawned", "wait", "collect"} : Go(t, k, p, NoLocals)
        \/ Go(t, k, "kill", [NoLocals EXCEPT !.target = Target(w, t)])
        \/ Go(t, k, "overtime", [verdict |-> "timed_out", target |-> Target(w, t)])
    BY <1>8 DEF Spawn, Killed, ChildHasEnded, CheckCancelled, TimeOut
  <2>2. NoLocals \in Locals /\ [NoLocals EXCEPT !.target = Target(w, t)] \in Locals
        /\ [verdict |-> "timed_out", target |-> Target(w, t)] \in Locals
    BY <1>4, LocalValues
  <2> QED
    BY <1>2, <1>3, <2>1, <2>2
<1> QED
  BY <1>5, <1>6, <1>7, <1>8

\* set_running starts the task in the name of the job that made the call.
LEMMA SetRunningMarks ==
    ASSUME LocalInv, CancelInv, NEW w \in Workers, NEW t \in Tasks, NEW k \in 1..MaxClaims,
           SetRunning(w, t, k)
    PROVE  CancelInv'
<1>1. BeforeStart(t, k) /\ Holds(w, t, k)
  BY DEF SetRunning, At, BeforeStart
<1>2. \/ Beside(t, k) /\ jobs'[t][k].pc \in {"none", "prepare"}
         /\ (UNCHANGED vars \/ UpdateTaskStatus(t, w, k))
      \/ Beside(t, k) /\ UNCHANGED vars
  <2>1. \/ /\ End(w, t, k) \/ Go(t, k, "prepare", NoLocals)
           /\ UNCHANGED vars \/ UpdateTaskStatus(t, w, k)
        \/ /\ Go(t, k, "report", [NoLocals EXCEPT !.verdict = "cancelled"])
           /\ UNCHANGED vars
    BY DEF SetRunning, Calls, ToReport, Answers
  <2>2. "prepare" \in Points /\ "report" \in Points
    BY DEF Points
  <2>3. End(w, t, k) => Beside(t, k) /\ jobs'[t][k].pc = "none"
    BY EndMarks
  <2>4. Go(t, k, "prepare", NoLocals) => Beside(t, k) /\ jobs'[t][k].pc = "prepare"
    BY <2>2, GoMarks, LocalValues
  <2>5. Go(t, k, "report", [NoLocals EXCEPT !.verdict = "cancelled"]) => Beside(t, k)
    BY <2>2, GoMarks, LocalValues
  <2> QED
    BY <2>1, <2>3, <2>4, <2>5
<1>3. CASE UNCHANGED vars
  BY <1>1, <1>2, <1>3, SilentMarks
<1>4. CASE UpdateTaskStatus(t, w, k) /\ Beside(t, k) /\ jobs'[t][k].pc \in {"none", "prepare"}
  <2> DEFINE m == MaintainedRow(tasks[t])
  <2>1. [Next]_vars /\ UnattachedStep
    BY <1>1, <1>4 DEF Next, ClaimCall, UnattachedStep
  <2>2. /\ RowInv(m) /\ m \in Row /\ Maintained[t] = m
        /\ \A u \in Tasks : RowInv(tasks[u]) /\ Maintained[u] = MaintainedRow(tasks[u])
    BY MaintainedRows DEF LocalInv, LoopInv, StoreInv, IInv, RowInv
  <2>3. /\ tasks'[t] = Started(m) /\ m.status = "claimed" /\ m.claim.token = k
        /\ \A u \in Tasks \ {t} : tasks'[u] = MaintainedRow(tasks[u])
    BY <1>4, <2>2 DEF UpdateTaskStatus, MayStart, RequireClaim, Transaction, Maintained
  <2> HIDE DEF m
  <2>4. tasks'[t].claim.token = k
    BY <2>2, <2>3, StartedParts DEF WentOn, SameClaim
  <2>5. \A u \in Tasks \ {t} : tasks'[u].status = "running" => tasks[u].status = "running"
    BY <2>2, <2>3, MaintainedParts DEF Swept, Kept
  <2>6. ASSUME NEW u \in Tasks, NEW j \in 1..MaxClaims, BeforeStart(u, j)'
        PROVE  /\ BeforeStart(u, j)
               /\ tasks'[u].claim.token = j /\ tasks'[u].status = "running" =>
                      tasks[u].status = "running"
    <3>1. <<u, j>> # <<t, k>>
      BY <1>4, <2>6 DEF BeforeStart
    <3>2. BeforeStart(u, j)
      BY <1>4, <2>6, <3>1 DEF Beside, BeforeStart
    <3> QED
      BY <2>4, <2>5, <3>1, <3>2
  <2>7. \A v \in Workers, u \in Tasks : u \in proc'[v].cancelled \cup proc'[v].heard =>
            u \in proc[v].cancelled \cup proc[v].heard
    BY <1>4 DEF Beside
  <2> QED
    BY <2>1, <2>6, <2>7, MarksKept
<1> QED
  BY <1>2, <1>3, <1>4

\* A report that the task is cancelled is taken only from a job that was told so.
LEMMA ReportMarks ==
    ASSUME LocalInv, CancelInv, NEW w \in Workers, NEW t \in Tasks, NEW k \in 1..MaxClaims,
           Report(w, t, k)
    PROVE  CancelInv'
<1> DEFINE verdict == locals[t][k].verdict
           outcome == IF verdict = "unserved" THEN "failed" ELSE verdict
<1>1. /\ jobs[t][k].pc = "report" /\ Beside(t, k) /\ jobs'[t][k].pc = "none"
      /\ verdict # "none"
  BY EndMarks DEF Report, At, LocalInv, ChildOfJob
<1>2. outcome \in Terminal
  <2>1. locals[t][k] \in Locals
    BY DEF LocalInv, ChildType
  <2>2. verdict \in {"succeeded", "failed", "unserved", "cancelled", "timed_out"}
    BY <1>1, <2>1 DEF Locals
  <2> HIDE DEF verdict
  <2> QED
    BY <2>2
<1>3. UNCHANGED vars \/ ReportResult(t, w, k, NoRun, outcome, verdict = "failed")
  BY DEF Report, Calls
<1>4. PICK o \in Terminal, retryable \in BOOLEAN :
          /\ o = outcome
          /\ UNCHANGED vars \/ ReportResult(t, w, k, NoRun, o, retryable)
  BY <1>2, <1>3
<1>5. o = "cancelled" => BeforeStart(t, k)
  BY <1>1, <1>4 DEF BeforeStart
<1> HIDE DEF outcome, verdict
<1>6. CASE UNCHANGED vars
  BY <1>1, <1>6, SilentMarks DEF BeforeStart
<1>7. CASE ReportResult(t, w, k, NoRun, o, retryable)
  <2> DEFINE m == MaintainedRow(tasks[t])
             s == Reported(m, o, retryable)
             f == [Finished(m, o) EXCEPT !.remote.retry = NoTime]
  <2>1. IInv /\ \A u \in Tasks : /\ RowInv(tasks[u]) /\ RowInv(MaintainedRow(tasks[u]))
                                /\ Maintained[u] = MaintainedRow(tasks[u])
                                /\ MarkFits(tasks[u])
    BY MaintainedRows DEF LocalInv, LoopInv, StoreInv, IInv, CancelInv
  <2>2. /\ tasks'[t] = s /\ MayReport(m, w, k, NoRun, o) /\ RowInv(m) /\ m \in Row
        /\ \A u \in Tasks \ {t} : tasks'[u] = MaintainedRow(tasks[u])
    BY <1>7, <2>1 DEF ReportResult, Transaction, Maintained, RowInv
  <2>3. MarkFits(m) /\ (tasks[t].cancel => m.cancel)
    BY <2>1, UnattachedMark DEF Unattached
  <2>4. m = tasks[t] \/ m.claim.token = 0
    <3>1. tasks[t].status \notin Active => tasks[t].claim.token = 0
      BY <2>1 DEF RowInv, HasLiveClaim
    <3> QED
      BY <2>1, <3>1, MaintainedParts DEF Swept, Kept
  <2>5. k # 0 /\ m.claim.token = k /\ m = tasks[t]
    BY <2>2, <2>4 DEF MayReport, RequireClaim
  <2>6. WasReported(m, s) /\ s.status \in {"pending", o}
    <3>1. s = Requeued(m) \/ s = f
      BY Zenon DEF Reported
    <3>2. Requeued(m).status = "pending" /\ f.status = o
      BY <2>2, RequeuedParts, WithoutRetryParts
    <3>3. WasReported(m, s)
      BY <2>2, ReportedParts
    <3> HIDE DEF s, f, m
    <3> QED
      BY <3>1, <3>2, <3>3
  <2> HIDE DEF s, f
  <2>7. s.status = "cancelled" => m.cancel
    <3>1. CASE m.status = "cancel_requested"
      BY <2>3, <3>1 DEF MarkFits
    <3>2. CASE m.status = "running" /\ s.status = "cancelled"
      <4>1. BeforeStart(t, k)
        BY <1>5, <2>6, <3>2
      <4> QED
        BY <2>5, <3>2, <4>1 DEF CancelInv, ClaimIsUnstarted
    <3> QED
      BY <2>6, <3>1, <3>2 DEF WasReported
  <2>8. MarkFits(s) /\ s.cancel = m.cancel /\ s.claim.token = 0
    BY <2>6, <2>7 DEF WasReported, MarkFits
  <2>9. \A u \in Tasks \ {t} :
            /\ RowInv(tasks'[u]) /\ Unattached(tasks[u], MaintainedRow(tasks[u]), tasks'[u])
            /\ MarkFits(tasks'[u]) /\ (tasks[u].cancel => tasks'[u].cancel)
            /\ tasks'[u].status = "running" => tasks[u].status = "running"
    <3> SUFFICES ASSUME NEW u \in Tasks \ {t}
                 PROVE  /\ RowInv(tasks'[u])
                        /\ Unattached(tasks[u], MaintainedRow(tasks[u]), tasks'[u])
                        /\ MarkFits(tasks'[u]) /\ (tasks[u].cancel => tasks'[u].cancel)
                        /\ tasks'[u].status = "running" => tasks[u].status = "running"
      OBVIOUS
    <3>1. RowInv(tasks'[u]) /\ Unattached(tasks[u], MaintainedRow(tasks[u]), tasks'[u])
      BY <2>1, <2>2 DEF Unattached
    <3>2. tasks'[u].status = "running" => tasks[u].status = "running"
      BY <2>1, <2>2, MaintainedParts DEF Swept, Kept
    <3> QED
      BY <2>1, <3>1, <3>2, UnattachedMark
  <2>10. \A u \in Tasks : MarkFits(tasks'[u]) /\ (tasks[u].cancel => tasks'[u].cancel)
    BY <2>2, <2>3, <2>8, <2>9
  <2>11. \A v \in Workers, u \in Tasks : MarkHeard(v, u)'
    BY <1>1, <2>10 DEF Beside, CancelInv, MarkHeard
  <2>12. ASSUME NEW u \in Tasks, NEW j \in 1..MaxClaims
         PROVE  ClaimIsUnstarted(u, j)'
    <3>1. CASE u = t
      <4>1. j # 0
        OBVIOUS
      <4> QED
        BY <2>2, <2>8, <3>1, <4>1 DEF ClaimIsUnstarted
    <3>2. CASE u # t
      <4>1. BeforeStart(u, j)' <=> BeforeStart(u, j)
        BY <1>1, <3>2 DEF Beside, BeforeStart
      <4> QED
        BY <2>9, <3>2, <4>1, StaysUnstarted
    <3> QED
      BY <3>1, <3>2
  <2> QED
    BY <2>10, <2>11, <2>12 DEF CancelInv
<1> QED
  BY <1>4, <1>6, <1>7

\* Steps that change neither the rows nor what jobs are about to report.
LEMMA StillMarks ==
    ASSUME LocalInv, CancelInv, UNCHANGED vars,
           \A v \in Workers : proc'[v].cancelled \cup proc'[v].heard
                                \subseteq proc[v].cancelled \cup proc[v].heard,
           \A t \in Tasks, k \in 1..MaxClaims :
              \/ jobs'[t][k].pc = "none"
              \/ jobs'[t][k] = jobs[t][k] /\ locals'[t][k] = locals[t][k]
    PROVE  CancelInv'
<1>1. [Next]_vars /\ UnattachedStep /\ tasks' = tasks
  BY DEF UnattachedStep, vars
<1>2. \A t \in Tasks, k \in 1..MaxClaims : BeforeStart(t, k)' => BeforeStart(t, k)
  BY DEF BeforeStart
<1> QED
  BY <1>1, <1>2, MarksKept

\* The first state: nothing exists, and nothing is marked.
LEMMA InitCancelInv == LocalInit => CancelInv
<1> SUFFICES ASSUME LocalInit PROVE CancelInv
  OBVIOUS
<1>1. \A t \in Tasks : tasks[t] = Absent
  BY DEF LocalInit, LoopInit, Init
<1>2. \A w \in Workers : proc[w].cancelled = {} /\ proc[w].heard = {}
  BY DEF LocalInit, LoopInit, Fresh
<1>3. \A t \in Tasks, k \in 1..MaxClaims : jobs[t][k].pc = "none"
  BY JobFacts DEF LocalInit, LoopInit
<1>4. Absent.status = "absent" /\ ~Absent.cancel
  BY DEF Absent
<1> QED
  BY <1>1, <1>2, <1>3, <1>4 DEF CancelInv, MarkFits, MarkHeard, ClaimIsUnstarted, BeforeStart

\* Every step of the runtime keeps the marks to what was asked for.
LEMMA StepCancelInv == LocalInv /\ CancelInv /\ [LocalNext]_localVars => CancelInv'
<1> SUFFICES ASSUME LocalInv, CancelInv, [LocalNext]_localVars PROVE CancelInv'
  OBVIOUS
<1>1. CASE UNCHANGED <<vars, loopVars, locals>>
  BY <1>1, StillMarks DEF loopVars
<1>2. ASSUME NEW w \in Workers, NEW t \in Tasks, HearCancellation(w, t)
      PROVE  CancelInv'
  <2> DEFINE q == [proc[w] EXCEPT !.heard = proc[w].heard \ {t},
                                  !.cancelled = proc[w].cancelled \cup {t}]
  <2>1. proc \in [Workers -> Process] /\ t \in proc[w].heard
    BY <1>2 DEF LocalInv, LoopInv, LoopType, HearCancellation
  <2>2. proc' = [proc EXCEPT ![w] = q]
    BY <1>2 DEF HearCancellation
  <2>3. q.heard = proc[w].heard \ {t} /\ q.cancelled = proc[w].cancelled \cup {t}
    BY <2>1 DEF Process
  <2> HIDE DEF q
  <2>4. \A v \in Workers : proc'[v].cancelled \cup proc'[v].heard
                              \subseteq proc[v].cancelled \cup proc[v].heard
    BY <2>1, <2>2, <2>3
  <2> QED
    BY <1>2, <2>4, StillMarks DEF HearCancellation
<1>3. ASSUME NEW w \in Workers, Crash(w) \/ Exit(w), Vanish(w)
      PROVE  CancelInv'
  <2>1. proc \in [Workers -> Process]
    BY DEF LocalInv, LoopInv, LoopType
  <2>2. /\ proc' = [proc EXCEPT ![w] = [Fresh EXCEPT !.state = "down"]] /\ UNCHANGED vars
        /\ jobs' = [t \in Tasks |-> [k \in 1..MaxClaims |->
                       IF Holds(w, t, k) THEN NoJob ELSE jobs[t][k]]]
        /\ locals' = [t \in Tasks |-> [k \in 1..MaxClaims |->
                         IF Holds(w, t, k) THEN NoLocals ELSE locals[t][k]]]
    BY <1>3 DEF Crash, Exit, Vanish
  <2>3. LET gone == [Fresh EXCEPT !.state = "down"] IN gone.cancelled = {} /\ gone.heard = {}
    BY DEF Fresh
  <2>4. \A v \in Workers : proc'[v].cancelled \cup proc'[v].heard
                              \subseteq proc[v].cancelled \cup proc[v].heard
    BY <2>1, <2>2, <2>3
  <2>5. \A t \in Tasks, k \in 1..MaxClaims :
            \/ jobs'[t][k].pc = "none"
            \/ jobs'[t][k] = jobs[t][k] /\ locals'[t][k] = locals[t][k]
    BY <2>2, JobFacts
  <2> QED
    BY <2>2, <2>4, <2>5, StillMarks
<1>4. ASSUME NEW w \in Workers, NEW t \in Tasks, NEW k \in 1..MaxClaims, JobStep(w, t, k)
      PROVE  CancelInv'
  BY <1>4, SilentJobMarks, SetRunningMarks, ReportMarks DEF JobStep
<1>5. UNCHANGED localVars \/ (\E t \in Tasks, k \in 1..MaxClaims : ChildEnds(t, k))
      \/ (\E w \in Workers : CancelledChildHasEnded(w)) => UNCHANGED <<vars, loopVars, locals>>
  BY DEF localVars, childVars, ChildEnds, CancelledChildHasEnded
<1> QED
  BY <1>1, <1>2, <1>3, <1>4, <1>5, AroundMarks DEF LocalNext, Beat

-----------------------------------------------------------------------------
(* The theorems *)

\* The first state.
LEMMA InitLocalInv == LocalInit => LocalInv
<1> SUFFICES ASSUME LocalInit PROVE LocalInv
  OBVIOUS
<1>1. LoopInv /\ \A t \in Tasks : tasks[t] = Absent
  BY InitLoopInv DEF LocalInit, LoopInit, Init
<1>2. ChildType
  BY LocalValues, WorkerAssumption DEF LocalInit, LoopInit, ChildType, ChildStates
<1>3. \A t \in Tasks, k \in 1..MaxClaims :
          children[t][k] = "none" /\ jobs[t][k].pc = "none" /\ ~Running(t, k)
  BY JobFacts DEF LocalInit, LoopInit, Running
<1>4. \A t \in Tasks : tasks[t].status # "succeeded"
  BY <1>1 DEF Absent
<1> QED
  BY <1>1, <1>2, <1>3, <1>4 DEF LocalInv, ChildOfJob, TrueSuccess, Alone

\* Every step of the runtime is one that TaskStore allows, and is sound.
LEMMA StepLocalInv == LocalInv /\ [LocalNext]_localVars => LocalInv' /\ [Next]_vars
<1> SUFFICES ASSUME LocalInv, [LocalNext]_localVars PROVE LocalInv' /\ [Next]_vars
  OBVIOUS
<1>1. CASE UNCHANGED localVars
  <2>1. UNCHANGED vars /\ UNCHANGED loopVars /\ UNCHANGED childVars
    BY <1>1 DEF localVars
  <2>2. LoopInv'
    BY <2>1, GoingOn DEF LocalInv, LoopInv, LoopType, loopVars, JobsGoOn, SameEntries
  <2>3. ChildType'
    BY <2>1 DEF LocalInv, ChildType, loopVars, childVars
  <2> QED
    BY <2>1, <2>2, <2>3, QuietInv
    DEF vars, loopVars, childVars, LoopMoved, SameJob, ChildMoved
<1>2. ASSUME NEW w \in Workers, NEW t \in Tasks, NEW k \in 1..MaxClaims, JobStep(w, t, k)
      PROVE  LocalInv' /\ [Next]_vars
  BY <1>2, BeforeChildInv, SetRunningInv, WaitingInv, TerminatingInv, ReportInv DEF JobStep
<1> QED
  BY <1>1, <1>2, AroundInv, ChildEndsInv, HeartbeatsGoOnInv, HearCancellationInv, VanishInv
  DEF LocalNext, Beat

\* The inductive invariant of the process runtime.
THEOREM LocalInductive == LocalSpec => []LocalInv
<1> QED
  BY InitLocalInv, StepLocalInv, PTL DEF LocalSpec

\* The worker makes no call that TaskStore does not allow: what is proved of the
\* store for every caller is true of the store with this runtime.
THEOREM LocalImplementsStore == LocalSpec => Spec
<1>1. LocalInit => Init
  BY DEF LocalInit, LoopInit
<1> QED
  BY <1>1, StepLocalInv, LocalInductive, PTL DEF LocalSpec, Spec

\* Every part of the state stays of its kind.
THEOREM LocalTypeCorrect == LocalSpec => []LocalTypeOK
<1>1. LocalInv => LocalTypeOK
  BY DEF LocalInv, LoopInv, StoreInv, IInv, LoopType, ChildType, LocalTypeOK
<1> QED
  BY <1>1, LocalInductive, PTL

\* A task is a success only if the child of its newest claim returned 0, for
\* workers with room for any number of tasks.
THEOREM LocalSuccessIsTrue == LocalSpec => []SuccessIsTrue
<1>1. LocalInv => SuccessIsTrue
  BY DEF LocalInv, TrueSuccess, SuccessIsTrue
<1> QED
  BY <1>1, LocalInductive, PTL

\* A task becomes cancelled only because somebody asked for it, for workers with
\* room for any number of tasks: refused starts and old marks do not add up to one.
THEOREM LocalCancelledOnRequest == LocalSpec => []CancelledOnRequest
<1>1. LocalInv /\ CancelInv => CancelledOnRequest
  BY DEF CancelInv, MarkFits, MarkHeard, CancelledOnRequest
<1> QED
  BY <1>1, InitCancelInv, StepCancelInv, LocalInductive, PTL DEF LocalSpec

\* A worker with room for one task runs one child, its own, also after it lost a claim.
THEOREM LocalOneChild == ASSUME RoomForOneTask PROVE LocalSpec => []OneChildPerTask
<1>1. LocalInv => OneChildPerTask
  <2> SUFFICES ASSUME LocalInv, NEW w \in Workers, NEW t \in Tasks,
                      NEW j \in 1..MaxClaims, NEW k \in 1..MaxClaims,
                      Holds(w, t, j), Alive(jobs[t][j]), Holds(w, t, k), Alive(jobs[t][k])
               PROVE  j = k
    BY DEF OneChildPerTask
  <2>1. OneJob(w)
    BY DEF RoomForOneTask, LocalInv, LoopInv, OneJobEach
  <2>2. <<t, j>> \in JobsOf(w) /\ <<t, k>> \in JobsOf(w)
    BY DEF JobsOf, Alive
  <2> QED
    BY <2>1, <2>2 DEF OneJob
<1> QED
  BY <1>1, LocalInductive, PTL

\* A cancellation that such a worker has heard has reached the child.
THEOREM LocalHeardIsObeyed == ASSUME RoomForOneTask PROVE LocalSpec => []HeardIsObeyed
<1>1. LocalInv => HeardIsObeyed
  BY DEF RoomForOneTask, LocalInv, Alone, HeardIsObeyed, At
<1> QED
  BY <1>1, LocalInductive, PTL

\* Such a worker leaves no child behind unless it is killed.
THEOREM LocalNoOrphan == ASSUME RoomForOneTask PROVE LocalSpec => []NoOrphan
<1>1. LocalInv => NoOrphan
  <2> SUFFICES ASSUME LocalInv, crashes = 0, NEW t \in Tasks, NEW k \in 1..MaxClaims,
                      Running(t, k)
               PROVE  Alive(jobs[t][k])
    BY DEF NoOrphan
  <2>1. k \in DOMAIN tasks[t].claim.issued
    BY DEF LocalInv, ChildOfJob, Running
  <2>2. tasks[t].claim.issued \in Seq(Workers)
    BY DEF LocalInv, LoopInv, StoreInv, IInv, Row, Claim
  <2>3. Holds(tasks[t].claim.issued[k], t, k) /\ tasks[t].claim.issued[k] \in Workers
    BY <2>1, <2>2 DEF Holds
  <2> QED
    BY <2>3 DEF RoomForOneTask, LocalInv, Alone
<1> QED
  BY <1>1, LocalInductive, PTL

=============================================================================
