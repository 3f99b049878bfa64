-------------------------- MODULE WorkerLoopProofs --------------------------
(***************************************************************************)
(* What the loop of a worker process keeps, whatever run_task does: every  *)
(* call it makes is one that TaskStore allows, and a process with room for *)
(* one task has one job, which its dictionaries are about.                 *)
(* GatewayWorkerProofs and LocalWorkerProofs add their run_task.           *)
(***************************************************************************)
EXTENDS WorkerLoop, TaskStoreStepProofs

USE DEF Terminal, Active

Carried == [attempt: Nat, run: Runs \cup {NoRun}, cancel: BOOLEAN, overdue: BOOLEAN,
          budget: Timer]                            \* what Snapshot gives
Points == {"none", "offered", "new", "report",
           "look", "begin", "attach", "reattach", "loop", "session", "poll", "stop",
           "confirm", "reconcile",                              \* of GatewayWorker
           "prepare", "spawned", "kill", "wait", "overtime", "collect"}  \* of LocalWorker
Job == [pc: Points, task: Carried]

LoopType ==
    /\ proc \in [Workers -> Process]
    /\ jobs \in [Tasks -> [1..MaxClaims -> Job]]

\* A token that a process keeps was issued to it.
TokensHeld ==
    \A w \in Workers, t \in Tasks :
        proc[w].tokens[t] # 0 => Holds(w, t, proc[w].tokens[t])

\* A job runs a claim that was issued.
JobsIssued ==
    \A t \in Tasks, k \in 1..MaxClaims :
        jobs[t][k].pc # "none" => k \in DOMAIN tasks[t].claim.issued

\* A process with room for one task has at most one job, and the entries of
\* its dictionaries are that job's.
OneJob(w) ==
    /\ \A x, y \in JobsOf(w) : x = y
    /\ \A x \in JobsOf(w) :
          /\ proc[w].state # "down"
          /\ IF Alive(jobs[x[1]][x[2]])
             THEN proc[w].active = {x[1]} /\ proc[w].tokens[x[1]] = x[2]
             ELSE proc[w].active = {}

OneJobEach == \A w \in Workers : MaxConcurrency[w] = 1 => OneJob(w)

\* What some theorems assume of the configuration.
RoomForOneTask == \A w \in Workers : MaxConcurrency[w] = 1

\* A task that does not exist yet was not claimed.
UnbornUnclaimed(r) == r.status = "absent" => r.claim.issued = <<>>

StoreInv == IInv /\ \A t \in Tasks : UnbornUnclaimed(tasks[t])

LoopInv == StoreInv /\ LoopType /\ TokensHeld /\ JobsIssued /\ OneJobEach

-----------------------------------------------------------------------------
(* Claims that were issued stay issued *)

\* A step of the store only adds to the history of a row's claims.
LEMMA MovedIssued ==
    ASSUME NEW r, RowInv(r), UnbornUnclaimed(r), NEW s, Moved(r, s)
    PROVE  /\ \/ s.claim.issued = r.claim.issued
              \/ \E w \in Workers : s.claim.issued = Append(r.claim.issued, w)
           /\ UnbornUnclaimed(s)
<1>1. ASSUME NEW q, NEW rank
      PROVE  Created(q, rank).claim.issued = <<>> /\ Created(q, rank).status # "absent"
  BY DEF Created, Absent
<1>2. CASE s = r \/ (s.status = r.status /\ SameClaim(r, s))
  BY <1>2 DEF SameClaim, UnbornUnclaimed
<1>3. CASE WasStated(r, s)
  BY <1>1, <1>3 DEF WasStated, SameClaim, UnbornUnclaimed
<1>4. ASSUME NEW m, m = r \/ (r.status \in Active /\ Swept(r, m)) \/ Kept(r, m),
             s = m \/ Effect(m, s) \/ WasPlanned(m, s)
      PROVE  /\ \/ s.claim.issued = r.claim.issued
                \/ \E w \in Workers : s.claim.issued = Append(r.claim.issued, w)
             /\ UnbornUnclaimed(s)
  <2>1. m.claim.issued = r.claim.issued
    BY <1>4 DEF Swept, Kept
  <2>2. m.status = "absent" => m.claim.issued = <<>>
    BY <1>4 DEF Swept, Kept, UnbornUnclaimed
  <2>3. \/ s.claim.issued = m.claim.issued
        \/ \E w \in Workers : s.claim.issued = Append(m.claim.issued, w)
    BY <1>4 DEF Effect, HolderEffect, WentOn, WasGranted, WasAttached, WasParked, WasReported,
                WasPlanned, SameClaim
  <2>4. s.status = "absent" => m.status = "absent" /\ s.claim.issued = m.claim.issued
    BY <1>4 DEF Effect, HolderEffect, WentOn, WasGranted, WasAttached, WasParked, WasReported,
                WasPlanned, SameClaim
  <2> QED
    BY <2>1, <2>2, <2>3, <2>4 DEF UnbornUnclaimed
<1> QED
  BY <1>2, <1>3, <1>4, Zenon DEF Moved

\* So the history of every task's claims only grows.
LEMMA IssuedGrows ==
    ASSUME StoreInv, [Next]_vars
    PROVE  /\ StoreInv'
           /\ \A t \in Tasks :
                 LET old == tasks[t].claim.issued
                     new == tasks'[t].claim.issued
                 IN  /\ old \in Seq(Workers) /\ new \in Seq(Workers)
                     /\ new = old \/ \E w \in Workers : new = Append(old, w)
<1>1. IInv /\ IInv'
  BY StepIInv DEF StoreInv
<1>2. \A t \in Tasks : Moved(tasks[t], tasks'[t])
  BY <1>1, StepsByRow, StepParts, Zenon DEF AllSteps, IInv
<1>3. \A t \in Tasks : RowInv(tasks[t]) /\ UnbornUnclaimed(tasks[t])
  BY DEF StoreInv, IInv
<1>4. \A t \in Tasks :
          /\ tasks'[t].claim.issued = tasks[t].claim.issued
             \/ \E w \in Workers :
                   tasks'[t].claim.issued = Append(tasks[t].claim.issued, w)
          /\ UnbornUnclaimed(tasks'[t])
  BY <1>2, <1>3, MovedIssued
<1>5. \A t \in Tasks : tasks[t].claim.issued \in Seq(Workers)
                       /\ tasks'[t].claim.issued \in Seq(Workers)
  BY <1>1 DEF IInv, Row, Claim
<1> QED
  BY <1>1, <1>4, <1>5 DEF StoreInv, UnbornUnclaimed

\* A claim keeps its holder.
LEMMA HoldersStay ==
    ASSUME StoreInv, [Next]_vars, NEW t \in Tasks
    PROVE  \A k \in DOMAIN tasks[t].claim.issued :
              /\ k \in DOMAIN tasks'[t].claim.issued
              /\ tasks'[t].claim.issued[k] = tasks[t].claim.issued[k]
              /\ \A w : Holds(w, t, k)' <=> Holds(w, t, k)
<1>1. LET old == tasks[t].claim.issued
          new == tasks'[t].claim.issued
      IN  /\ old \in Seq(Workers) /\ new \in Seq(Workers)
          /\ new = old \/ \E w \in Workers : new = Append(old, w)
  BY IssuedGrows
<1>2. \A k \in DOMAIN tasks[t].claim.issued :
          /\ k \in DOMAIN tasks'[t].claim.issued
          /\ tasks'[t].claim.issued[k] = tasks[t].claim.issued[k]
  BY <1>1
<1> QED
  BY <1>2 DEF Holds

-----------------------------------------------------------------------------
(* What a step of a process has to show *)

\* A step that opens no job and enters no token keeps claims and jobs together.
LEMMA LoopBasics ==
    ASSUME LoopInv, [Next]_vars, LoopType',
           \A t \in Tasks, k \in 1..MaxClaims :
              jobs'[t][k].pc # "none" => jobs[t][k].pc # "none",
           \A w \in Workers, t \in Tasks :
              proc'[w].tokens[t] \in {0, proc[w].tokens[t]}
    PROVE  /\ StoreInv' /\ TokensHeld' /\ JobsIssued'
           /\ \A w \in Workers, t \in Tasks, k \in 1..MaxClaims :
                 jobs'[t][k].pc # "none" => (Holds(w, t, k)' <=> Holds(w, t, k))
<1>1. StoreInv'
  BY IssuedGrows DEF LoopInv
<1>2. \A t \in Tasks : \A k \in DOMAIN tasks[t].claim.issued :
          /\ k \in DOMAIN tasks'[t].claim.issued
          /\ tasks'[t].claim.issued[k] = tasks[t].claim.issued[k]
          /\ \A w : Holds(w, t, k)' <=> Holds(w, t, k)
  BY HoldersStay DEF LoopInv
<1>3. JobsIssued'
  BY <1>2 DEF LoopInv, JobsIssued
<1>4. TokensHeld'
  <2> SUFFICES ASSUME NEW w \in Workers, NEW t \in Tasks, proc'[w].tokens[t] # 0
               PROVE  Holds(w, t, proc[w].tokens[t])'
                      /\ proc'[w].tokens[t] = proc[w].tokens[t]
    BY DEF TokensHeld, Holds
  <2>1. proc'[w].tokens[t] = proc[w].tokens[t] /\ Holds(w, t, proc[w].tokens[t])
    BY DEF LoopInv, TokensHeld
  <2>2. proc[w].tokens[t] \in DOMAIN tasks[t].claim.issued
    BY <2>1 DEF Holds
  <2>3. proc[w].tokens[t] \in DOMAIN tasks'[t].claim.issued
        /\ tasks'[t].claim.issued[proc[w].tokens[t]] = w
    BY <1>2, <2>1, <2>2 DEF Holds
  <2> QED
    BY <2>1, <2>3 DEF Holds
<1> QED
  BY <1>1, <1>2, <1>3, <1>4 DEF LoopInv, JobsIssued

\* The entries of a process, as far as its jobs depend on them.
SameEntries(v) ==
    /\ proc'[v].active = proc[v].active
    /\ proc'[v].tokens = proc[v].tokens
    /\ proc'[v].state = "down" => proc[v].state = "down"

\* A process whose entries and jobs stay keeps to its one job.
LEMMA KeptJob ==
    ASSUME LoopInv, NEW v \in Workers, MaxConcurrency[v] = 1, SameEntries(v),
           \A t \in Tasks, k \in 1..MaxClaims :
              Holds(v, t, k)' /\ jobs'[t][k].pc # "none" =>
                  /\ Holds(v, t, k) /\ jobs[t][k].pc # "none"
                  /\ Alive(jobs'[t][k]) <=> Alive(jobs[t][k])
    PROVE  OneJob(v)'
<1>1. OneJob(v)
  BY DEF LoopInv, OneJobEach
<1>2. \A x \in JobsOf(v)' :
          x \in JobsOf(v) /\ (Alive(jobs'[x[1]][x[2]]) <=> Alive(jobs[x[1]][x[2]]))
  BY DEF JobsOf
<1> QED
  BY <1>1, <1>2 DEF OneJob, SameEntries, Alive

\* Jobs go on: none is opened, received or ended.
JobsGoOn ==
    /\ \A t \in Tasks, k \in 1..MaxClaims :
          \/ jobs'[t][k].pc = jobs[t][k].pc
          \/ Alive(jobs[t][k]) /\ Alive(jobs'[t][k])
    /\ \A v \in Workers : SameEntries(v)

\* Most steps are of this kind.
LEMMA GoingOn ==
    ASSUME LoopInv, [Next]_vars, LoopType', JobsGoOn
    PROVE  LoopInv'
<1>1. \A t \in Tasks, k \in 1..MaxClaims :
          /\ jobs'[t][k].pc # "none" => jobs[t][k].pc # "none"
          /\ Alive(jobs'[t][k]) <=> Alive(jobs[t][k])
  BY DEF JobsGoOn, Alive
<1>2. \A w \in Workers, t \in Tasks : proc'[w].tokens[t] \in {0, proc[w].tokens[t]}
  BY DEF JobsGoOn, SameEntries
<1>3. /\ StoreInv' /\ TokensHeld' /\ JobsIssued'
      /\ \A w \in Workers, t \in Tasks, k \in 1..MaxClaims :
            jobs'[t][k].pc # "none" => (Holds(w, t, k)' <=> Holds(w, t, k))
  BY <1>1, <1>2, LoopBasics
<1>4. OneJobEach'
  <2> SUFFICES ASSUME NEW v \in Workers, MaxConcurrency[v] = 1 PROVE OneJob(v)'
    BY DEF OneJobEach
  <2> QED
    BY <1>1, <1>3, KeptJob DEF JobsGoOn
<1> QED
  BY <1>3, <1>4 DEF LoopInv

\* A process loses jobs: those of w that are in no job of its own any more.
LEMMA JobsGone ==
    ASSUME LoopInv, [Next]_vars, LoopType', NEW w \in Workers,
           \A v \in Workers \ {w} : proc'[v] = proc[v],
           \A t \in Tasks : proc'[w].tokens[t] \in {0, proc[w].tokens[t]},
           \A t \in Tasks, k \in 1..MaxClaims :
              \/ jobs'[t][k].pc = "none" /\ Holds(w, t, k)
              \/ jobs'[t][k] = jobs[t][k],
           MaxConcurrency[w] = 1 => OneJob(w)'
    PROVE  LoopInv'
<1>1. \A t \in Tasks, k \in 1..MaxClaims :
          jobs'[t][k].pc # "none" => jobs'[t][k] = jobs[t][k]
  OBVIOUS
<1>2. \A v \in Workers, t \in Tasks : proc'[v].tokens[t] \in {0, proc[v].tokens[t]}
  OBVIOUS
<1>3. /\ StoreInv' /\ TokensHeld' /\ JobsIssued'
      /\ \A v \in Workers, t \in Tasks, k \in 1..MaxClaims :
            jobs'[t][k].pc # "none" => (Holds(v, t, k)' <=> Holds(v, t, k))
  BY <1>1, <1>2, LoopBasics
<1>4. OneJobEach'
  <2> SUFFICES ASSUME NEW v \in Workers, MaxConcurrency[v] = 1, v # w PROVE OneJob(v)'
    BY DEF OneJobEach
  <2>1. SameEntries(v)
    BY DEF SameEntries
  <2> QED
    BY <1>1, <1>3, <2>1, KeptJob
<1> QED
  BY <1>3, <1>4 DEF LoopInv

-----------------------------------------------------------------------------
(* What the loop makes of a job *)

\* Time only touches the budget.
SameJob(t, k) ==
    /\ jobs'[t][k].pc = jobs[t][k].pc
    /\ \/ jobs'[t][k].task = jobs[t][k].task
       \/ jobs'[t][k].task = [jobs[t][k].task EXCEPT !.budget = Age(jobs[t][k].task.budget)]

Opened(t, k) ==
    /\ jobs[t][k].pc = "none" /\ k \notin DOMAIN tasks[t].claim.issued
    /\ k = Len(tasks'[t].claim.issued)
    /\ jobs'[t][k] = JobAt("offered", Snapshot(tasks'[t]))

Received(t, k) ==
    /\ jobs[t][k].pc = "offered" /\ jobs'[t][k].pc = "new"
    /\ jobs'[t][k].task = jobs[t][k].task

Lost(t, k) == jobs[t][k].pc = "offered" /\ jobs'[t][k].pc = "none"

LoopMoved(t, k) == SameJob(t, k) \/ Opened(t, k) \/ Received(t, k) \/ Lost(t, k)

-----------------------------------------------------------------------------
(* The types of what the loop writes *)

\* Strings and records that jobs are made of.
LEMMA JobFacts ==
    /\ NoJob \in Job /\ NoJob.pc = "none"
    /\ \A r \in Row : JobAt("offered", Snapshot(r)) \in Job
    /\ \A r \in Row : JobAt("offered", Snapshot(r)).pc = "offered"
<1>1. NoTime \in Timer
  BY TimerFacts
<1>2. NoJob \in Job /\ NoJob.pc = "none"
  BY <1>1 DEF NoJob, Job, Carried, Points
<1>3. \A r \in Row : Snapshot(r) \in Carried
  BY DEF Snapshot, Carried, Row, Attempt, Remote
<1> QED
  BY <1>2, <1>3 DEF JobAt, Job, Points

\* A fresh process has empty collections.
LEMMA FreshFacts ==
    /\ Fresh \in Process /\ Fresh.active = {} /\ Fresh.state = "up"
    /\ \A t \in Tasks : Fresh.tokens[t] = 0
    /\ LET gone == [Fresh EXCEPT !.state = "down"] IN
       /\ gone \in Process /\ \A t \in Tasks : gone.tokens[t] = 0
<1>1. MaxClaims \in Nat
  BY WorkerAssumption
<1> QED
  BY <1>1 DEF Fresh, Process

\* A job moves to another point.
LEMMA JobMoved ==
    ASSUME LoopType, NEW t \in Tasks, NEW k \in 1..MaxClaims, NEW p \in Points,
           jobs' = [jobs EXCEPT ![t][k].pc = p]
    PROVE  /\ jobs' \in [Tasks -> [1..MaxClaims -> Job]]
           /\ jobs'[t][k].pc = p /\ jobs'[t][k].task = jobs[t][k].task
           /\ \A u \in Tasks, j \in 1..MaxClaims :
                 <<u, j>> # <<t, k>> => jobs'[u][j] = jobs[u][j]
<1>1. jobs \in [Tasks -> [1..MaxClaims -> Job]]
  BY DEF LoopType
<1>2. jobs[t][k] \in Job /\ [jobs[t][k] EXCEPT !.pc = p] \in Job
      /\ [jobs[t][k] EXCEPT !.pc = p].pc = p
      /\ [jobs[t][k] EXCEPT !.pc = p].task = jobs[t][k].task
  BY <1>1 DEF Job
<1>3. PICK q : q = [jobs[t][k] EXCEPT !.pc = p]
  OBVIOUS
<1>4. jobs' = [jobs EXCEPT ![t] = [jobs[t] EXCEPT ![k] = q]]
  BY <1>3
<1>5. [jobs[t] EXCEPT ![k] = q] \in [1..MaxClaims -> Job]
  BY <1>1, <1>2, <1>3
<1>6. jobs'[t] = [jobs[t] EXCEPT ![k] = q] /\ \A u \in Tasks \ {t} : jobs'[u] = jobs[u]
  BY <1>1, <1>4
<1>7. jobs'[t][k] = q /\ \A j \in (1..MaxClaims) \ {k} : jobs'[t][j] = jobs[t][j]
  BY <1>1, <1>6
<1>8. jobs' \in [Tasks -> [1..MaxClaims -> Job]]
  BY <1>1, <1>4, <1>5
<1> QED
  BY <1>2, <1>3, <1>6, <1>7, <1>8

\* A process enters a claim.
LEMMA EntryMade ==
    ASSUME proc \in [Workers -> Process], NEW w \in Workers, NEW t \in Tasks,
           NEW k \in 0..MaxClaims,
           proc' = [proc EXCEPT ![w].active = @ \cup {t}, ![w].tokens[t] = k]
    PROVE  /\ proc' \in [Workers -> Process] /\ \A v \in Workers \ {w} : proc'[v] = proc[v]
           /\ proc'[w].active = proc[w].active \cup {t} /\ proc'[w].state = proc[w].state
           /\ proc'[w].tokens[t] = k /\ proc'[w].cancelled = proc[w].cancelled
           /\ proc'[w].heard = proc[w].heard
           /\ \A u \in Tasks \ {t} : proc'[w].tokens[u] = proc[w].tokens[u]
<1> DEFINE q == [proc[w] EXCEPT !.active = proc[w].active \cup {t}, !.tokens[t] = k]
<1>1. proc' = [proc EXCEPT ![w] = q]
  OBVIOUS
<1>2. /\ q \in Process /\ q.active = proc[w].active \cup {t} /\ q.state = proc[w].state
      /\ q.tokens = [proc[w].tokens EXCEPT ![t] = k] /\ q.cancelled = proc[w].cancelled
      /\ q.heard = proc[w].heard
  BY DEF Process
<1>3. proc[w].tokens \in [Tasks -> 0..MaxClaims]
  BY DEF Process
<1> HIDE DEF q
<1> QED
  BY <1>1, <1>2, <1>3

\* A process drops the entries of a task.
LEMMA EntriesDropped ==
    ASSUME proc \in [Workers -> Process], NEW w \in Workers, NEW t \in Tasks,
           proc' = [proc EXCEPT ![w].active = @ \ {t}, ![w].tokens[t] = 0,
                                ![w].cancelled = @ \ {t}]
    PROVE  /\ proc' \in [Workers -> Process] /\ \A v \in Workers \ {w} : proc'[v] = proc[v]
           /\ \A u \in Tasks : proc'[w].tokens[u] \in {0, proc[w].tokens[u]}
           /\ proc'[w].cancelled \subseteq proc[w].cancelled
           /\ proc'[w].heard = proc[w].heard
<1> DEFINE q == [proc[w] EXCEPT !.active = proc[w].active \ {t}, !.tokens[t] = 0,
                                !.cancelled = proc[w].cancelled \ {t}]
<1>0. 0 \in 0..MaxClaims
  BY WorkerAssumption
<1>1. proc' = [proc EXCEPT ![w] = q]
  OBVIOUS
<1>2. /\ q \in Process /\ q.tokens = [proc[w].tokens EXCEPT ![t] = 0]
      /\ q.cancelled = proc[w].cancelled \ {t} /\ q.heard = proc[w].heard
  BY <1>0 DEF Process
<1>3. proc[w].tokens \in [Tasks -> 0..MaxClaims]
  BY DEF Process
<1> HIDE DEF q
<1> QED
  BY <1>1, <1>2, <1>3

\* A process leaves its loop.
LEMMA LoopLeft ==
    ASSUME proc \in [Workers -> Process], NEW w \in Workers,
           proc' = [proc EXCEPT ![w].state = "stopping", ![w].heard = {}]
    PROVE  /\ proc' \in [Workers -> Process] /\ \A v \in Workers \ {w} : proc'[v] = proc[v]
           /\ proc'[w].tokens = proc[w].tokens /\ proc'[w].active = proc[w].active
           /\ proc'[w].state = "stopping" /\ proc'[w].cancelled = proc[w].cancelled
           /\ proc'[w].heard = {}
<1> DEFINE q == [proc[w] EXCEPT !.state = "stopping", !.heard = {}]
<1>1. proc' = [proc EXCEPT ![w] = q]
  OBVIOUS
<1>2. /\ q \in Process /\ q.tokens = proc[w].tokens /\ q.active = proc[w].active
      /\ q.state = "stopping" /\ q.cancelled = proc[w].cancelled /\ q.heard = {}
  BY DEF Process
<1> HIDE DEF q
<1> QED
  BY <1>1, <1>2

-----------------------------------------------------------------------------
(* The steps of the loop *)

\* A history that grows by one claim keeps the older ones.
LEMMA AppendedClaim ==
    ASSUME NEW s \in Seq(Workers), NEW w \in Workers, NEW n, n = Len(Append(s, w))
    PROVE  /\ n = Len(s) + 1 /\ Append(s, w)[n] = w
           /\ n \in DOMAIN Append(s, w) /\ n \notin DOMAIN s
           /\ \A k \in DOMAIN s : k \in DOMAIN Append(s, w) /\ Append(s, w)[k] = s[k]
           /\ \A k \in DOMAIN Append(s, w) : k = n \/ k \in DOMAIN s
OBVIOUS

\* A claim is granted to one task, whose history grows by it.
LEMMA ClaimIssues ==
    ASSUME StoreInv, NEW w \in Workers, ClaimTask(w)
    PROVE  \E t \in Tasks :
              /\ tasks'[t].claim.issued = Append(tasks[t].claim.issued, w)
              /\ Len(tasks[t].claim.issued) < MaxClaims
              /\ \A u \in Tasks \ {t} : tasks'[u].claim.issued = tasks[u].claim.issued
<1>1. \A u \in Tasks : /\ RowInv(tasks[u]) /\ RowInv(Maintained[u])
                       /\ Maintained[u] = MaintainedRow(tasks[u])
                       /\ Maintained[u].claim.issued = tasks[u].claim.issued
  <2>1. \A u \in Tasks : /\ RowInv(tasks[u]) /\ RowInv(Maintained[u])
                         /\ Maintained[u] = MaintainedRow(tasks[u])
    BY MaintainedRows DEF StoreInv, IInv
  <2> QED
    BY <2>1, MaintainedParts DEF Swept, Kept
<1>2. PICK t \in Tasks : /\ Claimable(Maintained[t], RouteOf[w][t], w)
                         /\ Len(Maintained[t].claim.issued) < MaxClaims
                         /\ Transaction(t, Claimed(Maintained[t], w))
  BY DEF ClaimTask, FirstOf
<1>3. \/ Maintained[t].status = "pending"
      \/ Maintained[t].status = "reconciling" /\ Maintained[t].attempt.resolved = w
  BY <1>2, Zenon DEF Claimable
<1>4. WasGranted(Maintained[t], Claimed(Maintained[t], w), w)
  BY <1>1, <1>3, ClaimedParts
<1>5. \A u \in Tasks : tasks'[u] = IF u = t THEN Claimed(Maintained[t], w) ELSE Maintained[u]
  BY <1>2 DEF Transaction, Maintained
<1> QED
  BY <1>1, <1>2, <1>4, <1>5 DEF WasGranted

\* With room for one task and an empty dictionary, a process has no job but
\* those whose claim is still on its way.
LEMMA RoomForOne ==
    ASSUME LoopInv, NEW w \in Workers, MaxConcurrency[w] = 1,
           Cardinality(proc[w].active) < MaxConcurrency[w]
    PROVE  proc[w].active = {} /\ \A x \in JobsOf(w) : jobs[x[1]][x[2]].pc = "offered"
<1>1. proc[w].active \subseteq Tasks
  BY DEF LoopInv, LoopType, Process
<1>2. IsFiniteSet(proc[w].active) /\ Cardinality(proc[w].active) \in Nat
  BY <1>1, FewerRows
<1>3. Cardinality(proc[w].active) = 0
  BY <1>2
<1>4. proc[w].active = {}
  BY <1>2, <1>3, FS_EmptySet
<1>5. OneJob(w)
  BY DEF LoopInv, OneJobEach
<1> QED
  BY <1>4, <1>5 DEF OneJob, Alive, JobsOf

\* run asks for a task and is granted one.
LEMMA AskClaimInv ==
    ASSUME LoopInv, NEW w \in Workers, AskClaim(w)
    PROVE  /\ LoopInv' /\ Next
           /\ \A t \in Tasks, k \in 1..MaxClaims : SameJob(t, k) \/ Opened(t, k)
<1>1. Next /\ ClaimTask(w) /\ proc' = proc /\ StoreInv
  BY DEF AskClaim, Next, WorkerCall, LoopInv
<1>2. StoreInv' /\ \A t \in Tasks : tasks'[t] \in Row /\ tasks[t].claim.issued \in Seq(Workers)
  BY <1>1, IssuedGrows DEF StoreInv, IInv
<1>3. PICK t \in Tasks :
          /\ tasks'[t].claim.issued = Append(tasks[t].claim.issued, w)
          /\ Len(tasks[t].claim.issued) < MaxClaims
          /\ \A u \in Tasks \ {t} : tasks'[u].claim.issued = tasks[u].claim.issued
  BY <1>1, ClaimIssues
<1>0. PICK n : n = Len(tasks'[t].claim.issued)
  OBVIOUS
<1>4. jobs' = [jobs EXCEPT ![t][n] = JobAt("offered", Snapshot(tasks'[t]))]
  <2>1. PICK u \in Tasks :
            /\ tasks'[u].claim.issued # tasks[u].claim.issued
            /\ jobs' = [jobs EXCEPT ![u][Len(tasks'[u].claim.issued)] =
                           JobAt("offered", Snapshot(tasks'[u]))]
    BY DEF AskClaim
  <2>2. u = t
    BY <1>3, <2>1
  <2> QED
    BY <1>0, <2>1, <2>2
<1>5. /\ n \in 1..MaxClaims /\ tasks'[t].claim.issued[n] = w
      /\ n \in DOMAIN tasks'[t].claim.issued /\ n \notin DOMAIN tasks[t].claim.issued
      /\ \A k \in DOMAIN tasks[t].claim.issued :
            /\ k \in DOMAIN tasks'[t].claim.issued
            /\ tasks'[t].claim.issued[k] = tasks[t].claim.issued[k]
      /\ \A k \in DOMAIN tasks'[t].claim.issued : k = n \/ k \in DOMAIN tasks[t].claim.issued
  <2>1. n = Len(Append(tasks[t].claim.issued, w)) /\ tasks[t].claim.issued \in Seq(Workers)
    BY <1>0, <1>2, <1>3
  <2>2. /\ n = Len(tasks[t].claim.issued) + 1
        /\ Len(tasks[t].claim.issued) \in Nat /\ MaxClaims \in Nat
    BY <2>1, AppendedClaim, WorkerAssumption
  <2>3. n \in 1..MaxClaims
    BY <1>3, <2>2
  <2> QED
    BY <1>3, <2>1, <2>3, AppendedClaim
<1>6. LoopType' /\ jobs'[t][n].pc = "offered"
      /\ \A u \in Tasks, k \in 1..MaxClaims :
            <<u, k>> # <<t, n>> => jobs'[u][k] = jobs[u][k]
  <2>1. JobAt("offered", Snapshot(tasks'[t])) \in Job
        /\ JobAt("offered", Snapshot(tasks'[t])).pc = "offered"
    BY <1>2, JobFacts
  <2> QED
    BY <1>1, <1>4, <1>5, <2>1 DEF LoopInv, LoopType
<1>7. \A u \in Tasks, k \in 1..MaxClaims :
          jobs[u][k].pc # "none" => <<u, k>> # <<t, n>> /\ k \in DOMAIN tasks[u].claim.issued
  BY <1>5 DEF LoopInv, JobsIssued
<1>8. \A u \in Tasks : \A k \in DOMAIN tasks[u].claim.issued :
          /\ k \in DOMAIN tasks'[u].claim.issued
          /\ \A v : Holds(v, u, k)' <=> Holds(v, u, k)
  BY <1>3, <1>5 DEF Holds
<1>9. JobsIssued'
  BY <1>5, <1>6, <1>7, <1>8 DEF JobsIssued
<1>10. TokensHeld'
  <2> SUFFICES ASSUME NEW v \in Workers, NEW u \in Tasks, proc[v].tokens[u] # 0
               PROVE  Holds(v, u, proc[v].tokens[u])'
    BY <1>1 DEF TokensHeld, Holds
  <2>1. Holds(v, u, proc[v].tokens[u])
    BY DEF LoopInv, TokensHeld
  <2> QED
    BY <1>1, <1>3, <1>5, <2>1 DEF Holds
<1>11. OneJobEach'
  <2> SUFFICES ASSUME NEW v \in Workers, MaxConcurrency[v] = 1 PROVE OneJob(v)'
    BY DEF OneJobEach
  <2>1. CASE v # w
    <3>1. ~Holds(v, t, n)'
      BY <1>5, <2>1 DEF Holds
    <3>2. \A u \in Tasks, k \in 1..MaxClaims :
              Holds(v, u, k)' /\ jobs'[u][k].pc # "none" =>
                  /\ jobs'[u][k] = jobs[u][k] /\ jobs[u][k].pc # "none" /\ Holds(v, u, k)
      BY <1>6, <1>7, <1>8, <3>1
    <3>3. SameEntries(v)
      BY <1>1 DEF SameEntries
    <3> QED
      BY <3>2, <3>3, KeptJob
  <2>2. CASE v = w
    <3>1. proc[w].active = {} /\ \A x \in JobsOf(w) : jobs[x[1]][x[2]].pc = "offered"
      BY <2>2, RoomForOne DEF AskClaim
    <3>2. JobsOf(w) = {}
      BY <3>1 DEF AskClaim
    <3>3. \A x \in JobsOf(w)' : x = <<t, n>>
      BY <1>6, <1>7, <1>8, <3>2 DEF JobsOf
    <3>4. proc'[w].state = "up" /\ proc'[w].active = {}
      BY <1>1, <3>1 DEF AskClaim
    <3> QED
      BY <1>6, <2>2, <3>3, <3>4 DEF OneJob, Alive
  <2> QED
    BY <2>1, <2>2
<1>12. Opened(t, n)
  <2>1. jobs'[t][n] = JobAt("offered", Snapshot(tasks'[t]))
    BY <1>4, <1>5 DEF LoopInv, LoopType
  <2> QED
    BY <1>0, <1>5, <1>7, <2>1 DEF Opened
<1> QED
  BY <1>1, <1>2, <1>6, <1>9, <1>10, <1>11, <1>12 DEF LoopInv, SameJob

\* The answer arrives: the process has its one job, and enters it.
LEMMA ReceiveClaimInv ==
    ASSUME LoopInv, NEW w \in Workers, NEW t \in Tasks, NEW k \in 1..MaxClaims,
           ReceiveClaim(w, t, k)
    PROVE  LoopInv' /\ UNCHANGED vars
<1>1. /\ UNCHANGED vars /\ Holds(w, t, k) /\ jobs[t][k].pc = "offered"
      /\ jobs' = [jobs EXCEPT ![t][k].pc = "new"]
      /\ proc' = [proc EXCEPT ![w].active = @ \cup {t}, ![w].tokens[t] = k]
  BY DEF ReceiveClaim, Goto
<1>2. /\ proc \in [Workers -> Process] /\ jobs \in [Tasks -> [1..MaxClaims -> Job]]
      /\ k \in 0..MaxClaims
  BY WorkerAssumption DEF LoopInv, LoopType
<1>3. /\ jobs' \in [Tasks -> [1..MaxClaims -> Job]] /\ jobs'[t][k].pc = "new"
      /\ \A u \in Tasks, j \in 1..MaxClaims :
            <<u, j>> # <<t, k>> => jobs'[u][j] = jobs[u][j]
  BY <1>1, JobMoved DEF LoopInv, Points
<1>4. /\ proc' \in [Workers -> Process] /\ \A v \in Workers \ {w} : proc'[v] = proc[v]
      /\ proc'[w].active = proc[w].active \cup {t} /\ proc'[w].state = proc[w].state
      /\ proc'[w].tokens[t] = k
      /\ \A u \in Tasks \ {t} : proc'[w].tokens[u] = proc[w].tokens[u]
  <2> DEFINE q == [proc[w] EXCEPT !.active = proc[w].active \cup {t}, !.tokens[t] = k]
  <2>1. proc' = [proc EXCEPT ![w] = q]
    BY <1>1
  <2>2. /\ q \in Process /\ q.active = proc[w].active \cup {t} /\ q.state = proc[w].state
        /\ q.tokens = [proc[w].tokens EXCEPT ![t] = k]
    BY <1>2 DEF Process
  <2>3. proc[w].tokens \in [Tasks -> 0..MaxClaims]
    BY <1>2 DEF Process
  <2> HIDE DEF q
  <2> QED
    BY <1>2, <2>1, <2>2, <2>3
<1>5. \A v, u, j : Holds(v, u, j)' <=> Holds(v, u, j)
  BY <1>1 DEF vars, Holds
<1>6. StoreInv'
  BY <1>1, IssuedGrows DEF LoopInv
<1>7. TokensHeld'
  BY <1>1, <1>4, <1>5 DEF LoopInv, TokensHeld
<1>8. JobsIssued'
  BY <1>1, <1>3 DEF LoopInv, JobsIssued, vars
<1>9. OneJobEach'
  <2> SUFFICES ASSUME NEW v \in Workers, MaxConcurrency[v] = 1 PROVE OneJob(v)'
    BY DEF OneJobEach
  <2>1. CASE v # w
    <3>1. SameEntries(v)
      BY <1>4, <2>1 DEF SameEntries
    <3>2. ~Holds(v, t, k)
      BY <1>1, <2>1 DEF Holds
    <3> QED
      BY <1>3, <1>5, <2>1, <3>1, <3>2, KeptJob
  <2>2. CASE v = w
    <3>1. <<t, k>> \in JobsOf(w) /\ OneJob(w)
      BY <1>1, <2>2 DEF JobsOf, LoopInv, OneJobEach
    <3>2. \A x \in JobsOf(w)' : x = <<t, k>>
      <4> SUFFICES ASSUME NEW u \in Tasks, NEW j \in 1..MaxClaims,
                          Holds(w, u, j)', jobs'[u][j].pc # "none", <<u, j>> # <<t, k>>
                   PROVE  FALSE
        BY DEF JobsOf
      <4>1. <<u, j>> \in JobsOf(w)
        BY <1>3, <1>5 DEF JobsOf
      <4> QED
        BY <3>1, <4>1 DEF OneJob
    <3>3. proc[w].active = {} /\ proc[w].state # "down"
      BY <1>1, <3>1 DEF OneJob, Alive
    <3>4. proc'[w].active = {t}
      BY <1>4, <3>3
    <3> QED
      BY <1>3, <1>4, <2>2, <3>2, <3>3, <3>4 DEF OneJob, Alive
  <2> QED
    BY <2>1, <2>2
<1> QED
  BY <1>1, <1>3, <1>4, <1>6, <1>7, <1>8, <1>9 DEF LoopInv, LoopType

\* With its jobs gone, a process cannot have more than one.
LEMMA NoJobsLeft ==
    ASSUME NEW w \in Workers,
           \A t \in Tasks, k \in 1..MaxClaims : Holds(w, t, k)' => jobs'[t][k].pc = "none"
    PROVE  OneJob(w)'
<1>1. JobsOf(w)' = {}
  BY DEF JobsOf
<1> QED
  BY <1>1 DEF OneJob

\* A job ends.  Its entries go, which are its own if the process has one job.
LEMMA EndedInv ==
    ASSUME LoopInv, [Next]_vars, NEW w \in Workers, NEW t \in Tasks, NEW k \in 1..MaxClaims,
           Holds(w, t, k), jobs[t][k].pc # "none", Ended(w, t, k)
    PROVE  LoopInv'
<1>1. /\ proc' = [proc EXCEPT ![w].active = @ \ {t}, ![w].tokens[t] = 0,
                              ![w].cancelled = @ \ {t}]
      /\ jobs' = [jobs EXCEPT ![t][k] = NoJob]
  BY DEF Ended
<1>2. /\ proc \in [Workers -> Process] /\ jobs \in [Tasks -> [1..MaxClaims -> Job]]
      /\ 0 \in 0..MaxClaims
  BY WorkerAssumption DEF LoopInv, LoopType
<1>3. /\ jobs' \in [Tasks -> [1..MaxClaims -> Job]] /\ jobs'[t][k].pc = "none"
      /\ \A u \in Tasks, j \in 1..MaxClaims :
            <<u, j>> # <<t, k>> => jobs'[u][j] = jobs[u][j]
  BY <1>1, <1>2, JobFacts
<1>4. /\ proc' \in [Workers -> Process] /\ \A v \in Workers \ {w} : proc'[v] = proc[v]
      /\ \A u \in Tasks : proc'[w].tokens[u] \in {0, proc[w].tokens[u]}
  BY <1>1, <1>2, EntriesDropped
<1>5. LoopType'
  BY <1>3, <1>4 DEF LoopType
<1>6. \A u \in Tasks, j \in 1..MaxClaims :
          \/ jobs'[u][j].pc = "none" /\ Holds(w, u, j)
          \/ jobs'[u][j] = jobs[u][j]
  BY <1>3
<1>7. ASSUME MaxConcurrency[w] = 1 PROVE OneJob(w)'
  <2>1. <<t, k>> \in JobsOf(w) /\ \A x, y \in JobsOf(w) : x = y
    BY <1>7 DEF JobsOf, LoopInv, OneJobEach, OneJob
  <2>2. \A v \in Workers, u \in Tasks : proc'[v].tokens[u] \in {0, proc[v].tokens[u]}
    BY <1>4
  <2>3. \A u \in Tasks, j \in 1..MaxClaims :
            jobs'[u][j].pc # "none" => jobs'[u][j] = jobs[u][j]
    BY <1>6
  <2>4. \A u \in Tasks, j \in 1..MaxClaims :
            jobs'[u][j].pc # "none" => (Holds(w, u, j)' <=> Holds(w, u, j))
    BY <1>5, <2>2, <2>3, LoopBasics
  <2>5. ASSUME NEW u \in Tasks, NEW j \in 1..MaxClaims, Holds(w, u, j)',
               jobs'[u][j].pc # "none"
        PROVE  FALSE
    <3>1. <<u, j>> \in JobsOf(w) /\ <<u, j>> # <<t, k>>
      BY <1>3, <2>3, <2>4, <2>5 DEF JobsOf
    <3> QED
      BY <2>1, <3>1
  <2> QED
    BY <2>5, NoJobsLeft
<1> QED
  BY <1>4, <1>5, <1>6, <1>7, JobsGone

\* A process is gone, and its jobs with it.
LEMMA GoneInv ==
    ASSUME LoopInv, NEW w \in Workers, Crash(w) \/ Exit(w)
    PROVE  LoopInv' /\ UNCHANGED vars
<1> DEFINE gone == [Fresh EXCEPT !.state = "down"]
<1>1. /\ UNCHANGED vars /\ proc' = [proc EXCEPT ![w] = gone]
      /\ jobs' = [t \in Tasks |-> [k \in 1..MaxClaims |->
                     IF Holds(w, t, k) THEN NoJob ELSE jobs[t][k]]]
  BY DEF Crash, Exit
<1>2. gone \in Process /\ \A t \in Tasks : gone.tokens[t] = 0
  BY FreshFacts
<1> HIDE DEF gone
<1>3. /\ proc \in [Workers -> Process] /\ jobs \in [Tasks -> [1..MaxClaims -> Job]]
  BY DEF LoopInv, LoopType
<1>4. /\ proc' \in [Workers -> Process] /\ \A v \in Workers \ {w} : proc'[v] = proc[v]
      /\ \A t \in Tasks : proc'[w].tokens[t] = 0
  BY <1>1, <1>2, <1>3
<1>5. jobs' \in [Tasks -> [1..MaxClaims -> Job]]
  BY <1>1, <1>3, JobFacts
<1>6. \A t \in Tasks, k \in 1..MaxClaims :
          jobs'[t][k] = IF Holds(w, t, k) THEN NoJob ELSE jobs[t][k]
  BY <1>1
<1>7. \A t \in Tasks, k \in 1..MaxClaims :
          \/ jobs'[t][k].pc = "none" /\ Holds(w, t, k)
          \/ jobs'[t][k] = jobs[t][k]
  BY <1>6, JobFacts
<1>8. \A t \in Tasks, k \in 1..MaxClaims : Holds(w, t, k)' => jobs'[t][k].pc = "none"
  BY <1>1, <1>6, JobFacts DEF Holds, vars
<1> QED
  BY <1>1, <1>4, <1>5, <1>7, <1>8, NoJobsLeft, JobsGone DEF LoopType

\* The claim request or its answer is lost; the loop ends, and takes claims that
\* are on their way with it.
LEMMA LostClaimInv ==
    ASSUME LoopInv, NEW w \in Workers,
           BreakLoop(w) \/ \E t \in Tasks, k \in 1..MaxClaims : LoseClaim(w, t, k)
    PROVE  LoopInv' /\ UNCHANGED vars
<1>1. /\ UNCHANGED vars
      /\ \A t \in Tasks, k \in 1..MaxClaims :
            \/ jobs'[t][k].pc = "none" /\ Holds(w, t, k)
            \/ jobs'[t][k] = jobs[t][k]
      /\ jobs' \in [Tasks -> [1..MaxClaims -> Job]]
  <2>1. CASE BreakLoop(w)
    BY <2>1, JobFacts DEF BreakLoop, LoopInv, LoopType
  <2>2. ASSUME NEW t \in Tasks, NEW k \in 1..MaxClaims, LoseClaim(w, t, k)
        PROVE  /\ UNCHANGED vars
               /\ \A u \in Tasks, j \in 1..MaxClaims :
                     \/ jobs'[u][j].pc = "none" /\ Holds(w, u, j)
                     \/ jobs'[u][j] = jobs[u][j]
               /\ jobs' \in [Tasks -> [1..MaxClaims -> Job]]
    BY <2>2, JobFacts DEF LoseClaim, LoopInv, LoopType
  <2> QED
    BY <2>1, <2>2
<1>2. /\ proc' \in [Workers -> Process] /\ \A v \in Workers \ {w} : proc'[v] = proc[v]
      /\ proc'[w].tokens = proc[w].tokens /\ proc'[w].active = proc[w].active
      /\ proc'[w].state = "down" => proc[w].state = "down"
  <2>1. proc \in [Workers -> Process]
    BY DEF LoopInv, LoopType
  <2>2. proc' = proc \/ proc' = [proc EXCEPT ![w].state = "stopping", ![w].heard = {}]
    BY DEF BreakLoop, LoseClaim
  <2> QED
    BY <2>1, <2>2, LoopLeft
<1>3. ASSUME MaxConcurrency[w] = 1 PROVE OneJob(w)'
  <2>1. SameEntries(w)
    BY <1>2 DEF SameEntries
  <2>2. \A t \in Tasks, k \in 1..MaxClaims :
            Holds(w, t, k)' /\ jobs'[t][k].pc # "none" =>
                /\ Holds(w, t, k) /\ jobs[t][k].pc # "none"
                /\ Alive(jobs'[t][k]) <=> Alive(jobs[t][k])
    BY <1>1 DEF vars, Holds
  <2> QED
    BY <1>3, <2>1, <2>2, KeptJob
<1> QED
  BY <1>1, <1>2, <1>3, JobsGone DEF LoopType

\* A heartbeat names claims that were issued to its worker.
LEMMA SendHeartbeatInv ==
    ASSUME LoopInv, NEW w \in Workers, SendHeartbeat(w)
    PROVE  LoopInv' /\ Next
<1>1. proc \in [Workers -> Process] /\ jobs \in [Tasks -> [1..MaxClaims -> Job]]
      /\ 0 \in 0..MaxClaims
  BY WorkerAssumption DEF LoopInv, LoopType
<1>2. RunningClaims(w) \in ClaimsOf(w)
  <2>1. RunningClaims(w) \in [Tasks -> 0..MaxClaims]
    BY <1>1 DEF RunningClaims, Process
  <2>2. \A t \in Tasks : RunningClaims(w)[t] \in {0, proc[w].tokens[t]}
    BY DEF RunningClaims
  <2>3. \A t \in Tasks : RunningClaims(w)[t] = 0 \/ Holds(w, t, RunningClaims(w)[t])
    BY <2>2 DEF LoopInv, TokensHeld
  <2> QED
    BY <2>1, <2>3 DEF ClaimsOf
<1>3. Next
  BY <1>2 DEF SendHeartbeat, Next, WorkerCall
<1>4. PICK h \in SUBSET Tasks : proc' \in {proc, [proc EXCEPT ![w].heard = h]}
  BY DEF SendHeartbeat
<1>5. proc' \in [Workers -> Process] /\ \A v \in Workers : SameEntries(v)
  <2> DEFINE q == [proc[w] EXCEPT !.heard = h]
  <2>1. q \in Process /\ q.active = proc[w].active /\ q.tokens = proc[w].tokens
        /\ q.state = proc[w].state
    BY <1>1 DEF Process
  <2>2. [proc EXCEPT ![w].heard = h] = [proc EXCEPT ![w] = q]
    OBVIOUS
  <2> HIDE DEF q
  <2> QED
    BY <1>1, <1>4, <2>1, <2>2 DEF SameEntries
<1>6. jobs' = jobs
  BY DEF SendHeartbeat
<1> QED
  BY <1>1, <1>3, <1>5, <1>6, GoingOn DEF LoopType, JobsGoOn

\* A process registers again, or starts, which it does without a job.
LEMMA RegisteredInv ==
    ASSUME LoopInv, NEW w \in Workers, RecoverRegistration(w) \/ Start(w)
    PROVE  LoopInv' /\ Next
<1>1. Next
  BY DEF RecoverRegistration, Start, Next, WorkerCall
<1>2. CASE RecoverRegistration(w)
  BY <1>1, <1>2, GoingOn
  DEF RecoverRegistration, loopVars, LoopInv, LoopType, JobsGoOn, SameEntries
<1>3. CASE Start(w)
  <2>1. /\ proc' \in [Workers -> Process] /\ \A v \in Workers \ {w} : proc'[v] = proc[v]
        /\ \A t \in Tasks : proc'[w].tokens[t] = 0
        /\ jobs' = jobs /\ proc[w].state = "down"
    BY <1>3, FreshFacts DEF Start, LoopInv, LoopType
  <2>2. LoopType'
    BY <2>1 DEF LoopInv, LoopType
  <2>3. ASSUME MaxConcurrency[w] = 1 PROVE OneJob(w)'
    <3>1. JobsOf(w) = {}
      BY <2>1, <2>3 DEF LoopInv, OneJobEach, OneJob
    <3>2. \A v \in Workers, t \in Tasks : proc'[v].tokens[t] \in {0, proc[v].tokens[t]}
      BY <2>1
    <3>3. \A t \in Tasks, k \in 1..MaxClaims :
              jobs'[t][k].pc # "none" => (Holds(w, t, k)' <=> Holds(w, t, k))
      BY <1>1, <2>1, <2>2, <3>2, LoopBasics
    <3>4. \A t \in Tasks, k \in 1..MaxClaims : Holds(w, t, k)' => jobs'[t][k].pc = "none"
      <4>1. \A t \in Tasks, k \in 1..MaxClaims : <<t, k>> \notin JobsOf(w)
        BY <3>1
      <4> QED
        BY <2>1, <3>3, <4>1 DEF JobsOf
    <3> QED
      BY <3>4, NoJobsLeft
  <2> QED
    BY <1>1, <2>1, <2>2, <2>3, JobsGone
<1> QED
  BY <1>1, <1>2, <1>3

\* Directors, maintenance and time do nothing to a process.
LEMMA OthersInv ==
    ASSUME LoopInv, OthersNext \/ Passing
    PROVE  LoopInv' /\ Next
<1>1. CASE OthersNext
  <2>1. Next /\ UNCHANGED loopVars
    BY <1>1 DEF OthersNext, Next, DirectorCall
  <2> QED
    BY <2>1, GoingOn DEF loopVars, LoopInv, LoopType, JobsGoOn, SameEntries
<1>2. CASE Passing
  <2>1. Next /\ proc' = proc
    BY <1>2 DEF Passing, Next
  <2>2. jobs \in [Tasks -> [1..MaxClaims -> Job]]
    BY DEF LoopInv, LoopType
  <2>3. \A t \in Tasks, k \in 1..MaxClaims :
            LET j == [jobs[t][k] EXCEPT !.task.budget = Age(@)] IN
            j \in Job /\ j.pc = jobs[t][k].pc
    <3> SUFFICES ASSUME NEW t \in Tasks, NEW k \in 1..MaxClaims
                 PROVE  LET j == [jobs[t][k] EXCEPT !.task.budget = Age(@)] IN
                        j \in Job /\ j.pc = jobs[t][k].pc
      OBVIOUS
    <3> DEFINE c == jobs[t][k].task
               a == [c EXCEPT !.budget = Age(c.budget)]
    <3>1. jobs[t][k] \in Job /\ c \in Carried
      BY <2>2 DEF Job
    <3>2. a \in Carried
      <4>1. Age(c.budget) \in Timer
        BY <3>1, AgeFacts DEF Carried
      <4> QED
        BY <3>1, <4>1 DEF Carried
    <3>3. [jobs[t][k] EXCEPT !.task.budget = Age(@)] = [jobs[t][k] EXCEPT !.task = a]
      OBVIOUS
    <3> HIDE DEF a
    <3> QED
      BY <3>1, <3>2, <3>3 DEF Job
  <2>4. jobs' = [t \in Tasks |-> [k \in 1..MaxClaims |->
                    [jobs[t][k] EXCEPT !.task.budget = Age(@)]]]
    BY <1>2 DEF Passing
  <2>5. /\ jobs' \in [Tasks -> [1..MaxClaims -> Job]]
        /\ \A t \in Tasks, k \in 1..MaxClaims : jobs'[t][k].pc = jobs[t][k].pc
    BY <2>3, <2>4
  <2> QED
    BY <2>1, <2>5, GoingOn DEF LoopInv, LoopType, JobsGoOn, SameEntries
<1> QED
  BY <1>1, <1>2

\* The steps of run, and what may befall the process.
LEMMA LoopStepInv ==
    ASSUME LoopInv, NEW w \in Workers,
           LoopStep(w) \/ BreakLoop(w) \/ SendHeartbeat(w) \/ Crash(w) \/ Exit(w)
    PROVE  LoopInv' /\ [Next]_vars
BY AskClaimInv, ReceiveClaimInv, LostClaimInv, GoneInv, SendHeartbeatInv, RegisteredInv
DEF LoopStep

\* The first state: an empty table and no process.
LEMMA InitLoopInv == LoopInit => LoopInv
<1> SUFFICES ASSUME LoopInit PROVE LoopInv
  OBVIOUS
<1>1. IInv /\ \A t \in Tasks : tasks[t].claim.issued = <<>>
  BY InitIInv DEF LoopInit, Init, Absent
<1>2. LoopType /\ \A w \in Workers, t \in Tasks : proc[w].tokens[t] = 0
  BY FreshFacts, JobFacts DEF LoopInit, LoopType
<1>3. \A t \in Tasks, k \in 1..MaxClaims : jobs[t][k].pc = "none"
  BY JobFacts DEF LoopInit
<1>4. \A w \in Workers : JobsOf(w) = {}
  BY <1>3 DEF JobsOf
<1> QED
  BY <1>1, <1>2, <1>3, <1>4
  DEF LoopInv, StoreInv, UnbornUnclaimed, TokensHeld, JobsIssued, OneJobEach, OneJob

-----------------------------------------------------------------------------
(* Success is a matter of reports, and a run on record one of attachments *)

UnattachedStep ==
    \/ UNCHANGED vars \/ RunMaintenance \/ Tick
    \/ \E w \in Workers :
          \/ RegisterWorker(w) \/ (\E claims : Heartbeat(w, claims)) \/ ClaimTask(w)
          \/ \E t \in Tasks : \E k :
                \/ UpdateTaskStatus(t, w, k)
                \/ \E exceeded \in BOOLEAN : MarkReconciling(t, w, k, exceeded)
    \/ \E t \in Tasks : CancelTask(t) \/ \E q \in Requests : CreateTask(t, q)

\* What such a step makes of a row r, which is m after maintenance.
Unattached(r, m, s) ==
    \/ s = r \/ s = m \/ s = Aged(r) \/ WasStated(r, s)
    \/ WentOn(m, s) \/ WasParked(m, s) \/ \E w \in Workers : WasGranted(m, s, w)

\* Every row after such a step.
LEMMA UnattachedRow ==
    ASSUME IInv, UnattachedStep, NEW t \in Tasks
    PROVE  Unattached(tasks[t], MaintainedRow(tasks[t]), tasks'[t])
<1> DEFINE m == MaintainedRow(tasks[t])
<1>1. RowInv(tasks[t]) /\ RowInv(m) /\ tasks[t] \in Row /\ m \in Row
      /\ \A u \in Tasks : RowInv(tasks[u]) /\ RowInv(Maintained[u]) /\ Maintained[u] \in Row
      /\ Maintained[t] = m
  BY MaintainedRows DEF IInv, RowInv
<1> SUFFICES Unattached(tasks[t], m, tasks'[t])
  OBVIOUS
<1> HIDE DEF m
<1>2. tasks'[t] = m => Unattached(tasks[t], m, tasks'[t])
  BY DEF Unattached
<1>3. tasks'[t] = tasks[t] => Unattached(tasks[t], m, tasks'[t])
  BY DEF Unattached
<1>4. CASE Tick
  BY <1>4 DEF Tick, Unattached
<1>5. ASSUME NEW w \in Workers, NEW claims, Heartbeat(w, claims)
      PROVE  Unattached(tasks[t], m, tasks'[t])
  <2>1. tasks'[t] = Renewed(m, w, claims[t])
    BY <1>1, <1>5 DEF Heartbeat
  <2> QED
    BY <1>1, <2>1, RenewedParts DEF Unattached, m
<1>6. ASSUME NEW w \in Workers, ClaimTask(w)
      PROVE  Unattached(tasks[t], m, tasks'[t])
  <2>1. PICK u \in Tasks :
            /\ ByClaimant(MaintainedRow(tasks[u]), tasks'[u], w)
            /\ \A x \in Tasks \ {u} : tasks'[x] = MaintainedRow(tasks[x])
    BY <1>6, ClaimByRow
  <2>2. CASE u = t
    BY <1>1, <2>1, <2>2, ClaimedParts DEF ByClaimant, Unattached, m
  <2> QED
    BY <1>2, <2>1, <2>2 DEF m
<1>7. ASSUME NEW u \in Tasks, NEW s, Transaction(u, s),
             WentOn(Maintained[u], s) \/ WasParked(Maintained[u], s)
      PROVE  Unattached(tasks[t], m, tasks'[t])
  <2>1. tasks'[t] = IF u = t THEN s ELSE m
    BY <1>1, <1>7 DEF Transaction, Maintained
  <2>2. CASE u = t
    BY <1>1, <1>7, <2>1, <2>2 DEF Unattached, m
  <2> QED
    BY <1>2, <2>1, <2>2
<1>8. ASSUME NEW w \in Workers, NEW u \in Tasks, NEW k, UpdateTaskStatus(u, w, k)
      PROVE  Unattached(tasks[t], m, tasks'[t])
  BY <1>1, <1>7, <1>8, StartedParts DEF UpdateTaskStatus, MayStart
<1>9. ASSUME NEW w \in Workers, NEW u \in Tasks, NEW k, NEW exceeded \in BOOLEAN,
             MarkReconciling(u, w, k, exceeded)
      PROVE  Unattached(tasks[t], m, tasks'[t])
  BY <1>1, <1>7, <1>9, ParkedParts DEF MarkReconciling
<1>10. ASSUME NEW u \in Tasks, CancelTask(u)
       PROVE  Unattached(tasks[t], m, tasks'[t])
  <2>1. tasks'[t] = IF u = t THEN CancelledRow(tasks[t]) ELSE tasks[t]
    BY <1>10 DEF CancelTask, IInv
  <2>2. CASE u = t
    BY <1>1, <1>10, <2>1, <2>2, CancelledParts DEF CancelTask, Unattached
  <2> QED
    BY <1>3, <2>1, <2>2
<1>11. ASSUME NEW u \in Tasks, NEW q \in Requests, CreateTask(u, q)
       PROVE  Unattached(tasks[t], m, tasks'[t])
  <2> DEFINE present == {x \in Tasks : tasks[x].status # "absent"}
  <2>1. Cardinality(present) \in Int
    BY TasksAssumption, FS_Subset, FS_CardinalityType
  <2>2. tasks' = [tasks EXCEPT ![u] = Created(q, Cardinality(present))]
        /\ tasks[u].status = "absent"
    BY <1>11 DEF CreateTask
  <2> HIDE DEF present
  <2>3. CASE u = t
    <3>1. tasks'[t] = Created(q, Cardinality(present))
      BY <2>2, <2>3 DEF IInv
    <3> QED
      BY <2>1, <2>2, <2>3, <3>1, Zenon DEF Unattached, WasStated
  <2> QED
    BY <1>3, <2>2, <2>3 DEF IInv
<1>12. UNCHANGED vars \/ RunMaintenance \/ (\E w \in Workers : RegisterWorker(w))
          => Unattached(tasks[t], m, tasks'[t])
  BY <1>1, <1>2, <1>3 DEF RunMaintenance, RegisterWorker, vars
<1> QED
  BY <1>4, <1>5, <1>6, <1>8, <1>9, <1>10, <1>11, <1>12, Zenon DEF UnattachedStep

\* A row that has a run has the one it had, and is in the same attempt.
SameRun(r, s) ==
    s.remote.run # NoRun => s.remote.run = r.remote.run /\ s.attempt.count = r.attempt.count

\* No row succeeds in such a step, and none gets a run.
LEMMA UnattachedEffect ==
    ASSUME NEW r, RowInv(r), NEW s, Unattached(r, MaintainedRow(r), s)
    PROVE  /\ s.status = "succeeded" => r.status = "succeeded"
           /\ SameRun(r, s)
<1> DEFINE m == MaintainedRow(r)
<1>1. m = r \/ (r.status \in Active /\ Swept(r, m)) \/ Kept(r, m)
  BY MaintainedParts
<1>2. RowInv(m) /\ r \in Row
  BY MaintainedInv DEF RowInv
<1>3. Unattached(r, m, s)
  OBVIOUS
<1> HIDE DEF m
<1>4. NoRemote.run = NoRun /\ \A q, rank : /\ Created(q, rank).remote = NoRemote
                                           /\ Created(q, rank).status # "succeeded"
  BY DEF NoRemote, Created, Absent
<1>5. /\ m.status = "succeeded" => r.status = "succeeded"
      /\ SameRun(r, m)
  BY <1>1, <1>4 DEF Swept, Kept, SameRun, SameTask
<1>6. CASE s = r \/ s = Aged(r) \/ WasStated(r, s)
  <2>1. CASE s = r \/ s = Aged(r)
    BY <1>2, <2>1, AgedParts DEF SameRun, SameTask
  <2>2. CASE WasStated(r, s)
    <3>1. \/ s.remote = NoRemote /\ s.status # "succeeded"
          \/ /\ s.attempt.count = r.attempt.count /\ s.remote.run = r.remote.run
             /\ s.status \in {r.status, "cancelled", "cancel_requested"}
      BY <1>4, <2>2, Zenon DEF WasStated, SameTask
    <3> QED
      BY <1>4, <3>1 DEF SameRun
  <2> QED
    BY <1>6, <2>1, <2>2
<1>7. CASE s = m \/ WentOn(m, s) \/ WasParked(m, s)
  BY <1>5, <1>7 DEF WentOn, WasParked, SameRun, SameTask
<1>8. ASSUME NEW w \in Workers, WasGranted(m, s, w)
      PROVE  s.status # "succeeded" /\ SameRun(r, s)
  BY <1>5, <1>8 DEF WasGranted, SameRun
<1> QED
  BY <1>3, <1>6, <1>7, <1>8 DEF Unattached

\* What an attachment makes of the rows.
LEMMA AttachmentEffect ==
    ASSUME IInv, NEW w \in Workers, NEW u \in Tasks, NEW k \in Nat, NEW run \in Runs,
           AttachRemoteRun(u, w, k, run), NEW t \in Tasks
    PROVE  /\ tasks'[t].status = "succeeded" => tasks[t].status = "succeeded"
           /\ t # u => SameRun(tasks[t], tasks'[t])
           /\ tasks'[u].remote.run = run /\ k = Len(tasks[u].claim.issued)
           /\ tasks'[u].attempt.count = tasks[u].attempt.count
<1> DEFINE m == MaintainedRow(tasks[u])
<1>1. /\ RowInv(tasks[u]) /\ RowInv(m) /\ RowInv(tasks[t]) /\ m \in Row
      /\ MayAttach(m, w, k, run) /\ tasks'[u] = Attached(m, run)
      /\ t # u => tasks'[t] = MaintainedRow(tasks[t])
  BY MaintainedRows DEF IInv, RowInv, AttachRemoteRun, Transaction
<1>2. t # u => /\ tasks'[t].status = "succeeded" => tasks[t].status = "succeeded"
               /\ SameRun(tasks[t], tasks'[t])
  BY <1>1, UnattachedEffect DEF Unattached
<1>3. m = tasks[u] \/ (tasks[u].status \in Active /\ Swept(tasks[u], m)) \/ Kept(tasks[u], m)
  BY <1>1, MaintainedParts
<1> HIDE DEF m
<1>4. Attached(m, run).remote.run = run /\ WasAttached(m, Attached(m, run))
  BY <1>1, AttachedParts DEF Attached, Row, NoRemote
<1>5. m.claim.issued = tasks[u].claim.issued /\ m.attempt.count = tasks[u].attempt.count
  BY <1>3 DEF Swept, Kept, SameTask
<1>6. k = Len(m.claim.issued)
  BY <1>1 DEF MayAttach, RequireClaim, RowInv, HasLiveClaim
<1> QED
  BY <1>1, <1>2, <1>4, <1>5, <1>6 DEF WasAttached, SameTask

\* No row succeeds but by a report.
LEMMA UnreportedSucceeds ==
    ASSUME IInv, UnattachedStep, NEW t \in Tasks
    PROVE  /\ tasks'[t].status = "succeeded" => tasks[t].status = "succeeded"
           /\ SameRun(tasks[t], tasks'[t])
BY UnattachedRow, UnattachedEffect DEF IInv

\* A report makes a success of the row it is about, with its newest claim, if
\* it says so.
LEMMA ReportSucceeds ==
    ASSUME IInv, NEW t \in Tasks, NEW w \in Workers, NEW k \in Nat,
           NEW run \in Runs \cup {NoRun}, NEW outcome \in Terminal, NEW retryable \in BOOLEAN,
           ReportResult(t, w, k, run, outcome, retryable),
           NEW u \in Tasks, tasks'[u].status = "succeeded"
    PROVE  \/ tasks[u].status = "succeeded"
           \/ /\ u = t /\ outcome = "succeeded"
              /\ k = Len(tasks'[t].claim.issued) /\ run = tasks'[t].remote.run
<1> DEFINE m == MaintainedRow(tasks[u])
           s == Reported(m, outcome, retryable)
           f == [Finished(m, outcome) EXCEPT !.remote.retry = NoTime]
<1>1. RowInv(tasks[u]) /\ RowInv(m) /\ m \in Row /\ m.claim \in Claim /\ Maintained[u] = m
  BY MaintainedRows DEF IInv, RowInv, Row
<1>2. CASE u # t
  <2>1. tasks'[u] = m
    BY <1>1, <1>2, MaintainedRows DEF ReportResult, Transaction
  <2> HIDE DEF m
  <2> QED
    BY <1>1, <2>1, UnattachedEffect DEF m, Unattached
<1>3. CASE u = t
  <2>1. tasks'[u] = s /\ MayReport(m, w, k, run, outcome)
    BY <1>1, <1>3, MaintainedRows DEF ReportResult, Transaction
  <2>2. s = Requeued(m) \/ s = f
    BY Zenon DEF Reported
  <2>3. Requeued(m).status = "pending"
    BY <1>1, RequeuedParts
  <2>4. f.status = outcome /\ f.claim = Released(m.claim) /\ f.remote.run = m.remote.run
    BY <1>1, WithoutRetryParts
  <2>5. Released(m.claim).issued = m.claim.issued
    BY <1>1, ReleasedParts
  <2>6. k = Len(m.claim.issued) /\ run = m.remote.run
    BY <1>1, <2>1 DEF MayReport, RequireClaim, RowInv, HasLiveClaim
  <2> HIDE DEF m, s, f
  <2> QED
    BY <1>3, <2>1, <2>2, <2>3, <2>4, <2>5, <2>6
<1> QED
  BY <1>2, <1>3

\* A report does not record a run.
LEMMA ReportSameRun ==
    ASSUME IInv, NEW t \in Tasks, NEW w \in Workers, NEW k \in Nat,
           NEW run \in Runs \cup {NoRun}, NEW outcome \in Terminal, NEW retryable \in BOOLEAN,
           ReportResult(t, w, k, run, outcome, retryable), NEW u \in Tasks
    PROVE  SameRun(tasks[u], tasks'[u])
<1> DEFINE m == MaintainedRow(tasks[u])
<1>1. RowInv(tasks[u]) /\ RowInv(m) /\ Maintained[u] = m
  BY MaintainedRows DEF IInv, RowInv
<1>2. m = tasks[u] \/ (tasks[u].status \in Active /\ Swept(tasks[u], m)) \/ Kept(tasks[u], m)
  BY <1>1, MaintainedParts
<1>3. CASE u # t
  <2>1. tasks'[u] = m
    BY <1>1, <1>3, MaintainedRows DEF ReportResult, Transaction
  <2> HIDE DEF m
  <2> QED
    BY <1>1, <2>1, UnattachedEffect DEF m, Unattached
<1>4. CASE u = t
  <2>1. /\ tasks'[u] = Reported(m, outcome, retryable)
        /\ MayReport(m, w, k, run, outcome)
    BY <1>1, <1>4, MaintainedRows DEF ReportResult, Transaction
  <2> HIDE DEF m
  <2>2. WasReported(m, tasks'[u])
    BY <1>1, <2>1, ReportedParts
  <2>3. NoRemote.run = NoRun
    BY DEF NoRemote
  <2>4. m.attempt.count = tasks[u].attempt.count
        /\ (m.remote.run # NoRun => m.remote.run = tasks[u].remote.run)
    BY <1>2, <2>3 DEF Swept, Kept, SameTask
  <2> QED
    BY <2>2, <2>3, <2>4 DEF WasReported, SameRun, SameTask
<1> QED
  BY <1>3, <1>4

\* The loop starts no execution: only a job does.
LEMMA LoopStartsNone ==
    ASSUME LoopInv, NEW t \in Tasks, tasks'[t].status = "running",
           \/ \E w \in Workers : LoopStep(w) \/ BreakLoop(w) \/ SendHeartbeat(w)
           \/ OthersNext \/ Passing
    PROVE  tasks[t].status = "running"
<1> DEFINE m == MaintainedRow(tasks[t])
<1>1. /\ RowInv(tasks[t]) /\ RowInv(m) /\ tasks[t] \in Row /\ m \in Row
      /\ Maintained[t] = m
  BY MaintainedRows DEF LoopInv, StoreInv, IInv, RowInv
<1>2. m.status = "running" => tasks[t].status = "running"
  BY <1>1, MaintainedParts DEF Swept, Kept
<1> HIDE DEF m
<1>3. CASE tasks' = tasks \/ tasks' = Maintained
  BY <1>1, <1>2, <1>3
<1>4. CASE Tick
  BY <1>1, <1>4, AgedParts DEF Tick
<1>5. ASSUME NEW w \in Workers, NEW claims, Heartbeat(w, claims)
      PROVE  tasks[t].status = "running"
  <2>1. tasks'[t] = Renewed(m, w, claims[t])
    BY <1>1, <1>5 DEF Heartbeat
  <2>2. Renewed(m, w, claims[t]).status = m.status
    BY <1>1 DEF Renewed, Row
  <2> QED
    BY <1>2, <2>1, <2>2
<1>6. ASSUME NEW w \in Workers, ClaimTask(w)
      PROVE  tasks[t].status = "running"
  <2>1. PICK u \in Tasks :
            /\ ByClaimant(MaintainedRow(tasks[u]), tasks'[u], w)
            /\ \A x \in Tasks \ {u} : tasks'[x] = MaintainedRow(tasks[x])
    BY <1>6, ClaimByRow DEF LoopInv, StoreInv
  <2>2. CASE u = t
    BY <1>1, <2>1, <2>2, ClaimedParts DEF ByClaimant, WasGranted, m
  <2> QED
    BY <1>2, <2>1, <2>2 DEF m
<1>7. ASSUME NEW u \in Tasks, CancelTask(u)
      PROVE  tasks[t].status = "running"
  <2>1. tasks'[t] = IF u = t THEN CancelledRow(tasks[t]) ELSE tasks[t]
    BY <1>7 DEF CancelTask, LoopInv, StoreInv, IInv
  <2>2. u = t => WasStated(tasks[t], CancelledRow(tasks[t])) /\ tasks[t].status # "absent"
    BY <1>1, <1>7, CancelledParts DEF CancelTask
  <2> QED
    BY <2>1, <2>2 DEF WasStated
<1>8. ASSUME NEW u \in Tasks, NEW q \in Requests, CreateTask(u, q)
      PROVE  tasks[t].status = "running"
  <2>1. \/ tasks'[t] = tasks[t]
        \/ \E rank : tasks'[t] = Created(q, rank)
    BY <1>8 DEF CreateTask, LoopInv, StoreInv, IInv
  <2>2. \A rank : Created(q, rank).status # "running"
    BY DEF Created, Absent
  <2> QED
    BY <2>1, <2>2
<1> QED
  BY <1>3, <1>4, <1>5, <1>6, <1>7, <1>8
  DEF LoopStep, AskClaim, ReceiveClaim, LoseClaim, Start, RecoverRegistration, RegisterWorker,
      BreakLoop, SendHeartbeat, OthersNext, RunMaintenance, Passing, vars

\* The loop makes no report, and moves jobs only at their beginning.  It hears of
\* cancellations that have been asked for, and of no others.
LEMMA LoopEffects ==
    ASSUME LoopInv,
           \/ \E w \in Workers : LoopStep(w) \/ BreakLoop(w) \/ SendHeartbeat(w)
           \/ OthersNext \/ Passing
    PROVE  /\ LoopInv' /\ [Next]_vars /\ UnattachedStep /\ crashes' = crashes
           /\ \A t \in Tasks, k \in 1..MaxClaims : LoopMoved(t, k)
           /\ \A v \in Workers : proc'[v].cancelled \subseteq proc[v].cancelled
           /\ \A v \in Workers, t \in Tasks : t \in proc'[v].heard =>
                 t \in proc[v].heard \/ tasks'[t].status = "cancel_requested"
           /\ \A t \in Tasks : tasks'[t].status = "running" => tasks[t].status = "running"
<1>1. LoopInv' /\ [Next]_vars
  BY LoopStepInv, OthersInv
<1>2. UnattachedStep /\ crashes' = crashes
  BY DEF LoopStep, AskClaim, ReceiveClaim, LoseClaim, Start, RecoverRegistration, BreakLoop,
         SendHeartbeat, OthersNext, Passing, UnattachedStep, loopVars
<1>3. \A t \in Tasks, k \in 1..MaxClaims : LoopMoved(t, k)
  <2>1. ASSUME NEW w \in Workers, AskClaim(w)
        PROVE  \A t \in Tasks, k \in 1..MaxClaims : LoopMoved(t, k)
    BY <2>1, AskClaimInv DEF LoopMoved
  <2>2. ASSUME NEW w \in Workers, NEW u \in Tasks, NEW j \in 1..MaxClaims, ReceiveClaim(w, u, j)
        PROVE  \A t \in Tasks, k \in 1..MaxClaims : LoopMoved(t, k)
    <3>1. jobs' = [jobs EXCEPT ![u][j].pc = "new"] /\ jobs[u][j].pc = "offered"
      BY <2>2 DEF ReceiveClaim, Goto
    <3>2. /\ jobs'[u][j].pc = "new" /\ jobs'[u][j].task = jobs[u][j].task
          /\ \A t \in Tasks, k \in 1..MaxClaims :
                <<t, k>> # <<u, j>> => jobs'[t][k] = jobs[t][k]
      BY <3>1, JobMoved DEF LoopInv, Points
    <3> QED
      BY <3>1, <3>2 DEF LoopMoved, SameJob, Received
  <2>3. ASSUME NEW w \in Workers, NEW u \in Tasks, NEW j \in 1..MaxClaims, LoseClaim(w, u, j)
        PROVE  \A t \in Tasks, k \in 1..MaxClaims : LoopMoved(t, k)
    BY <2>3, JobFacts DEF LoseClaim, LoopInv, LoopType, LoopMoved, SameJob, Lost
  <2>4. ASSUME NEW w \in Workers, BreakLoop(w)
        PROVE  \A t \in Tasks, k \in 1..MaxClaims : LoopMoved(t, k)
    BY <2>4, JobFacts DEF BreakLoop, LoopMoved, SameJob, Lost
  <2>5. CASE jobs' = jobs
    BY <2>5 DEF LoopMoved, SameJob
  <2>6. CASE Passing
    <3>1. ASSUME NEW t \in Tasks, NEW k \in 1..MaxClaims
          PROVE  LET j == [jobs[t][k] EXCEPT !.task.budget = Age(@)] IN
                 /\ j.pc = jobs[t][k].pc
                 /\ j.task = [jobs[t][k].task EXCEPT !.budget = Age(jobs[t][k].task.budget)]
      BY DEF LoopInv, LoopType, Job
    <3> QED
      BY <2>6, <3>1 DEF Passing, LoopMoved, SameJob
  <2> QED
    BY <2>1, <2>2, <2>3, <2>4, <2>5, <2>6
    DEF LoopStep, Start, RecoverRegistration, SendHeartbeat, OthersNext, loopVars
<1>4. \A v \in Workers : proc'[v].cancelled \subseteq proc[v].cancelled
  <2>1. proc \in [Workers -> Process]
    BY DEF LoopInv, LoopType
  <2>2. ASSUME NEW w \in Workers, NEW t \in Tasks, NEW k \in 1..MaxClaims, ReceiveClaim(w, t, k)
        PROVE  \A v \in Workers : proc'[v].cancelled \subseteq proc[v].cancelled
    <3>1. k \in 0..MaxClaims
      BY WorkerAssumption
    <3> QED
      BY <2>1, <2>2, <3>1, EntryMade DEF ReceiveClaim
  <2>3. ASSUME NEW w \in Workers, BreakLoop(w)
        PROVE  \A v \in Workers : proc'[v].cancelled \subseteq proc[v].cancelled
    BY <2>1, <2>3, LoopLeft DEF BreakLoop
  <2>4. ASSUME NEW w \in Workers, Start(w)
        PROVE  \A v \in Workers : proc'[v].cancelled \subseteq proc[v].cancelled
    BY <2>1, <2>4 DEF Start, Fresh
  <2>5. ASSUME NEW w \in Workers, SendHeartbeat(w)
        PROVE  \A v \in Workers : proc'[v].cancelled \subseteq proc[v].cancelled
    BY <2>1, <2>5 DEF SendHeartbeat, Process
  <2> QED
    BY <2>2, <2>3, <2>4, <2>5
    DEF LoopStep, AskClaim, LoseClaim, RecoverRegistration, OthersNext, Passing, loopVars
<1>5. \A v \in Workers, t \in Tasks : t \in proc'[v].heard =>
          t \in proc[v].heard \/ tasks'[t].status = "cancel_requested"
  <2> SUFFICES ASSUME NEW v \in Workers, NEW u \in Tasks, u \in proc'[v].heard,
                      u \notin proc[v].heard
               PROVE  tasks'[u].status = "cancel_requested"
    OBVIOUS
  <2>1. proc \in [Workers -> Process]
    BY DEF LoopInv, LoopType
  <2>2. ASSUME NEW w \in Workers, NEW t \in Tasks, NEW k \in 1..MaxClaims, ReceiveClaim(w, t, k)
        PROVE  FALSE
    <3>1. k \in 0..MaxClaims
      BY WorkerAssumption
    <3> QED
      BY <2>1, <2>2, <3>1, EntryMade DEF ReceiveClaim
  <2>3. ASSUME NEW w \in Workers, BreakLoop(w) PROVE FALSE
    BY <2>1, <2>3, LoopLeft DEF BreakLoop
  <2>4. ASSUME NEW w \in Workers, Start(w) PROVE FALSE
    BY <2>1, <2>4 DEF Start, Fresh
  <2>5. ASSUME NEW w \in Workers, SendHeartbeat(w)
        PROVE  tasks'[u].status = "cancel_requested"
    <3> DEFINE asked == {t \in Tasks : /\ tasks'[t].claim.by = w
                                       /\ tasks'[t].status = "cancel_requested"}
    <3>1. proc' = [proc EXCEPT ![w].heard = asked]
      BY <2>5 DEF SendHeartbeat
    <3>2. u \in asked
      <4> HIDE DEF asked
      <4> QED
        BY <2>1, <3>1 DEF Process
    <3> QED
      BY <3>2
  <2> QED
    BY <2>2, <2>3, <2>4, <2>5
    DEF LoopStep, AskClaim, LoseClaim, RecoverRegistration, OthersNext, Passing, loopVars
<1>6. \A t \in Tasks : tasks'[t].status = "running" => tasks[t].status = "running"
  BY LoopStartsNone
<1> QED
  BY <1>1, <1>2, <1>3, <1>4, <1>5, <1>6

=============================================================================
