# hermes-task-orchestrator: specifications

TLA+ modules for the coordinator's task store, for the Telegram process that
fronts it, and for the workers that execute its tasks, model-checked with TLC
and proved with TLAPS. Paths below are relative to the repository; `storage.py`
and the like are in `src/hermes/`.

## The system

A **coordinator** (FastAPI on SQLite) keeps tasks. **Directors** (the Telegram
bot, or any holder of the director key) create and cancel them. **Planners** (a
Codex session) claim tasks that need a plan. **Workers** claim tasks and execute
them, either as a local process or as a run on a Hermes **gateway**, which
outlives the worker. Every party talks to the coordinator over HTTP; nothing is
pushed. The store is the only shared state.

| part | state | operations | talks to | hard parts |
| --- | --- | --- | --- | --- |
| task store (`storage.py`) | tables tasks, notifications, workers, worker_routes, task_events | claim, start, attach run, reconcile, report, heartbeat; planner claim, extend, complete, fail; create, cancel; list, acknowledge; register; maintenance | nobody: one SQLite transaction per call | leases, stale tokens, two retry budgets, lost remote runs, cancellation racing all of it, seven ways into a terminal status |
| coordinator (`coordinator.py`) | none | a handler per store method, maintenance loop | store | the loop is what moves a task nobody calls about |
| Telegram bot (`telegram_bot.py`) | offset in memory and in a file | updates_loop, notifications_loop, commands | Telegram, coordinator | lost answers, redelivery, crash between two steps, one bad chat |
| gateway worker (`gateway_worker.py`, `gateway_adapter.py`) | active, claim_tokens, cancelled | claim, start run, attach, poll, stop, reconcile, report; heartbeat | coordinator, gateway | an await between any two steps; run started but not bound; claim lost meanwhile |
| command and unified worker (`worker.py`) | the same, and processes | claim, run process, report; heartbeat | coordinator | the same, cancellation against completion |
| planner client (`planner.py`) | none | one request per method | coordinator | none of its own |
| authentication (`security.py`, nonces) | nonces | verify | | not a protocol question here |
| configuration, API schemas, mock command | none | parsing | | |

What makes each part correct:

* **store**: a claim token is live only for the newest claim; a claim is
  superseded only after its lease; a recorded run belongs to the current
  attempt; budgets hold; a row in reconciliation can leave it; a settled task is
  final and its outcome is in the outbox once; a pending cancellation is not
  overtaken; a worker is never over its capacity.
* **coordinator**: started and cancelled tasks come to an end although no worker
  ever calls again.
* **bot**: however often messages are delivered, tasks are made in their order,
  nothing is passed over unanswered, an outbox entry is acknowledged only after
  delivery, and everything arrives in the end.
* **workers**: a success is one of the run, or child, of the attempt that is
  credited with it; the run on record belongs to the attempt on record; a run
  that may be going on is not let go of; a cancellation reaches the run or the
  child whenever it is heard; whatever fails, the task is settled in the end.

## Modules

| module | what it is |
| --- | --- |
| `TaskRow` | one row of the tasks table with its outbox entry, and what each SQL statement of the store makes of a row |
| `TaskStore` | the store: state, one action per public method, specification; when the statements of `TaskRow` run |
| `TaskStoreProperties` | type invariant, safety, action and liveness properties, refinement mapping to `TaskLifecycle` |
| `TaskLifecycle` | abstract specification: what a task goes through, without tokens, leases or sweeps |
| `WorkerLoop` | extends `TaskStore` by worker processes: the unified control loop, heartbeats, registration, crashes, and the dictionaries that loop and jobs share |
| `GatewayWorker`, `GatewayWorkerProperties` | `run_task` on a Hermes gateway, on top of `WorkerLoop`; what worker, coordinator and gateway promise together |
| `LocalWorker`, `LocalWorkerProperties` | `run_task` with a child process, on top of `WorkerLoop` |
| `DirectorBot`, `DirectorBotProperties` | the Telegram process |
| `MCTaskStore`, `MCGatewayWorker`, `MCLocalWorker`, `MCDirectorBot` | instances for TLC |
| `TaskRowProofs`, `TaskStoreProofs` | row operators preserve the row invariant; invariants of `Spec` |
| `TaskStoreStepProofs` | what a step makes of a row: the action properties, and the capacity of a worker |
| `TaskLifecycleProofs` | `Spec` implements `TaskLifecycle` |
| `WorkerLoopProofs` | loop, jobs and dictionaries agree, whatever `run_task` is |
| `GatewayWorkerProofs`, `LocalWorkerProofs` | the invariants of either runtime |
| `DirectorBotProofs` | the invariants of the Telegram process |

`TaskStore` is composed with a worker by EXTENDS: the worker's variables are
added to the store's, and each call to the coordinator is the conjunction of an
action of `TaskStore` with the worker's own step. `TaskStore` on its own allows
any holder of a token to call at any time, so it is the most general client; that
the runtimes are instances of it is proved (`GatewayImplementsStore`,
`LocalImplementsStore`).

Definitions whose comment begins with "Fault" are mutated forms of the next
definition; no specification uses them. They serve to test that a property
notices the bug.

### The task store

`tasks[t]` is a row: `status` and groups of columns (`planner`, `claim`,
`attempt`, `remote`, `outbox`). `absent` stands for "not inserted yet".
`silence[w]` is the time worker w has left before eviction. Correspondences
worth knowing:

* **One method, one action.** Most methods are one `BEGIN IMMEDIATE` transaction
  that runs `_maintenance` first, so their actions start from `Maintained`, the
  rows after the planner sweep, the lease sweep and the reconciliation sweep, in
  that order. `cancel_task` is a transaction without maintenance. `create_task`,
  `extend_planning_lease`, `acknowledge_notification` and `register_worker` run
  in autocommit mode; each changes tasks and the outbox by one statement that
  checks its own conditions, so each is one action as well (the statements on
  routes and events are outside the model). A refused call rolls back
  (stuttering) or commits only the maintenance (`RunMaintenance`).
  `record_progress` changes only the phase, so it is a `RunMaintenance` step too.
* **Now is the time of the commit.** The code reads the clock just before it
  takes the write lock and may wait for the lock (up to the busy timeout of ten
  seconds) with an old value. The model reads it under the lock.
* **Anyone may call late.** A worker may present any token ever issued to it,
  a planner any planner token; `claim.issued` records who was issued which
  token. This subsumes lost, repeated and delayed calls and crashed callers, and
  makes no assumption on the worker runtimes. Planner tokens are numbered by the
  planner attempt that they open: one is issued per attempt.
* **Time.** Code compares stored instants with now by `<` and `<=`. The model
  stores the time left, down to -1 for "past"; 0 is "now". Both comparisons stay
  exact and no clock bound is needed. `NoTime` is NULL. Timers of settled rows
  stop, since nothing reads them.
* **Heartbeats** name claims by token and, in an older form, by task id only;
  the latter touches only rows without a token, hence the `{0, k}` in `Renewed`.
* **Routing.** Which worker may take which task, and whether through a gateway
  route, is the constant `RouteOf`; the ORDER BY is kept. Candidates that differ
  only in routing details are not told apart. Registration therefore only
  touches `silence`. `max_concurrency` is a constant: a worker that registers
  again with a smaller value may for a while hold more than that.
* **Branches that cannot happen.** `report_result` accepts a reconciling row and
  returns a terminal one; `_require_claim` before it never passes for either,
  because a live token implies an active status (`ClaimsAreExclusive`). The
  model keeps the guard as it is written.

### The Telegram process

Two coroutines of one process, one action per await: what the code does between
two awaits is one step. Requests fail before or after they take effect. A
message is its update id; `KindOf` says what `handle_update` and `handle_text`
make of it, and the command grammar is not modelled. `offset` is the variable in
memory (0 for None), `saved` the file. `Crash` clears memory; `Restart` reads
the file, or nothing if it is unreadable. Of the coordinator the module has
`create_task` under an idempotency key and the outbox. A message of several
chunks, the page size of 100 and the stopping event are left out: the first two
because the same failure (a request of a pass fails) ends the pass either way;
stopping is a crash. A crash between moving the offset in memory and in the file
is the same as one before moving it.

### The workers

`WorkerLoop` is `UnifiedWorkerRuntime` of `worker.py`. `run`, `heartbeat_loop`
and every `run_task` are coroutines of one process; an action is what the code
does between two awaits. A process `proc[w]` has what they share: `active`,
`claim_tokens` (0 for no entry), `cancelled`, all keyed by task id, and what is
left of the last heartbeat answer. Claim k of task t becomes job `jobs[t][k]`, in
the process of the worker the claim was issued to.

* **Requests.** A request to the coordinator is the store's step and the worker's
  step at once, by `Calls`: it is answered with success, with a conflict (404,
  409: the store's guard fails), with another error, or it is lost, before or
  after it takes effect. Each branch goes where the code goes: a handler of its
  own, `HTTPStatusError`, or the general handler. The claim is the exception: its
  answer takes a step to arrive ("offered"), because the code lets go of a claim
  whose answer is lost (`httpx.ReadTimeout`) without knowing of it.
* **The loop** claims while it has room, sends heartbeats for what is in
  `active` with the tokens of `claim_tokens`, registers again after a 404, and is
  left for good (`BreakLoop`) by any other failure of a claim request: heartbeats
  end, jobs go on, and the process waits for them. A crash takes jobs and
  dictionaries, not runs.
* **Keys.** Two jobs of one task may live in one process: the first has lost its
  claim and the worker claimed the task again. `ReceiveClaim` then overwrites the
  entries of the older job, and the end of either removes those of the other
  (`Ended`), which is a `KeyError` in the gateway runtime (`LoseToken`).
* **Gateway runtime.** `work[t][k]` has the locals of `run_task`: the run, whether
  it counts as bound, the status last seen, and why the job stops, reports or
  reconciles. The token is read from the dictionary at each call, as in the code.
  Progress reports change nothing here, but for the reading of the token, which
  the loop has in `LoseToken`. A session id that the gateway changes is the
  `AttachSession` step.
* **The gateway** is external. It is modelled from the requests that the worker
  sends and from what it makes of the answers: runs have an idempotency key, end
  by themselves, stop some time after a stop request, and may be forgotten (404).
* **Process runtime.** `children[t][k]` is the child of a job, `processes[w][t]`
  the entry through which a cancellation or a timeout terminates "the child of
  the task", whichever that is; `locals` has the verdict to be reported. The
  token is a local variable here. A child that was sent SIGTERM is killed after
  five seconds, so it ends; other children need not.

`Faults` says what may fail in a run, so that a run can be about some failures
and stay small; the proofs are for every set of faults. Each element is
explained in `WorkerLoop`.

## Runs

The instances are in the MC modules and the `.cfg` files. Deadlock is checked in
all of them: time passes, or the bot asks for updates, so it says little.

| run | instance | distinct states | what it shows |
| --- | --- | --- | --- |
| `Deep` | store: 1 task, planned first or not; 2 workers, 2 runs, 2 attempts, 4 claims; symmetry of workers and of runs | 707,560 | every store invariant and action property, and that the store implements `TaskLifecycle` |
| `Pair` | store: 2 tasks, 1 worker with room for one, both kinds of route, 2 claims; fairness, no symmetry | 294,870 | `CapacityRespected`; started tasks and pending cancellations come to an end |
| `Gateway` | 2 workers with room for one each, 1 task, 2 runs, 2 attempts, 2 claims; calls lost and refused, loop left; symmetry of workers and of runs | 1,751,515 | successes are true, the run on record is of the attempt though an older execution of the task goes on elsewhere, no run strays, live runs are kept |
| `GatewayProgress` | room for two, 1 task, 1 attempt, 1 run, 2 claims, 1 crash; requests to the gateway and to the coordinator are lost or refused, runs forgotten, task not served; fairness | 138,303 | tasks are settled, runs of cancelled tasks are stopped, with two jobs under one token |
| `Local` | 1 worker with room for one, 1 task, 2 attempts, 2 claims, 1 crash; calls lost and refused, loop left, task not served; fairness | 38,913 | successes are true, cancellations are requested and obeyed, one child at a time, none left behind, none for ever |
| `Messages` | bot: 5 messages of every kind, 1 crash, a chat that may block | 730,090 | order, nothing passed over, success told only of a task that exists, acknowledged only after delivery |
| `Replies` | bot: 2 messages, 1 crash, fairness | 32,832 | answers and outcomes arrive |

Five more runs are expected to fail; see "Where code and documentation differ".

**Why these bounds are enough.** The invariants of the store but one speak of a
single row, and rows meet only in the choice of a candidate and in the capacity
count, so one task covers them and `Pair` covers the meeting. Four claims and two
attempts allow: claim, lose, claim back, lose again, requeue, claim anew. Two
workers and two runs are needed for a stale owner and a foreign run. Leases of 1,
a timeout and grace of 2 make each of "before", "at" and "after" occur for every
timer, in every order with the others. With a worker process on top the timers
are 1 and there is one task: dictionaries are keyed by task id, so tasks of one
process meet only in its room, while two jobs of one task meet in every entry.
Two workers and two claims let an execution that has lost its claim meet the
execution of a newer one, with each at any point, as a second attempt or as a
claim back; two runs are one per attempt. In `Gateway` and `GatewayProgress`
workers are evicted as soon as time passes without a word of them, and the
deadline of a reconciliation is the instant it began at (it is past when time goes
on), so that both happen within two claims. Faults are bounded by nothing but the
claims; only crashes are counted. `MaxClaims`, `MaxCrashes` and `Ends` are the
only bounds the code does not have. The first cuts claims, never sweeps, calls or
reports. `Ends` lists the ways in which a run of the gateway may end: `Gateway`
needs a success and an end that the worker has to translate (`interrupted`),
liveness only that runs may end, and what is proved is for every set of them. The five
messages are of all four kinds, with a task at either end, so that every kind is
in the middle of a batch that fails. `TaskSettles` is checked
with a single attempt: with more, the last claim the bound allows may be spent on
a reconciliation, and the task waits for a claim that only the bound withholds.
What the bounds leave open the proofs close, for all that is proved below.

**Fairness.** For the store, weak fairness of `RunMaintenance` (the loop of
`coordinator.py:64-83`, which catches every exception) and of `Tick` (time
passes). `Pair` assumes nothing of workers, planners or directors. For the
workers, weak fairness of each coroutine's next step (asyncio runs what is ready),
of `Start` (the supervisor starts the process again), and of the death of a child
that was sent SIGTERM; and strong fairness of `AskClaim`, which is enabled on and
off while tasks come and go and is tried at every turn of the loop. Nothing is
assumed of runs: a run that is not stopped may go on for ever, and a stop may
never be confirmed. For the bot, each loop catches every exception and repeats
until stopped, hence weak fairness of its internal steps, and strong fairness of
the *success* of a request that is tried again and again (`getUpdates`, an answer
followed by saving the offset, `sendMessage`, `ack`); weak fairness of `Restart`
stands for the supervisor. Crashes are bounded, so they end at some time.

### Where code and documentation differ

Each of these runs states what the documentation says and TLC refutes it:

* `LateResult` (tests/test_gateway_worker.py:349: a run that failed after the
  deadline is reported as failed, not as a timeout; `gateway_worker.py:460-471` is
  written for that). The store's lease sweep, which runs at the start of
  `report_result`, ends every claim whose execution time is over, whatever its
  lease. So the report is refused with 409, the worker gives the run up as lost,
  and whenever the task is claimed back the next sweep takes it again, until it
  ends as `timed_out`. The test has an API that takes every report.
* `CancelledRequeue` (architecture.md:213-229: after a cancel only `cancelled`
  follows). A task cancelled in reconciliation can be claimed back, fail with
  `retryable`, and be queued for another attempt.
* `BlockedChat` (architecture.md:261: at least once). One chat that refuses every
  message ends each pass at its entry; later entries never go out.
* `FalseCancel` (README.md:245: a task that was cancelled and whose run cannot be
  confirmed ends as `timed_out`). If the cancellation comes between starting the
  run and binding it, the job stops the run, does not look whether that worked,
  and reports `cancelled`.
* `SharedToken` (architecture.md:329: claim tokens isolate old executions under
  the same worker id). With room for two, a worker may claim a task again while
  its older job is still starting a run; the older job then reads the newer token
  and binds its run to the newer attempt.

### Also seen

Behaviour that the models have, because the code does, and that no property
counts as wrong:

* `started_at` survives a requeue (`storage.py:1554`), so later attempts start
  with less time, or none; architecture.md:182 (an execution limit "per task")
  can be read either way. `ExecutionTimeIsShared` states what the code does, and
  that a task whose time is over is neither started nor queued again, whatever
  attempts it has left. It says nothing of results that come late: that they are
  refused is what `LateResult` shows.
* A terminal report clears the claim token (`storage.py:1829`), so a worker whose
  report was taken and whose answer was lost is refused with 409 when it repeats
  the report, and the branch of `report_result` that returns a settled record
  (`storage.py:1767`) is never reached. architecture.md:230 calls the repetition
  idempotent. The row stays as it is (`SettledForEver`); only the answer differs.
* `attach_remote_run` lets the recorded run of an attempt be exchanged after a
  reconciliation, whether or not the old one goes on (`storage.py:1181-1186`). That
  no live run is dropped that way rests on the worker, which looks for the recorded
  run first: `LiveRunIsKept`, for workers with room for one.
* A crash, or two lost calls, between `start_run` and binding leave a run that the
  coordinator has never heard of, and the next attempt starts another. Hence
  `NoStrayRun` is checked without crashes and without failing gateway requests.
* A task that was cancelled in reconciliation and whose run the gateway has
  forgotten is started anew when it is claimed back (`gateway_worker.py:252-305`), and
  then stopped.
* With room for two, a timeout of an older job terminates the child of the newer
  one (`worker.py:422`), and a job whose entry was overwritten leaves its child
  when the loop is left. Hence `OneChildPerTask`, `HeardIsObeyed` and `NoOrphan`
  are stated for room for one.
* With room for two, an older job can also take a run off the record: the run was
  reconciled, its task claimed back, and the older job binds a run of its own
  under the newer token (`storage.py:1148`). The first run goes on unrecorded.
  Hence `LiveRunIsKept` is checked with room for one, and `CancelledRunStops` lets
  go of a run whose place another has taken.

## Proofs

All theorems are for any workers, any finite set of tasks, any runs, routes,
capacities, durations, budgets, faults and crashes: the named assumptions of
`TaskRow`, `TaskStore`, `WorkerLoop` and `DirectorBot` are all that is assumed.
Where a theorem says "room for one", it assumes `RoomForOneTask` as well, and
`SharedToken` shows why; that is room for one per worker, and any number of
workers. `GatewayLeavesNoStrayRun` assumes two more, which
`Gateway` has too: no request to the gateway is among the faults (`GatewayReached`)
and no process crashes (`NoCrashes`). Without either, "Also seen" tells how a run
is lost sight of.

| module | theorem | says |
| --- | --- | --- |
| `TaskStoreProofs` | `TypeCorrect` | `[]TypeOK` |
| | `ClaimsAreExclusive`, `PlannerClaimsAreExclusive` | a token is live exactly while its row is executed (planned) and is the newest |
| | `RunsBelongToAttempts` | a recorded run is one of the current attempt |
| | `ReconciliationCanEnd` | a row in reconciliation has all it needs to leave |
| | `RetriesAreBounded` | neither budget is exceeded |
| | `OutcomesAreTold` | outbox and outcome agree |
| | `OutcomesAreFinal` | a settled row never changes, but for its acknowledgement |
| `TaskStoreStepProofs` | `ClaimsAreNotStolen` | a claim is superseded only after its lease |
| | `GraceRunsDown` | the deadline of a reconciliation is neither pushed back nor cleared, except by binding a run under the live claim or with the run of an attempt that is given up |
| | `CancellationsStand` | a pending cancellation is not overtaken |
| | `TimeIsShared` | the time of an execution is given once, and nothing is started or requeued after it |
| | `CapacityHolds` | no worker holds more tasks than it has room for |
| `TaskLifecycleProofs` | `LifecycleImplemented` | `Spec => ImplementsLifecycle` |
| `GatewayWorkerProofs`, `LocalWorkerProofs` | `GatewayImplementsStore`, `LocalImplementsStore` | the runtime with the store is a behaviour of `Spec`, so all of the above holds of it |
| | `GatewayTypeCorrect`, `LocalTypeCorrect` | the type invariants |
| | `GatewaySuccessIsTrue` | a success is one of the run that was started for the attempt (room for one) |
| | `GatewayRunOfAttempt` | the run on record was started for the attempt on record (room for one) |
| | `GatewayJobsKnown` | a live job goes by its own token (room for one) |
| | `GatewayKeepsLiveRuns` | a run on record stays there as long as it goes on, and its task is settled meanwhile only by running out of time (room for one) |
| | `GatewayLeavesNoStrayRun` | a run that nobody asked to stop is on record or in the hands of a live job (room for one, `GatewayReached`, `NoCrashes`) |
| | `LocalSuccessIsTrue` | a success is one of the child of the newest claim |
| | `LocalCancelledOnRequest` | a task is cancelled, or taken for cancelled, only on request |
| | `LocalOneChild`, `LocalHeardIsObeyed`, `LocalNoOrphan` | one child, which cancellations reach and which is not left behind (room for one) |
| `DirectorBotProofs` | `NoMessageIsSkipped`, `MessagesInOrder`, `NoTaskIsInvented`, `NoOutcomeIsLost`, `BotTypeCorrect` | the invariants of `Messages`, for any number of messages and crashes |

**The store's invariants.** All but the capacity are predicates of one row, so
the inductive invariant `IInv` says that every row satisfies `RowInv`: the row is
of the type `Row`, satisfies the six predicates of `TaskStoreProperties`, and
`Staged`. The last is the strengthening: a row under execution or in
reconciliation is on some attempt, held or last held by the worker that resolved
it, and a row that waits for an attempt has no remote run. Without it
`RunBelongsToAttempt` is not inductive: a new claim raises `attempt_count` and
would leave a run of the previous attempt on record, and reconciliation would name
a worker that cannot ask about the run. `TaskRowProofs` has one lemma per row
operator, `XInv`: it takes a sound row to a sound row. The sweeps compose them, and
`TaskStoreProofs` has one lemma per group of actions, which only has to say which
row an action replaces (`TransactionIInv`, `StatementIInv`). `OutcomesAreFinal`
uses the invariant where a guard is about tokens: a settled row has no live token,
so no late call reaches it.

**Its action properties** rest on `StepsByRow`: a step does to each row one of the
things that `RowStep` lists, on the row as the sweeps leave it. `StepParts` then
says what each of them changes, group of columns by group (`Moved`), and each
property is a fact about `Moved`. The clock is followed through `RowStep` itself:
maintenance leaves no row under execution whose time is over
(`MaintainedClock`), a call about a claim needs one that is, and no statement
writes a `started_at` that is set. The deadline of a reconciliation is followed in
the same way (`GraceWays`): of all that `RowStep` lists, only a binding and
what drops the run with its attempt write NULL over it, and a sweep that loses a
run once more keeps it (`TreatedGrace`). The one strengthening this took is in `Staged`:
a row that is still to be planned has no time running. Capacity is counted: no step but a claim gives a
worker a task, a claim gives it one, and only below its capacity (`FewerRows`,
`ClaimAddsOne`).

**The refinement** uses `Moved` once more: what it allows is a move of the
lifecycle, or leaves the view of the row alone. It needs that a row that was not
created yet has no history (`LInv`).

**The workers.** `LoopInv` relates loop, jobs and dictionaries: an entry in
`claim_tokens` is of a claim of that worker, a job is of a claim that was issued,
and with room for one (`OneJob`) a process has at most one job, which is the one in
`active`, and goes by its own token. That is not so for two jobs of one task, and
is what room for one gives: a worker asks for a task only when `active` is empty,
and `active` is emptied only by the end of the job that is in it. It is proved of
the loop alone, with the end of a job (`Ended`) and the death of a process as
lemmas that either runtime uses. `LocalInv` adds how far a child is by the point
its job is at. `GatewayInv` adds what a job has seen of its run (`WorkFits`), that a
run that was seen to be over is over, and that the run a job knows and the run on
record were started under the key of the attempt. That needs an argument across
the parts: a call passes the store's guard only under the newest token, with room
for one that is the job's own, hence the attempt in the job's snapshot is the
attempt of the row (`AttemptFits`), hence the run it binds has the key of that
attempt.

*Cancelled on request* (`CancelInv`) needs no room for one. The runtime takes any
refusal of `set_running` for a cancellation, and reports `cancelled`. No wrong
outcome comes of it: a job that has not started its task has a claim that is
superseded, cancelled, or still `claimed` in the row (`ClaimIsUnstarted`), and the
store takes no result of a claim that was not started.

*Live runs are kept* (`HoldInv`): as long as the run on record goes on, it is the
run in the hands of the job of the current claim (`HeldRun`); the run in hand is
known to the gateway (`LiveKnown`); and at each point of a job, `PointFits` says
which runs it may hold and that what it is about to report is of a run it has seen
to be over. So a job that binds a run has none on record that goes on, and a job
that reports has seen the end of the one it reports on. A live run keeps its
place also across claims: it goes from the snapshot of a claim into the hands of
its job.

*No stray run* (`StrayInv`) adds `Recorded`: a job that is past the recording of
its run knows it is on record. The points before that (`Loose`) are those where
the run is only in the job's hands, and each way out of them either records the
run or asks it to stop. A job whose recording was refused, or whose answer was
lost, stops the run without knowing whether it is on record; that is loose as well.
What is on record stays there, by the step of `GatewayKeepsLiveRuns`.

TLC checked each of these invariants before it was proved, as an invariant of the
runs above and of variants of them with other faults.

**The bot.** Its invariants hold because of what its loops have in hand: all that
precedes a message of the batch is in the batch or answered, the answer to be sent
is that of the first message of the batch, and what is to be acknowledged was
delivered (`BInv`).

**Only model-checked:** liveness (`StartedTaskSettles`, `CancelRequestResolves`,
`TaskSettles`, `CancelledRunStops`, `EveryChildEnds`, `MessagesAnswered`,
`OutcomesDelivered`), since fairness and ENABLED are out of the proof system's
reach. Every invariant and action property of a passing run is proved. Those
that hold with room for one only are also checked with room for one only, for the
reasons given under "Also seen".

## Not modelled

* **Route selection.** `RouteOf` stands for the rows of `worker_routes` and for
  their matching with a candidate in `claim_task`. A worker that registers again with other routes or less room
  while it holds tasks is outside the model.
* **Planning by task id.** `claim_planning_task` can be asked for a certain task
  (`storage.py:1254-1258`); its only caller does not (`coordinator.py:318`).
* **Failures of the process runtime other than HTTP errors after the child was
  started**, as an answer that is not JSON (`worker.py:406`, `460`, `483`): the job
  reports `failed` and leaves the child running.
* **The event-loop turn between a job's `finally` and the callback that takes it
  out of `active`**: `Ended` does both at once.
* **The delay between reading the clock and getting the write lock**, up to the
  busy timeout of SQLite.
* Task events and progress (nothing reads them), the planner client (one request
  per method; the planner is the caller of `PlannerCall`), request authentication
  and nonces, configuration, schemas, command grammar, wording, migration code,
  listing endpoints, the mock command and the test scripts.
* Of the worker: `once=True`, the standalone loop of `GatewayWorker.run` (the
  deployed worker is the unified one), capture limits, the size of outputs.

What would come next: a route registry in the place of `RouteOf`, with
registration in several statements and changing capacities, and a clock value per
call.
