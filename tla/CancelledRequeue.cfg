SPECIFICATION Spec
CONSTANTS
    w1 = w1
    w2 = w2
    t1 = t1
    t2 = t2
    r1 = r1
    r2 = r2
    Workers = {w1}
    Tasks = {t1}
    Runs = {r1}
    NoWorker = NoWorker
    NoRun = NoRun
    Requests <- DeepRequests
    MaxConcurrency <- DeepCapacity
    GatewayWorkers = {w1}
    RouteOf <- DeepRoutes
    MaxAttempts = 2
    PlannerMaxAttempts = 2
    TaskLease = 1
    PlannerLease = 1
    TaskTimeout = 2
    ReconciliationGrace = 2
    ReconciliationBackoff = 1
    WorkerEviction = 2
    MaxClaims = 4
INVARIANTS CancelledTaskNotRequeued
