SPECIFICATION GatewaySpec
CONSTANTS
    w1 = w1
    w2 = w2
    t1 = t1
    r1 = r1
    r2 = r2
    Workers = {w1}
    Tasks = {t1}
    Runs = {r1, r2}
    NoWorker = NoWorker
    NoRun = NoRun
    Requests <- Simple
    MaxConcurrency <- One
    GatewayWorkers = {w1}
    RouteOf <- OneRoute
    MaxAttempts = 2
    PlannerMaxAttempts = 1
    TaskLease = 1
    PlannerLease = 1
    TaskTimeout = 1
    ReconciliationGrace = 1
    ReconciliationBackoff = 0
    WorkerEviction = 1
    MaxClaims = 2
    Faults = {"gateway"}
    MaxCrashes = 0
    Ends = {"succeeded", "failed", "cancelled"}
INVARIANTS CancelledIsTrue
