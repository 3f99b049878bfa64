SPECIFICATION GatewaySpec
CONSTANTS
    w1 = w1
    w2 = w2
    t1 = t1
    r1 = r1
    r2 = r2
    Workers = {w1}
    Tasks = {t1}
    Runs = {r1}
    NoWorker = NoWorker
    NoRun = NoRun
    Requests <- Simple
    MaxConcurrency <- One
    GatewayWorkers = {w1}
    RouteOf <- OneRoute
    MaxAttempts = 1
    PlannerMaxAttempts = 1
    TaskLease = 3
    PlannerLease = 1
    TaskTimeout = 1
    ReconciliationGrace = 1
    ReconciliationBackoff = 0
    WorkerEviction = 3
    MaxClaims = 2
    Faults = {}
    MaxCrashes = 0
    Ends = {"succeeded", "failed", "cancelled"}
PROPERTIES LateResultIsTaken
