SPECIFICATION FairGatewaySpec
CONSTANTS
    w1 = w1
    w2 = w2
    t1 = t1
    r1 = r1
    r2 = r2
    Workers = {w1}
    Tasks = {t1}
    Runs = {r1}
    NoWorker = NoWorker
    NoRun = NoRun
    Requests <- Simple
    MaxConcurrency <- Two
    GatewayWorkers = {w1}
    RouteOf <- OneRoute
    MaxAttempts = 1
    PlannerMaxAttempts = 1
    TaskLease = 1
    PlannerLease = 1
    TaskTimeout = 1
    ReconciliationGrace = 0
    ReconciliationBackoff = 0
    WorkerEviction = 0
    MaxClaims = 2
    Faults = {"gateway", "start", "lost", "forget", "refused", "unserved"}
    MaxCrashes = 1
    Ends = {"succeeded"}
PROPERTIES TaskSettles CancelledRunStops
