SPECIFICATION FairSpec
CONSTANTS
    w1 = w1
    w2 = w2
    t1 = t1
    t2 = t2
    r1 = r1
    r2 = r2
    Workers = {w1}
    Tasks = {t1, t2}
    Runs = {r1}
    NoWorker = NoWorker
    NoRun = NoRun
    Requests <- PlainRequests
    MaxConcurrency <- PairCapacity
    GatewayWorkers = {w1}
    RouteOf <- PairRoutes
    MaxAttempts = 2
    PlannerMaxAttempts = 1
    TaskLease = 1
    PlannerLease = 1
    TaskTimeout = 1
    ReconciliationGrace = 1
    ReconciliationBackoff = 0
    WorkerEviction = 1
    MaxClaims = 2
INVARIANTS CapacityRespected
PROPERTIES StartedTaskSettles CancelRequestResolves
