SPECIFICATION FairLocalSpec
CONSTANTS
    w1 = w1
    w2 = w2
    t1 = t1
    Workers = {w1}
    Tasks = {t1}
    Runs = {}
    NoWorker = NoWorker
    NoRun = NoRun
    Requests <- Simple
    MaxConcurrency <- One
    GatewayWorkers = {}
    RouteOf <- ByCapability
    MaxAttempts = 2
    PlannerMaxAttempts = 1
    TaskLease = 1
    PlannerLease = 1
    TaskTimeout = 1
    ReconciliationGrace = 1
    ReconciliationBackoff = 0
    WorkerEviction = 1
    MaxClaims = 2
    Faults = {"lost", "refused", "loop", "unserved"}
    MaxCrashes = 1
INVARIANTS LocalTypeOK SuccessIsTrue CancelledOnRequest OneChildPerTask HeardIsObeyed NoOrphan
PROPERTIES EveryChildEnds
