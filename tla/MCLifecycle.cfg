SPECIFICATION RunSpec
CONSTANTS
    router = router
    metrics = metrics
    Servers <- MCServers
    Requests = {r1, r2}
    GracefulPeriod = 3
    NoServer = NoServer
INVARIANTS
    RunTypeOK
    NilMeansDrained
    CauseIsReported
    OneGracefulPeriod
PROPERTY RunEnds
