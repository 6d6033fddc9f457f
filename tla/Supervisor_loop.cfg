SPECIFICATION SupervisorSpec
CONSTANTS
    NoCancel = NoCancel
    Workers = {w1, w2}
    WorkersFail = TRUE
INVARIANT OneLeaderLoop
PROPERTIES DeposedStops ShutdownCompletes ElectedRuns
