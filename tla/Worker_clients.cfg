\* Every process may have stopped.
CHECK_DEADLOCK FALSE
SPECIFICATION FairWorkerSpec
CONSTANTS
    Nil = Nil
    Tenants = {tenant}
    ScheduleIDs = {s1}
    ExecutionIDs = {e1}
    AttemptIDs = {1, 2, 3, 4}
    Nodes = {n1}
    ScheduleConfigs <- EverySecond
    MaxAttemptsValues = {1, 2}
    ProposedTimes = {0}
    RetryTimes = {1}
    ClientCommands = {"update", "pause", "resume", "cancel"}
    ClocksAgree = TRUE
INVARIANTS
    WorkerTypeOK
PROPERTY AttemptedEnds
