\* Every process may have stopped.
CHECK_DEADLOCK FALSE
SPECIFICATION WorkerSpec
CONSTANTS
    Nil = Nil
    Tenants = {tenant}
    ScheduleIDs = {s1}
    ExecutionIDs = {e1}
    AttemptIDs = {1, 2}
    Nodes = {n1, n2}
    ScheduleConfigs <- OnceConfigs
    MaxAttemptsValues = {2}
    ProposedTimes = {0}
    RetryTimes = {1}
    ClientCommands = {}
    ClocksAgree = TRUE
SYMMETRY NodeSymmetry
INVARIANTS
    EndsAsAttempted
    FinalizeFindsFinal
    OneCallPerNode
PROPERTY WorkersMakeLog
