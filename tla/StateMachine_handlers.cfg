SPECIFICATION Spec
CONSTANTS
    Nil = Nil
    Tenants = {tenant}
    ScheduleIDs = {s1}
    ExecutionIDs = {e1, e2}
    AttemptIDs = {a1, a2}
    Nodes = {n1, n2}
    ScheduleConfigs <- AllConfigs
    MaxAttemptsValues = {1}
    ProposedTimes = {0, 4}
    RetryTimes = {1}
SYMMETRY Symmetry
INVARIANTS
    TypeOK
    OneExecutionPerOccurrence
    DueWhileActive
    OnlyOccurrencesRun
    OnceRunsOnce
    CatchUpAllInOrder
    AttemptsMatchSummary
    OwnedWhileInFlight
PROPERTIES
    StoppedForGood
    EndedIsFinal
    AttemptsAppendOnly
    ImplementsOccurrences
