SPECIFICATION Spec
CONSTANTS
    Nil = Nil
    Tenants = {tenant}
    ScheduleIDs = {s1}
    ExecutionIDs = {e1, e2}
    AttemptIDs = {a1}
    Nodes = {n1, n2}
    ScheduleConfigs <- UnknownPolicyConfigs
    MaxAttemptsValues = {1}
    ProposedTimes = {2, 4}
    RetryTimes = {1}
INVARIANT ActiveHasNextRun
