SPECIFICATION Spec
CONSTANTS
    Nil = Nil
    Tenants <- TwoTenants
    ScheduleIDs <- TwoSchedules
    ExecutionIDs <- TwoExecutions
    AttemptIDs <- OneAttempt
    ExecutionOf <- AttemptsOfOne
    Views = {v1}
INVARIANTS ListsMatchRows LastAttemptIsListed
