SPECIFICATION Spec
CONSTANTS
    Nil = Nil
    Tenants = {tenant}
    ScheduleIDs = {s1}
    ExecutionIDs = {e1, e2}
    AttemptIDs = {a1}
    Nodes = {n1, n2}
    Workloads <- SnapshotWorkload
    ProposedTimes = {4}
    MaxRestarts = 1
SYMMETRY Symmetry
CHECK_DEADLOCK FALSE
INVARIANT NoPanic
