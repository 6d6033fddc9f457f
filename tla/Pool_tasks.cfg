SPECIFICATION Spec
CONSTANTS
    Nil = Nil
    Executions = {x1, x2, x3, x4}
    Goroutines = {g1, g2}
    Capacity = 1
INVARIANT ReturnsDrained
PROPERTIES TicksDoNotOverlap RunsAsSupervised DueIsReached
CHECK_DEADLOCK FALSE
