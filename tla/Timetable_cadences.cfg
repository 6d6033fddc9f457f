SPECIFICATION Spec
CONSTANTS
    Nil = Nil
    TicksPerSecond = 1
    TicksPerDay = 2
    MonthLengths <- ShortMonths
    Configs <- WholeConfigs
    ProposedTimes <- AllTimes
    MaxExecutions = 3
INVARIANTS DueAtOccurrences CatchUpAllInOrder
PROPERTY ResumeFindsNearest
