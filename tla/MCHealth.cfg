\* Planner and composer are one model, as they are by default. A monitor that was stopped
\* and whose loops are over does nothing more.
SPECIFICATION FairSpec
CONSTANTS
    SharesEndpoint = TRUE
    CheckInterval = 2
    FailureInterval = 1
    Cooldown = 3
    Pause = 1
    Day = 3
    ReportTime = 2
    MaxTime = 3
    MaxOutages = 1
INVARIANTS
    OutagesSound
    OutagesTold
    ProbedInTime
PROPERTY StopEnds
CHECK_DEADLOCK FALSE
