\* Turns that send a report.
SPECIFICATION Spec
CONSTANTS
    o1 = o1
    o2 = o2
    q1 = q1
    q2 = q2
    q3 = q3
    Options = {o1, o2}
    NoOption = NoOption
    Queries = {q1}
    NoQuery = NoQuery
    Requests <- PlannedRequests
    PlanSpecs <- ReportPlans
    MaxReplans = 0
    MaxRefetches = 0
    MaxRecomposes = 0
    MaxTotal = 0
INVARIANT UnresolvedSendAnswered
CHECK_DEADLOCK FALSE
