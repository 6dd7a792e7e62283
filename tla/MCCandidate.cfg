\* Turns of every kind of request and plan.
SPECIFICATION FairSpec
CONSTANTS
    o1 = o1
    o2 = o2
    q1 = q1
    q2 = q2
    q3 = q3
    Options = {o1, o2}
    NoOption = NoOption
    Queries = {q1, q2, q3}
    NoQuery = NoQuery
    Requests <- AnyRequests
    PlanSpecs <- AnyPlans
    MaxReplans = 1
    MaxRefetches = 1
    MaxRecomposes = 1
    MaxTotal = 2
INVARIANTS
    ReplyReviewed
    SentIsResolved
    SalesHandoffKept
    OwnPlansCompile
    OneLookupFits
PROPERTIES
    RemediationKeepsAuthority
    TurnEnds
CHECK_DEADLOCK FALSE
