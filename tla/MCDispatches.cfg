\* Turns whose plans look up several pieces of company knowledge.
SPECIFICATION Spec
CONSTANTS
    o1 = o1
    o2 = o2
    q1 = q1
    q2 = q2
    q3 = q3
    Options = {o1, o2}
    NoOption = NoOption
    Queries = {q1, q2, q3}
    NoQuery = NoQuery
    Requests <- PlannedRequests
    PlanSpecs <- ManyLookupPlans
    MaxReplans = 1
    MaxRefetches = 1
    MaxRecomposes = 1
    MaxTotal = 2
INVARIANT DispatchesFit
CHECK_DEADLOCK FALSE
