\* Admission, recall, adapter reads, knowledge lookups, grounding and the journal, each with failures.
SPECIFICATION MCSpec
CONSTANTS
    Posts = {r1, r2, r3}
    NoPost = NoPost
    PoolThreads = 2
    Deployments <- SomeDeployments
    Flaws <- SomeFlaws
    Adverts <- SomeAdverts
    MaxAdverts = 1
    Periods = {p1, p2}
    NoPeriod = NoPeriod
    PageSize = 2
    MaxProducts = 4
    MaxTargets = 2
    Sizes = {3, 5}
    MaxEdits = 2
    MaxRounds = 1
    Lookups = {t1, t2}
    Authorities = {a1, a2}
    Direct = {a2}
    NoAuthority = NoAuthority
    NoLookupQuery = NoLookupQuery
    LookupQueries = {NoLookupQuery, q1}
    Listing <- TwoDocuments
    Unlisted = "unlisted"
    Baseline = {"doc2"}
    MaxDocuments = 1
    Ttl = 1
    Catalog <- OneEntry
    MaxImages = 2
    MaxUnits = 1
    MaxChanges = 1
    MaxClock = 3
    CallTime = 1
    StaticRows <- SomeStaticRows
    DocumentRows <- SomeDocumentRows
    TopK = 2
    MaxShown = 3
    MaxBytes = 5
    Options = {"o1", "o2"}
    NoOption = "no option"
    Queries = {"q", "r"}
    NoQuery = "no query"
    Grants <- SomeGrants
    UnitLists <- SomeUnitLists
    KnownDocuments = {"doc1"}
    EntryImages = {"i1", "i2"}
    MaxUnitFacts = 2
    MaxRows = 3
INVARIANTS
    DirectTurnsAdmitted
    PoolReturned
    ReportFactsFaithful
    KnowledgeSound
    RecallHonest
    GroundingSound
    RequestsAudited
    RefusalsExplained
SYMMETRY Interchangeable
CHECK_DEADLOCK FALSE
