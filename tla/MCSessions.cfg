\* Conversation history: two conversations, a stepping wall clock, one session.
SPECIFICATION Spec
CONSTANTS
    Keys = {k1, k2}
    Requests = {q1, q2}
    RequestHashes = {h1}
    FeedbackIds = {}
    Scopes = {s1}
    Owners = {o1, o2}
    Epochs = {e1, e2, e3}
    CommitTokens = {}
    Responses = {r1, r2, r3}
    Effects = {"send_text"}
    SendActions = {}
    Outcomes = {"executed"}
    Executed = {"executed"}
    NoOutcome = NoOutcome
    IssuedCapacity = 3
    SessionCapacity = 1
    ReceiptCapacity = 3
    LedgerCapacity = 1
    RecordReceiptCapacity = 2
    MaxMessages = 3
    IssuedTtl = 1
    PendingTtl = 1
    TokenTtl = 1
    ConversationTtl = 1
    Submissions <- AllSubmissions
    Replies <- AnyReply
    Bodies <- NoBodies
    MaxMono = 0
    MaxWall = 1
    MaxRevision = 2
SYMMETRY KeySymmetry
INVARIANTS
    ClarificationIsLatest
    CapacitiesHold
PROPERTIES
    BusySessionKept
