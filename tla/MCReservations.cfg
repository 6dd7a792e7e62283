\* Reservations, commits, capacity and retention: two conversations.
SPECIFICATION Spec
CONSTANTS
    Keys = {k1, k2}
    Requests = {q1, q2}
    RequestHashes = {h1}
    FeedbackIds = {}
    Scopes = {s1}
    Owners = {o1, o2}
    Epochs = {e1, e2, e3}
    CommitTokens = {}
    Responses = {r1, r2}
    Effects = {"send_text", "action1"}
    SendActions = {"action1"}
    Outcomes = {"executed"}
    Executed = {"executed"}
    NoOutcome = NoOutcome
    IssuedCapacity = 2
    SessionCapacity = 1
    ReceiptCapacity = 2
    LedgerCapacity = 1
    RecordReceiptCapacity = 2
    MaxMessages = 3
    IssuedTtl = 2
    PendingTtl = 1
    TokenTtl = 1
    ConversationTtl = 1
    Submissions <- AllSubmissions
    Replies <- SendingTurn
    Bodies <- NoBodies
    MaxMono = 3
    MaxWall = 0
    MaxRevision = 2
SYMMETRY KeySymmetry
INVARIANTS
    PendingIndexExact
    IndexesExact
    RevisionsExact
    RevisionIdentifiesState
PROPERTIES
    AnswerFinal
    ImplementsTurnLock
