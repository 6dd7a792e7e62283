\* Action feedback on the responses of one conversation.
SPECIFICATION Spec
CONSTANTS
    Keys = {k1}
    Requests = {q1, q2}
    RequestHashes = {h1}
    FeedbackIds = {f1, f2}
    Scopes = {s1}
    Owners = {o1}
    Epochs = {e1, e2}
    CommitTokens = {t1, t2}
    Responses = {r1, r2, r3}
    Effects = {"send_text", "action1", "action2"}
    SendActions = {"action1", "action2"}
    Outcomes = {"failed", "executed"}
    Executed = {"executed"}
    NoOutcome = NoOutcome
    IssuedCapacity = 2
    SessionCapacity = 2
    ReceiptCapacity = 2
    LedgerCapacity = 1
    RecordReceiptCapacity = 2
    MaxMessages = 2
    IssuedTtl = 2
    PendingTtl = 1
    TokenTtl = 1
    ConversationTtl = 1
    Submissions <- AllSubmissions
    Replies <- SendingReply
    Bodies <- SendReports
    MaxMono = 2
    MaxWall = 0
    MaxRevision = 3
SYMMETRY FeedbackSymmetry
INVARIANTS
    PreparationsSound
    FeedbackAppliedOnce
    AdmittedRowsCurrent
PROPERTIES
    ReportsStand
