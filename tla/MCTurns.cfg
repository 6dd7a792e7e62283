\* Turns that wait, hang, fail and are superseded, with feedback on their earlier answers.
SPECIFICATION TurnSpec
CONSTANTS
    Keys = {k1}
    Requests = {q1, q2}
    RequestHashes = {h1}
    FeedbackIds = {f1}
    Scopes = {s1, s2}
    Owners = {o1, o2}
    Epochs = {e1, e2, e3}
    CommitTokens = {t1}
    Responses = {r1, r2}
    Effects = {"send_text", "action1"}
    SendActions = {"action1"}
    Outcomes = {"executed"}
    Executed = {"executed"}
    NoOutcome = NoOutcome
    IssuedCapacity = 2
    SessionCapacity = 1
    ReceiptCapacity = 2
    LedgerCapacity = 1
    RecordReceiptCapacity = 2
    MaxMessages = 2
    IssuedTtl = 2
    PendingTtl = 1
    TokenTtl = 1
    ConversationTtl = 1
    Submissions <- AllSubmissions
    Replies <- AskingReply
    Bodies <- SendReports
    MaxMono = 2
    MaxWall = 1
    MaxRevision = 3
INVARIANTS
    InProgressHasTurn
    PlannedOnCurrentState
PROPERTY ConversationReleased
