SPECIFICATION Spec
CONSTANTS
    MaxUpdates = 2
    MaxAttempts = 2
    Limit = 2
    MaxEvents = 3
    Users = {ua, ub}
    Chats = {ca, cb}
    Actions = {"APPROVE", "REJECT"}
    NoUser = NoUser
    NoChat = NoChat
    Owner = ua
    Recipient = ca
    MaxTokens = 1
    MaxNonces = 1
    Workers = {w1, w2}
SYMMETRY WorkerSymmetry
INVARIANTS
    TypeOK
    NonceSpentOnce
    OneBinding
    NoUpdateSkipped
    PressTakesEffect
    CopiesExplained
    SentIsReal
PROPERTIES
    ReceiptsFinal
CHECK_DEADLOCK FALSE
