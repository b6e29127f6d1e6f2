SPECIFICATION Spec
CONSTANTS
    MaxUpdates = 1
    MaxAttempts = 1
    Limit = 2
    MaxEvents = 2
    Users = {ua}
    Chats = {ca}
    Actions = {"APPROVE", "REJECT"}
    NoUser = NoUser
    NoChat = NoChat
    Owner = ua
    Recipient = ca
    MaxTokens = 0
    MaxNonces = 1
    Workers = {w1}
INVARIANTS
    KeySentOnce
CHECK_DEADLOCK FALSE
