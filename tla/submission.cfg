CONSTANTS
    Requests = {q1, q2}
    Users = {u1, u2}
    Keys = {k}
    NoKey = NoKey
    Inputs <- MCInputs
    s1 = s1
    s2 = s2
    Senders = {s1, s2}
    Addresses = {"a", "A", "b"}
    Lower <- MCLower
    Campaigns = {c1, c2}
    NoCampaign = NoCampaign
    Events = {"db", "redis", "apiCrash", "senders"}
    Typed <- MCTyped
    Files <- MCFiles
    MaxEdits = 3
    NoSender = NoSender
    PageUser = u1
    NoRequest = NoRequest
SPECIFICATION SubSpec
INVARIANTS SubTypeOK IdempotentReplies NoConflict EveryRecipientOnce SendersWereActive OneCampaignPerAttempt
PROPERTY UploadKeepsEdits
SYMMETRY Symmetry
CHECK_DEADLOCK FALSE
