SPECIFICATION Spec
CONSTANTS
    Null = Null
    Nobody = Nobody
    Users = {u1, u2}
    Jobs <- MCJobs
    CampaignOf <- MCCampaignOf
    CreatedAt <- MCCreatedAt
    ScheduledAt <- MCScheduledAt
    Matches <- MCMatches
    Start <- MCStart
    Limit = 2
    MaxChanges = 2
    MaxRequests = 3
    MaxFetches = 2
    MaxPolls = 2
    MaxLogins = 2
    MaxReloads = 1
CHECK_DEADLOCK FALSE
INVARIANTS SearchIsKept
