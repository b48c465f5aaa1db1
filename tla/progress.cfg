SPECIFICATION FairSpec
CONSTANTS
    Rows = {r1, r2}
    Campaigns = {c1}
    CampaignOf <- OneCampaign
    Workers = {w1}
    Slots = {s1}
    WorkerOf <- SlotPlacement
    NoRow = NoRow
    NoSlot = NoSlot
    Attempts = 2
    MaxStalled = 1
    MaxCrashes = 0
    Events = {"cancel", "close"}
INVARIANTS
    FailedAfterAllAttempts
    ScheduledHasJob
PROPERTIES
    EveryRowSettles
    EveryCampaignSettles
