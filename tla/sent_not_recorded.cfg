SPECIFICATION Spec
CONSTANTS
    Rows = {r1}
    Campaigns = {c1}
    CampaignOf <- OneCampaign
    Workers = {w1}
    Slots = {s1}
    WorkerOf <- SlotPlacement
    NoRow = NoRow
    NoSlot = NoSlot
    Attempts = 2
    MaxStalled = 1
    MaxCrashes = 0
    Events = {"unrecorded"}
CHECK_DEADLOCK FALSE
INVARIANTS
    AtMostOnce
