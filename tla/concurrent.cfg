SPECIFICATION Spec
CONSTANTS
    Rows = {r1, r2}
    Campaigns = {c1}
    CampaignOf <- OneCampaign
    Workers = {w1}
    Slots = {s1, s2}
    WorkerOf <- SlotPlacement
    NoRow = NoRow
    NoSlot = NoSlot
    Attempts = 1
    MaxStalled = 1
    MaxCrashes = 0
    Events = {"cancel", "close", "stall"}
SYMMETRY RowAndSlotSymmetry
INVARIANTS
    SettledCampaign
    CompletedMeansDelivered
PROPERTIES
    RowFinality
    FinishedNeverReopens
    LateCancelTouchesNoRow
