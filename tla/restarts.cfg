SPECIFICATION RestartSpec
CONSTANTS
    Rows = {r1}
    Campaigns = {c1}
    CampaignOf <- OneCampaign
    Workers = {w1}
    Slots = {s1, s2}
    WorkerOf <- SlotPlacement
    NoRow = NoRow
    NoSlot = NoSlot
    Attempts = 2
    MaxStalled = 1
    MaxCrashes = 1
    Events = {"cancel", "close", "crash", "apiCrash", "ack", "unrecorded"}
PROPERTIES
    EveryRowRecovered
