SPECIFICATION Spec
CONSTANTS
    Rows = {r1}
    Campaigns = {c1}
    CampaignOf <- OneCampaign
    Workers = {w1, w2}
    Slots = {s1, s2}
    WorkerOf <- SlotPlacement
    NoRow = NoRow
    NoSlot = NoSlot
    Attempts = 2
    MaxStalled = 1
    MaxCrashes = 1
    Events = {"cancel", "crash", "stall", "slow", "db", "redis", "apiCrash", "redisLoss", "evict"}
SYMMETRY DeploymentSymmetry
CHECK_DEADLOCK FALSE
INVARIANTS
    TypeOK
    OneOwner
    AtMostOnce
    AcceptedIsAccountedFor
PROPERTIES
    KeepsLifecycle
