SPECIFICATION Spec
CONSTANTS
    Hour = 6
    MinDelay = 1
    MaxPerHour = 4
    Delays <- SmallDelays
    HourlyLimits <- SmallLimits
    SenderCounts <- SmallSenders
    MaxRecipients = 12
CHECK_DEADLOCK FALSE
INVARIANTS
    EarliestPlan
    OperatorLimits
    SendersBalanced
