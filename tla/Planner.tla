-------------------------------- MODULE Planner --------------------------------
(***************************************************************************)
(* The schedule createCampaign computes before its transaction: the        *)
(* operator's floor and ceiling on the campaign's knobs, planSendTime for  *)
(* every recipient, and the round robin over the chosen senders.  Times    *)
(* are offsets from startAt; their unit is the instance's.                 *)
(***************************************************************************)
EXTENDS Integers, Sequences, FiniteSets

CONSTANTS
    Hour,           \* MS_PER_HOUR
    MinDelay,       \* MIN_DELAY_MS_BETWEEN_EMAILS
    MaxPerHour,     \* MAX_EMAILS_PER_HOUR
    Delays,         \* values of input.delayMs
    HourlyLimits,   \* values of input.hourlyLimit
    SenderCounts,   \* lengths of senderIds
    MaxRecipients   \* MAX_RECIPIENTS_PER_CAMPAIGN

ASSUME PlannerAssumption ==
    /\ Hour \in Nat \ {0}
    /\ MinDelay \in Nat
    /\ MaxPerHour \in Nat \ {0}
    /\ Delays \subseteq Nat
    /\ HourlyLimits \subseteq Nat \ {0}
    /\ SenderCounts \subseteq Nat \ {0}
    /\ MaxRecipients \in Nat

VARIABLES
    request,  \* the knobs of the campaign being created
    plan      \* plannedRows so far, in recipient order

vars == <<request, plan>>

Larger(a, b) == IF a >= b THEN a ELSE b
Smaller(a, b) == IF a <= b THEN a ELSE b

\* Mutant: the floor on the spacing is applied as a ceiling.
MutDelayCeiling(req) == Smaller(req.delayMs, MinDelay)

EffectiveDelay(req) == Larger(req.delayMs, MinDelay)
EffectiveLimit(req) == Smaller(req.hourlyLimit, MaxPerHour)

\* Mutant: the overflow of a window is not spaced from the window's start.
MutWindowWithoutPosition(seq, delay, limit) ==
    Larger(seq * delay, (seq \div limit) * Hour)

\* The later of plain spacing and packing into hourly windows.
planSendTime(seq, delay, limit) ==
    LET windowIndex == seq \div limit
        positionInWindow == seq % limit
    IN  Larger(seq * delay, windowIndex * Hour + positionInWindow * delay)

\* Mutant: a sender is kept for a whole window.
MutSenderPerWindow(req, seq) == (seq \div EffectiveLimit(req)) % req.senders

\* The index into senderIds.
SenderIndex(req, seq) == seq % req.senders

PlannedRow(req, seq) ==
    [sender |-> SenderIndex(req, seq),
     at |-> planSendTime(seq, EffectiveDelay(req), EffectiveLimit(req))]

Init ==
    /\ request \in [delayMs : Delays, hourlyLimit : HourlyLimits,
                    senders : SenderCounts]
    /\ plan = << >>

PlanNext ==
    /\ Len(plan) < MaxRecipients
    /\ plan' = Append(plan, PlannedRow(request, Len(plan)))
    /\ UNCHANGED request

Spec == Init /\ [][PlanNext]_vars

-------------------------------------------------------------------------------

\* The plan is the earliest one that keeps consecutive emails delayMs apart and
\* never puts more than hourlyLimit of them within an hour: the closed form of
\* planSendTime neither breaks a constraint nor delays an email for nothing.
EarliestPlan ==
    LET delay == EffectiveDelay(request)
        limit == EffectiveLimit(request)
    IN  \A i \in 1 .. Len(plan) :
            plan[i].at =
                IF i = 1 THEN 0
                ELSE IF i <= limit THEN plan[i - 1].at + delay
                ELSE Larger(plan[i - 1].at + delay, plan[i - limit].at + Hour)

\* Whatever a campaign asks for, its emails keep the operator's minimum spacing
\* and no hour, starting anywhere, holds more than MAX_EMAILS_PER_HOUR of them.
OperatorLimits ==
    \A i, j \in 1 .. Len(plan) :
        /\ i < j => plan[j].at - plan[i].at >= MinDelay
        /\ j - i >= MaxPerHour => plan[j].at - plan[i].at >= Hour

\* The round robin gives every chosen sender its share, to within one email.
SendersBalanced ==
    LET share(k) == Cardinality({ i \in 1 .. Len(plan) : plan[i].sender = k })
    IN  \A a, b \in 0 .. request.senders - 1 : share(a) <= share(b) + 1
===============================================================================
