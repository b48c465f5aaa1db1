------------------------------ MODULE RateLimiter ------------------------------
(***************************************************************************)
(* checkSenderRateLimit for one sender, in real time: the hour counter and *)
(* the gap marker in Redis with their expiries, and the jobs that ask and  *)
(* are deferred.  Every key carries the sender's id, so senders share      *)
(* nothing.                                                                *)
(*                                                                         *)
(* A job reads its worker's clock, then the script runs; the reading may   *)
(* be up to MaxLag old by then, which lets the script run in another order *)
(* than the clocks were read.  A job that is allowed stands for the next   *)
(* job of its sender as well: there is always more mail.                   *)
(***************************************************************************)
EXTENDS Integers

CONSTANTS
    Jobs,        \* jobs of the sender that are due or deferred
    Hour,        \* MS_PER_HOUR, in ticks
    Second,      \* ticks per second, the unit of EXPIRE
    Buffer,      \* seconds secondsToEndOfHour adds
    MaxPerHour,  \* sender.maxPerHour
    MinGap,      \* MIN_DELAY_MS_BETWEEN_EMAILS, in ticks
    MaxLag,      \* bound: age of a clock reading when the script runs, in ticks
    MaxTime      \* bound: length of a behaviour, in ticks

ASSUME RateLimiterAssumption ==
    /\ Hour \in Nat \ {0} /\ Second \in Nat \ {0}
    /\ Buffer \in Nat /\ MaxPerHour \in Nat \ {0} /\ MinGap \in Nat
    /\ MaxLag \in Nat /\ MaxTime \in Nat

\* A reading is never older than the buffer, nor are the workers' clocks
\* further apart.
ASSUME LagWithinBuffer == MaxLag <= Second * Buffer

VARIABLES
    now,         \* real time
    hourCount,   \* rl:{sender}:{hour}, the counter of an hour's key
    hourExpiry,  \* when that key expires
    lastSend,    \* gap:{sender}, the reading of the last allowed ask
    gapExpiry,   \* when that key expires; 0 if it was never set
    dueAt,       \* when a job is due
    granted,     \* ghost: asks allowed with a reading in an hour
    grantedAt,   \* ghost: when the last ask was allowed
    denials      \* ghost: times a job was denied since anyone was allowed

redisVars == <<hourCount, hourExpiry, lastSend, gapExpiry>>
ghostVars == <<granted, grantedAt, denials>>
vars == <<now, redisVars, dueAt, ghostVars>>

HourOf(t) == t \div Hour
Hours == 0 .. HourOf(MaxTime)

Init ==
    /\ now = 0
    /\ hourCount = [h \in Hours |-> 0]
    /\ hourExpiry = [h \in Hours |-> 0]
    /\ lastSend = 0 /\ gapExpiry = 0
    /\ dueAt = [j \in Jobs |-> 0]
    /\ granted = [h \in Hours |-> 0]
    /\ grantedAt = 0
    /\ denials = [j \in Jobs |-> 0]

CeilDiv(a, b) == (a + b - 1) \div b

\* Mutant: the key lives until the end of its hour and no longer.
MutNoBuffer(reading) == Second * CeilDiv(Hour - (reading % Hour), Second)

\* secondsToEndOfHour, in ticks.
HourTtl(reading) == Second * (CeilDiv(Hour - (reading % Hour), Second) + Buffer)

-------------------------------------------------------------------------------
(* The script *)

\* GET on the counter: an expired key reads as 0.
Count(h) == IF now < hourExpiry[h] THEN hourCount[h] ELSE 0

\* Mutant: a gap that is one tick short passes.
MutGapOffByOne(reading) ==
    MinGap > 0 /\ now < gapExpiry /\ (reading - lastSend) + 1 < MinGap

\* A negative elapsed time, of a reading older than the marker, is denied too.
TooSoon(reading) ==
    MinGap > 0 /\ now < gapExpiry /\ reading - lastSend < MinGap

Full(reading) == Count(HourOf(reading)) >= MaxPerHour

\* Mutant: a full hour is answered with the shortest wait.
MutRetryAtOnce(reading) ==
    IF TooSoon(reading) THEN MinGap - (reading - lastSend) ELSE 1

\* retryAfterMs: the rest of the gap, or the counter's PTTL.
RetryAfter(reading) ==
    LET pttl == hourExpiry[HourOf(reading)] - now IN
    IF TooSoon(reading) THEN MinGap - (reading - lastSend)
    ELSE IF pttl > 0 THEN pttl ELSE HourTtl(reading)

-------------------------------------------------------------------------------
(* One ask of a job that was due when it read its clock *)

Readings(j) == { t \in now - MaxLag .. now : t >= 0 /\ t >= dueAt[j] }

Allow(j) ==
    \E reading \in Readings(j) :
        LET h == HourOf(reading) IN
        /\ ~TooSoon(reading) /\ ~Full(reading)
        /\ hourCount' = [hourCount EXCEPT ![h] = Count(h) + 1]
        /\ hourExpiry' = [hourExpiry EXCEPT ![h] = now + HourTtl(reading)]
        /\ IF MinGap > 0
           THEN lastSend' = reading /\ gapExpiry' = now + MinGap
           ELSE UNCHANGED <<lastSend, gapExpiry>>
        /\ granted' = [granted EXCEPT ![h] = @ + 1]
        /\ grantedAt' = now
        /\ denials' = [k \in Jobs |-> 0]
        /\ UNCHANGED <<now, dueAt>>

\* The processor defers the job by at least one millisecond.
Deny(j) ==
    \E reading \in Readings(j) :
        /\ TooSoon(reading) \/ Full(reading)
        /\ dueAt' = [dueAt EXCEPT ![j] =
                       now + (IF RetryAfter(reading) > 1
                              THEN RetryAfter(reading) ELSE 1)]
        /\ denials' = [denials EXCEPT ![j] = @ + 1]
        /\ UNCHANGED <<now, redisVars, granted, grantedAt>>

Tick ==
    /\ now < MaxTime
    /\ now' = now + 1
    /\ UNCHANGED <<redisVars, dueAt, ghostVars>>

Next == Tick \/ \E j \in Jobs : Allow(j) \/ Deny(j)

Spec == Init /\ [][Next]_vars

-------------------------------------------------------------------------------

\* No hour gets more than maxPerHour sends, although the counter expires and
\* readings reach the script late: the key outlives every reading of its hour.
HourlyCap == \A h \in Hours : granted[h] <= MaxPerHour

\* A job that nobody overtakes is deferred at most twice, once by the gap and
\* once by the cap, or by two hours: waiting as told is enough.
DeferredAtMostTwice == \A j \in Jobs : denials[j] <= 2

\* Two allowed sends are apart by the minimum gap, less the age of a reading:
\* neither an expired marker nor readings out of order bring them closer.
SpacedSends ==
    [][granted' # granted /\ (\E h \in Hours : granted[h] > 0)
         => now - grantedAt >= MinGap - MaxLag]_vars
===============================================================================
