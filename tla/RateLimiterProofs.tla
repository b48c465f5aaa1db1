--------------------------- MODULE RateLimiterProofs ---------------------------
(***************************************************************************)
(* RateLimiter for every hour, cap, gap, buffer, lag within the buffer and *)
(* number of jobs.  The cap rests on the expiry of an hour's key: it comes *)
(* at least the buffer after the hour's end, when no reading of that hour  *)
(* can reach the script any more, so the counter never forgets a send.     *)
(* The gap rests on the marker being at most MaxLag older than its send.   *)
(***************************************************************************)
EXTENDS RateLimiter, DataLemmas

TypeInv ==
    /\ now \in 0 .. MaxTime
    /\ hourCount \in [Hours -> Nat]
    /\ hourExpiry \in [Hours -> Nat]
    /\ lastSend \in Nat /\ gapExpiry \in Nat
    /\ dueAt \in [Jobs -> Int]
    /\ grantedAt \in Nat
    /\ denials \in [Jobs -> Int]

\* The counters are right, and a used one outlives its hour by the buffer.
CapInv ==
    /\ granted = hourCount
    /\ \A h \in Hours :
          /\ granted[h] <= MaxPerHour
          /\ granted[h] > 0 =>
                hourExpiry[h] >= (h + 1) * Hour + Second * Buffer

\* The marker of the last send, and when it expires.
GapInv ==
    /\ grantedAt <= now
    /\ MinGap > 0 /\ (\E h \in Hours : granted[h] > 0) =>
          /\ grantedAt <= lastSend + MaxLag
          /\ gapExpiry = grantedAt + MinGap

Inv == TypeInv /\ CapInv /\ GapInv

-------------------------------------------------------------------------------

\* Rounding up does not lose anything.
LEMMA CeilDivCovers ==
    ASSUME NEW a \in Nat, NEW b \in Nat \ {0}
    PROVE  CeilDiv(a, b) \in Nat /\ b * CeilDiv(a, b) >= a
<1> DEFINE n == a + b - 1
           q == n \div b
           r == n % b
<1>1. n \in Nat
  OBVIOUS
<1>2. q \in Nat /\ r \in 0 .. b - 1 /\ n = b * q + r
  BY <1>1, QuotientRemainder
<1>3. CeilDiv(a, b) = q
  BY DEF CeilDiv
<1> HIDE DEF q, r
<1>4. b * q \in Nat
  BY <1>2
<1> QED BY <1>2, <1>3, <1>4

\* A reading lies in its hour, and the key's time to live reaches from the
\* reading past the end of that hour by the buffer.
LEMMA TtlReachesPastTheHour ==
    ASSUME NEW t \in Nat
    PROVE  /\ HourOf(t) \in Nat /\ HourTtl(t) \in Nat
           /\ t < (HourOf(t) + 1) * Hour
           /\ t + HourTtl(t) >= (HourOf(t) + 1) * Hour + Second * Buffer
<1> DEFINE h == t \div Hour
           r == t % Hour
           rest == Hour - r
           c == CeilDiv(rest, Second)
<1>0. Hour \in Nat \ {0} /\ Second \in Nat \ {0} /\ Buffer \in Nat
  BY RateLimiterAssumption
<1>1. h \in Nat /\ r \in 0 .. Hour - 1 /\ t = Hour * h + r
  BY <1>0, QuotientRemainder
<1> HIDE DEF h, r
<1>2. rest \in Nat
  BY <1>0, <1>1
<1>3. c \in Nat /\ Second * c >= rest
  BY <1>0, <1>2, CeilDivCovers
<1>4. HourOf(t) = h /\ HourTtl(t) = Second * (c + Buffer)
  BY DEF HourOf, HourTtl, h, r
<1> HIDE DEF c
<1>5. /\ Second * (c + Buffer) = Second * c + Second * Buffer
      /\ Second * c \in Nat /\ Second * Buffer \in Nat
  BY <1>0, <1>3
<1>6. (h + 1) * Hour = Hour * h + Hour /\ Hour * h \in Nat
  BY <1>0, <1>1
<1>7. HourTtl(t) \in Nat
  BY <1>4, <1>5
<1>8. t < (h + 1) * Hour
  BY <1>0, <1>1, <1>6
<1>9. t + (Second * c + Second * Buffer) >= (h + 1) * Hour + Second * Buffer
  BY <1>0, <1>1, <1>3, <1>5, <1>6
<1> QED BY <1>1, <1>4, <1>5, <1>7, <1>8, <1>9

\* Readings are recent, and belong to an hour of the behaviour.
LEMMA ReadingFacts ==
    ASSUME TypeInv, NEW j \in Jobs, NEW t \in Readings(j)
    PROVE  t \in Nat /\ t <= now /\ now <= t + MaxLag /\ HourOf(t) \in Hours
<1>1. t \in Nat /\ t <= now /\ now <= t + MaxLag /\ now \in Nat
  BY RateLimiterAssumption DEF Readings, TypeInv
<1>2. t <= MaxTime /\ MaxTime \in Nat /\ Hour \in Nat \ {0}
  BY <1>1, RateLimiterAssumption DEF TypeInv
<1>3. t \div Hour <= MaxTime \div Hour
  BY <1>1, <1>2, QuotientMonotone
<1>4. t \div Hour \in Nat
  BY <1>1, <1>2, QuotientRemainder
<1>5. MaxTime \div Hour \in Nat
  BY <1>2, QuotientRemainder
<1> QED BY <1>1, <1>3, <1>4, <1>5 DEF Hours, HourOf

\* While readings of an hour can still arrive, its key has not expired.
LEMMA CountIsExact ==
    ASSUME Inv, NEW j \in Jobs, NEW t \in Readings(j)
    PROVE  Count(HourOf(t)) = granted[HourOf(t)]
<1> DEFINE h == HourOf(t)
<1>1. t \in Nat /\ t <= now /\ now <= t + MaxLag /\ h \in Hours
  BY ReadingFacts DEF Inv
<1>2. h \in Nat /\ t < (h + 1) * Hour
  BY <1>1, TtlReachesPastTheHour
<1>3. /\ MaxLag \in Nat /\ Hour \in Nat /\ Second * Buffer \in Nat
      /\ MaxLag <= Second * Buffer
  BY RateLimiterAssumption, LagWithinBuffer
<1>4. now \in Nat /\ hourExpiry[h] \in Nat /\ granted[h] = hourCount[h]
      /\ hourCount[h] \in Nat
  BY <1>1 DEF Inv, TypeInv, CapInv
<1> HIDE DEF h
<1>5. CASE granted[h] > 0
  <2>1. hourExpiry[h] >= (h + 1) * Hour + Second * Buffer
    BY <1>1, <1>5 DEF Inv, CapInv
  <2>2. (h + 1) * Hour \in Nat
    BY <1>2, <1>3
  <2>3. now < hourExpiry[h]
    BY <1>1, <1>2, <1>3, <1>4, <2>1, <2>2
  <2> QED BY <1>4, <2>3 DEF Count, h
<1>6. CASE ~(granted[h] > 0)
  <2>1. hourCount[h] = 0 /\ granted[h] = 0
    BY <1>4, <1>6
  <2> QED BY <2>1 DEF Count, h
<1> QED BY <1>5, <1>6

-------------------------------------------------------------------------------
(* The invariant *)

\* Nothing is counted yet.
LEMMA InvInit == Init => Inv
<1> SUFFICES ASSUME Init PROVE Inv
  OBVIOUS
<1>1. TypeInv
  BY RateLimiterAssumption DEF Init, TypeInv
<1>2. CapInv
  BY RateLimiterAssumption DEF Init, CapInv
<1>3. GapInv
  BY DEF Init, GapInv
<1> QED BY <1>1, <1>2, <1>3 DEF Inv

\* What an allowed ask finds and writes.
LEMMA AllowFacts ==
    ASSUME Inv, NEW j \in Jobs, Allow(j)
    PROVE  \E t \in Readings(j) :
              LET h == HourOf(t) IN
              /\ ~TooSoon(t)
              /\ h \in Hours /\ granted[h] + 1 <= MaxPerHour
              /\ hourCount' = [hourCount EXCEPT ![h] = granted[h] + 1]
              /\ granted' = [granted EXCEPT ![h] = granted[h] + 1]
              /\ hourExpiry' = [hourExpiry EXCEPT ![h] = now + HourTtl(t)]
              /\ IF MinGap > 0 THEN lastSend' = t /\ gapExpiry' = now + MinGap
                 ELSE UNCHANGED <<lastSend, gapExpiry>>
              /\ grantedAt' = now /\ now' = now /\ dueAt' = dueAt
              /\ denials' = [k \in Jobs |-> 0]
<1>1. PICK t \in Readings(j) :
          LET h == HourOf(t) IN
          /\ ~TooSoon(t) /\ ~Full(t)
          /\ hourCount' = [hourCount EXCEPT ![h] = Count(h) + 1]
          /\ hourExpiry' = [hourExpiry EXCEPT ![h] = now + HourTtl(t)]
          /\ IF MinGap > 0 THEN lastSend' = t /\ gapExpiry' = now + MinGap
             ELSE UNCHANGED <<lastSend, gapExpiry>>
          /\ granted' = [granted EXCEPT ![h] = @ + 1]
          /\ grantedAt' = now
          /\ denials' = [k \in Jobs |-> 0]
          /\ UNCHANGED <<now, dueAt>>
  BY DEF Allow
<1> DEFINE h == HourOf(t)
<1>2. Count(h) = granted[h]
  BY CountIsExact
<1>3. h \in Hours
  BY ReadingFacts DEF Inv
<1>4. granted[h] \in Nat
  BY <1>3 DEF Inv, TypeInv, CapInv
<1>5. granted[h] + 1 <= MaxPerHour
  BY <1>1, <1>2, <1>4, RateLimiterAssumption DEF Full
<1> HIDE DEF h
<1>6. h = HourOf(t)
  BY DEF h
<1> QED BY <1>1, <1>2, <1>3, <1>5, <1>6

\* An allowed ask keeps the invariant.
LEMMA InvAllow ==
    ASSUME Inv, NEW j \in Jobs, Allow(j)
    PROVE  Inv'
<1>1. PICK t \in Readings(j) :
          LET h == HourOf(t) IN
          /\ ~TooSoon(t)
          /\ h \in Hours /\ granted[h] + 1 <= MaxPerHour
          /\ hourCount' = [hourCount EXCEPT ![h] = granted[h] + 1]
          /\ granted' = [granted EXCEPT ![h] = granted[h] + 1]
          /\ hourExpiry' = [hourExpiry EXCEPT ![h] = now + HourTtl(t)]
          /\ IF MinGap > 0 THEN lastSend' = t /\ gapExpiry' = now + MinGap
             ELSE UNCHANGED <<lastSend, gapExpiry>>
          /\ grantedAt' = now /\ now' = now /\ dueAt' = dueAt
          /\ denials' = [k \in Jobs |-> 0]
  BY AllowFacts
<1> DEFINE h == HourOf(t)
<1>2. t \in Nat /\ t <= now /\ now <= t + MaxLag /\ h \in Hours
  BY ReadingFacts DEF Inv
<1>3. HourTtl(t) \in Nat
      /\ t + HourTtl(t) >= (h + 1) * Hour + Second * Buffer
  BY <1>2, TtlReachesPastTheHour
<1>4. now \in Nat /\ MaxLag \in Nat /\ MinGap \in Nat /\ Hour \in Nat
      /\ Second * Buffer \in Nat
  BY RateLimiterAssumption DEF Inv, TypeInv
<1>5. granted = hourCount /\ hourCount \in [Hours -> Nat]
      /\ hourExpiry \in [Hours -> Nat]
  BY DEF Inv, TypeInv, CapInv
<1>6. granted[h] \in Nat /\ now + HourTtl(t) \in Nat
  BY <1>2, <1>3, <1>4, <1>5
<1>7. /\ granted[h] + 1 <= MaxPerHour
      /\ hourCount' = [hourCount EXCEPT ![h] = granted[h] + 1]
      /\ granted' = [granted EXCEPT ![h] = granted[h] + 1]
      /\ hourExpiry' = [hourExpiry EXCEPT ![h] = now + HourTtl(t)]
  BY <1>1
<1>8. (h + 1) * Hour \in Nat
  <2>1. h \in Nat
    BY <1>2, TtlReachesPastTheHour
  <2> QED BY <2>1, <1>4
<1> HIDE DEF h
<1>9. TypeInv'
  <2>1. hourCount' \in [Hours -> Nat] /\ hourExpiry' \in [Hours -> Nat]
    BY <1>2, <1>5, <1>6, <1>7
  <2>2. lastSend' \in Nat /\ gapExpiry' \in Nat
    BY <1>1, <1>2, <1>4 DEF Inv, TypeInv
  <2>3. now' \in 0 .. MaxTime /\ grantedAt' \in Nat /\ dueAt' \in [Jobs -> Int]
        /\ denials' \in [Jobs -> Int]
    BY <1>1, <1>4 DEF Inv, TypeInv
  <2> QED BY <2>1, <2>2, <2>3 DEF TypeInv
<1>10. CapInv'
  <2>1. granted' = hourCount'
    BY <1>5, <1>7
  <2>2. ASSUME NEW k \in Hours
        PROVE  /\ granted'[k] <= MaxPerHour
               /\ granted'[k] > 0 =>
                    hourExpiry'[k] >= (k + 1) * Hour + Second * Buffer
    <3>1. CASE k = h
      <4>1. granted'[k] = granted[h] + 1 /\ hourExpiry'[k] = now + HourTtl(t)
        BY <1>5, <1>7, <1>2, <3>1
      <4> QED BY <1>2, <1>3, <1>4, <1>7, <1>8, <3>1, <4>1
    <3>2. CASE k # h
      <4>1. granted'[k] = granted[k] /\ hourExpiry'[k] = hourExpiry[k]
        BY <1>5, <1>7, <3>2
      <4> QED BY <4>1 DEF Inv, CapInv
    <3> QED BY <3>1, <3>2
  <2> QED BY <2>1, <2>2 DEF CapInv
<1>11. GapInv'
  BY <1>1, <1>2, <1>4 DEF GapInv
<1> QED BY <1>9, <1>10, <1>11 DEF Inv

\* A denied ask only moves its job.
LEMMA InvDeny ==
    ASSUME Inv, NEW j \in Jobs, Deny(j)
    PROVE  Inv'
<1>1. PICK t \in Readings(j) :
          /\ dueAt' = [dueAt EXCEPT ![j] =
                         now + (IF RetryAfter(t) > 1 THEN RetryAfter(t) ELSE 1)]
          /\ denials' = [denials EXCEPT ![j] = @ + 1]
          /\ UNCHANGED <<now, redisVars, granted, grantedAt>>
  BY DEF Deny
<1>2. t \in Nat /\ HourOf(t) \in Hours
  BY ReadingFacts DEF Inv
<1>3. RetryAfter(t) \in Int
  <2>1. HourTtl(t) \in Nat
    BY <1>2, TtlReachesPastTheHour
  <2>2. hourExpiry[HourOf(t)] \in Nat /\ now \in Nat /\ lastSend \in Nat
    BY <1>2, RateLimiterAssumption DEF Inv, TypeInv
  <2> QED BY <1>2, <2>1, <2>2, RateLimiterAssumption DEF RetryAfter
<1>4. dueAt' \in [Jobs -> Int] /\ denials' \in [Jobs -> Int]
  <2> DEFINE wait == IF RetryAfter(t) > 1 THEN RetryAfter(t) ELSE 1
  <2>1. now + wait \in Int
    BY <1>3, RateLimiterAssumption DEF Inv, TypeInv
  <2> HIDE DEF wait
  <2>2. dueAt' = [dueAt EXCEPT ![j] = now + wait]
    BY <1>1 DEF wait
  <2> QED BY <1>1, <2>1, <2>2 DEF Inv, TypeInv
<1>5. UNCHANGED <<now, hourCount, hourExpiry, lastSend, gapExpiry, granted,
                  grantedAt>>
  BY <1>1 DEF redisVars
<1>6. TypeInv'
  BY <1>4, <1>5 DEF Inv, TypeInv
<1>7. CapInv' /\ GapInv'
  BY <1>5 DEF Inv, CapInv, GapInv
<1> QED BY <1>6, <1>7 DEF Inv

\* Every step keeps the invariant.
LEMMA InvNext == Inv /\ [Next]_vars => Inv'
<1> SUFFICES ASSUME Inv, [Next]_vars PROVE Inv'
  OBVIOUS
<1>1. CASE UNCHANGED vars
  <2>1. UNCHANGED <<now, hourCount, hourExpiry, lastSend, gapExpiry, dueAt,
                    granted, grantedAt, denials>>
    BY <1>1 DEF vars, redisVars, ghostVars
  <2> QED BY <2>1 DEF Inv, TypeInv, CapInv, GapInv
<1>2. CASE Tick
  <2>1. /\ now < MaxTime /\ now' = now + 1
        /\ UNCHANGED <<hourCount, hourExpiry, lastSend, gapExpiry, dueAt,
                       granted, grantedAt, denials>>
    BY <1>2 DEF Tick, redisVars, ghostVars
  <2>2. now' \in 0 .. MaxTime /\ now <= now'
    BY <2>1, RateLimiterAssumption DEF Inv, TypeInv
  <2>3. TypeInv' /\ CapInv'
    BY <2>1, <2>2 DEF Inv, TypeInv, CapInv
  <2>4. grantedAt' <= now'
    BY <2>1, RateLimiterAssumption DEF Inv, TypeInv, GapInv
  <2> QED BY <2>1, <2>3, <2>4 DEF Inv, GapInv
<1>3. CASE \E j \in Jobs : Allow(j)
  BY <1>3, InvAllow
<1>4. CASE \E j \in Jobs : Deny(j)
  BY <1>4, InvDeny
<1> QED BY <1>1, <1>2, <1>3, <1>4 DEF Next

\* It holds throughout.
LEMMA InvAlways == Spec => []Inv
<1> QED BY InvInit, InvNext, PTL DEF Spec

\* No hour gets more than maxPerHour sends, for every cap, buffer and lag within
\* the buffer.
THEOREM HourlyCapHolds == Spec => []HourlyCap
<1>1. Inv => HourlyCap
  BY DEF Inv, CapInv, HourlyCap
<1> QED BY <1>1, InvAlways, PTL

\* Two allowed sends are at least the minimum gap apart, less the lag.
THEOREM SendsAreSpaced == Spec => SpacedSends
<1>1. Inv /\ [Next]_vars =>
        (granted' # granted /\ (\E h \in Hours : granted[h] > 0)
           => now - grantedAt >= MinGap - MaxLag)
  <2> SUFFICES ASSUME Inv, [Next]_vars, granted' # granted,
                      \E h \in Hours : granted[h] > 0
               PROVE  now - grantedAt >= MinGap - MaxLag
    OBVIOUS
  <2>1. PICK j \in Jobs : Allow(j)
    BY DEF Next, Tick, Deny, vars, ghostVars
  <2>2. PICK t \in Readings(j) : ~TooSoon(t)
    BY <2>1 DEF Allow
  <2>3. t \in Nat /\ t <= now /\ now \in Nat
    BY ReadingFacts, RateLimiterAssumption DEF Inv, TypeInv
  <2>4. /\ MinGap \in Nat /\ MaxLag \in Nat /\ grantedAt \in Nat
        /\ lastSend \in Nat /\ gapExpiry \in Nat /\ grantedAt <= now
    BY RateLimiterAssumption DEF Inv, TypeInv, GapInv
  <2>5. CASE MinGap > 0
    <3>1. grantedAt <= lastSend + MaxLag /\ gapExpiry = grantedAt + MinGap
      BY <2>5 DEF Inv, GapInv
    <3>2. now >= gapExpiry \/ t - lastSend >= MinGap
      BY <2>2, <2>3, <2>4, <2>5 DEF TooSoon
    <3> QED BY <2>3, <2>4, <3>1, <3>2
  <2>6. CASE ~(MinGap > 0)
    BY <2>3, <2>4, <2>6
  <2> QED BY <2>5, <2>6
<1> QED BY <1>1, InvAlways, PTL DEF Spec, SpacedSends

-------------------------------------------------------------------------------
(* Waiting as told *)

\* Between two grants the script's keys stay as they are.  A job that was told
\* to wait comes back past the last grant and past the gap, and one that was
\* told twice past every hour with a grant.
PastTheGap(due) ==
    MinGap = 0 \/ now >= gapExpiry \/ due - lastSend >= MinGap
PastTheHours(due) ==
    \A h \in Hours : granted[h] > 0 => (h + 1) * Hour <= due

DeferInv ==
    /\ \A h \in Hours : granted[h] > 0 => h * Hour <= grantedAt
    /\ \A j \in Jobs :
          /\ denials[j] \in 0 .. 2
          /\ denials[j] > 0 => dueAt[j] > grantedAt /\ PastTheGap(dueAt[j])
          /\ denials[j] = 2 => PastTheHours(dueAt[j])

\* A job that comes back past the gap is not too soon, however old its reading.
LEMMA NotTooSoonAgain ==
    ASSUME Inv, NEW j \in Jobs, NEW t \in Readings(j), PastTheGap(dueAt[j])
    PROVE  ~TooSoon(t)
<1>1. /\ t \in Nat /\ t >= dueAt[j] /\ now \in Nat /\ dueAt[j] \in Int
      /\ lastSend \in Nat /\ gapExpiry \in Nat /\ MinGap \in Nat
  BY ReadingFacts, RateLimiterAssumption DEF Inv, TypeInv, Readings
<1>2. CASE dueAt[j] - lastSend >= MinGap
  BY <1>1, <1>2 DEF TooSoon
<1>3. CASE MinGap = 0 \/ now >= gapExpiry
  BY <1>1, <1>3 DEF TooSoon
<1> QED BY <1>2, <1>3 DEF PastTheGap

\* An hour that is full has seen a grant, since its cap is positive.
LEMMA FullHasGrants ==
    ASSUME Inv, NEW j \in Jobs, NEW t \in Readings(j), Full(t)
    PROVE  /\ HourOf(t) \in Hours /\ granted[HourOf(t)] > 0
           /\ now < hourExpiry[HourOf(t)]
<1>1. HourOf(t) \in Hours
  BY ReadingFacts DEF Inv
<1>2. Count(HourOf(t)) = granted[HourOf(t)]
  BY CountIsExact
<1>3. /\ granted[HourOf(t)] \in Nat /\ hourExpiry[HourOf(t)] \in Nat
      /\ now \in Nat /\ MaxPerHour \in Nat \ {0}
  BY <1>1, RateLimiterAssumption DEF Inv, TypeInv, CapInv
<1>4. granted[HourOf(t)] > 0 /\ Count(HourOf(t)) # 0
  BY <1>2, <1>3 DEF Full
<1>5. now < hourExpiry[HourOf(t)]
  BY <1>4 DEF Count
<1> QED BY <1>1, <1>4, <1>5

\* What a denied job is told is enough: past the gap if that was the reason,
\* else past its hour.
LEMMA WaitIsEnough ==
    ASSUME Inv, NEW j \in Jobs, NEW t \in Readings(j), TooSoon(t) \/ Full(t),
           NEW due \in Int, due >= now + 1, due >= now + RetryAfter(t)
    PROVE  /\ due > grantedAt /\ PastTheGap(due)
           /\ ~TooSoon(t) => /\ HourOf(t) \in Hours /\ granted[HourOf(t)] > 0
                             /\ due >= (HourOf(t) + 1) * Hour
<1>1. /\ t \in Nat /\ t <= now /\ now \in Nat
      /\ lastSend \in Nat /\ gapExpiry \in Nat /\ MinGap \in Nat
      /\ grantedAt \in Nat /\ grantedAt <= now
  BY ReadingFacts, RateLimiterAssumption DEF Inv, TypeInv, GapInv
<1>2. due > grantedAt
  BY <1>1
<1>3. CASE TooSoon(t)
  <2>1. RetryAfter(t) = MinGap - (t - lastSend)
    BY <1>3 DEF RetryAfter
  <2>2. due - lastSend >= MinGap
    BY <1>1, <2>1
  <2> QED BY <1>2, <1>3, <2>2 DEF PastTheGap
<1>4. CASE ~TooSoon(t)
  <2> DEFINE h == HourOf(t)
  <2>1. h \in Hours /\ granted[h] > 0 /\ now < hourExpiry[h]
    BY <1>4, FullHasGrants
  <2>2. hourExpiry[h] \in Nat /\ hourExpiry[h] >= (h + 1) * Hour + Second * Buffer
    BY <2>1 DEF Inv, TypeInv, CapInv
  <2>3. RetryAfter(t) = hourExpiry[h] - now
    BY <1>1, <1>4, <2>1, <2>2 DEF RetryAfter
  <2>4. Second * Buffer \in Nat /\ (h + 1) * Hour \in Nat
    <3>1. h \in Nat
      BY <1>1, TtlReachesPastTheHour
    <3> QED BY <3>1, RateLimiterAssumption
  <2>5. PastTheGap(due)
    BY <1>1, <1>4 DEF PastTheGap, TooSoon
  <2> HIDE DEF h
  <2>6. due >= (h + 1) * Hour
    BY <1>1, <2>2, <2>3, <2>4
  <2> QED BY <1>2, <1>4, <2>1, <2>5, <2>6 DEF h
<1> QED BY <1>3, <1>4

\* Past the last hour with a grant no hour is full.
LEMMA NotFullAgain ==
    ASSUME Inv, NEW j \in Jobs, NEW t \in Readings(j), PastTheHours(dueAt[j])
    PROVE  ~Full(t)
<1> SUFFICES ASSUME Full(t) PROVE FALSE
  OBVIOUS
<1> DEFINE h == HourOf(t)
<1>1. h \in Hours /\ granted[h] > 0
  BY FullHasGrants
<1>2. (h + 1) * Hour <= dueAt[j]
  BY <1>1 DEF PastTheHours
<1>3. t \in Nat /\ t >= dueAt[j] /\ dueAt[j] \in Int
  BY ReadingFacts DEF Inv, TypeInv, Readings
<1>4. t < (h + 1) * Hour /\ h \in Nat
  BY <1>3, TtlReachesPastTheHour
<1>5. (h + 1) * Hour \in Nat
  BY <1>4, RateLimiterAssumption
<1> HIDE DEF h
<1> QED BY <1>2, <1>3, <1>4, <1>5

\* An ask after the last grant that fills an hour is past all hours with grants.
LEMMA LaterThanAllGrants ==
    ASSUME Inv, \A h \in Hours : granted[h] > 0 => h * Hour <= grantedAt,
           NEW t \in Nat, t > grantedAt,
           NEW due \in Int, due >= (HourOf(t) + 1) * Hour
    PROVE  PastTheHours(due)
<1> SUFFICES ASSUME NEW g \in Hours, granted[g] > 0
             PROVE  (g + 1) * Hour <= due
  BY DEF PastTheHours
<1> DEFINE h == HourOf(t)
<1>1. h \in Nat /\ t < (h + 1) * Hour
  BY TtlReachesPastTheHour
<1>2. g * Hour <= grantedAt /\ grantedAt \in Nat /\ g \in Nat /\ Hour \in Nat \ {0}
  BY RateLimiterAssumption DEF Inv, TypeInv, Hours
<1> HIDE DEF h
<1>3. g <= h
  <2> SUFFICES ASSUME h + 1 <= g PROVE FALSE
    BY <1>1, <1>2
  <2>1. Hour * (h + 1) <= Hour * g
    BY <1>1, <1>2, ProductMonotone
  <2>2. Hour * (h + 1) = (h + 1) * Hour /\ Hour * g = g * Hour
        /\ (h + 1) * Hour \in Nat /\ g * Hour \in Nat
    BY <1>1, <1>2
  <2> QED BY <1>1, <1>2, <2>1, <2>2
<1>4. Hour * (g + 1) <= Hour * (h + 1)
  BY <1>1, <1>2, <1>3, ProductMonotone
<1>5. Hour * (g + 1) = (g + 1) * Hour /\ Hour * (h + 1) = (h + 1) * Hour
      /\ (g + 1) * Hour \in Nat /\ (h + 1) * Hour \in Nat
  BY <1>1, <1>2
<1>6. due >= (h + 1) * Hour
  BY DEF h
<1> QED BY <1>4, <1>5, <1>6

\* Time passes: what was past the gap stays so.
LEMMA DeferTick ==
    ASSUME Inv, DeferInv, Tick
    PROVE  DeferInv'
<1>1. /\ now' = now + 1
      /\ UNCHANGED <<granted, grantedAt, denials, dueAt, lastSend, gapExpiry>>
  BY DEF Tick, redisVars, ghostVars
<1>2. now \in Nat /\ gapExpiry \in Nat
  BY RateLimiterAssumption DEF Inv, TypeInv
<1>3. ASSUME NEW j \in Jobs, PastTheGap(dueAt[j]) PROVE PastTheGap(dueAt[j])'
  BY <1>1, <1>2, <1>3 DEF PastTheGap
<1>4. ASSUME NEW j \in Jobs, PastTheHours(dueAt[j]) PROVE PastTheHours(dueAt[j])'
  BY <1>1, <1>4 DEF PastTheHours
<1> QED BY <1>1, <1>3, <1>4 DEF DeferInv

\* A grant is in an hour that has begun, and clears every denial.
LEMMA DeferAllow ==
    ASSUME Inv, DeferInv, NEW j \in Jobs, Allow(j)
    PROVE  DeferInv'
<1>1. PICK t \in Readings(j) :
          /\ HourOf(t) \in Hours
          /\ granted' = [granted EXCEPT ![HourOf(t)] = granted[HourOf(t)] + 1]
          /\ grantedAt' = now /\ denials' = [k \in Jobs |-> 0]
  BY AllowFacts
<1>2. t \in Nat /\ t <= now /\ now \in Nat /\ Hour \in Nat \ {0}
      /\ grantedAt \in Nat /\ grantedAt <= now
  BY ReadingFacts, RateLimiterAssumption DEF Inv, TypeInv, GapInv
<1>3. HourOf(t) * Hour <= now /\ HourOf(t) * Hour \in Nat
  <2>1. /\ t \div Hour \in Nat /\ t % Hour \in 0 .. Hour - 1
        /\ t = Hour * (t \div Hour) + (t % Hour)
    BY <1>2, QuotientRemainder
  <2>2. Hour * (t \div Hour) = (t \div Hour) * Hour /\ Hour * (t \div Hour) \in Nat
    BY <1>2, <2>1
  <2>3. (t \div Hour) * Hour <= now /\ (t \div Hour) * Hour \in Nat
    BY <1>2, <2>1, <2>2
  <2> QED BY <2>3 DEF HourOf
<1>4. ASSUME NEW h \in Hours, granted'[h] > 0 PROVE h * Hour <= grantedAt'
  <2>1. CASE h = HourOf(t)
    BY <1>1, <1>3, <2>1
  <2>2. CASE h # HourOf(t)
    <3>1. granted'[h] = granted[h]
      BY <1>1, <2>2 DEF Inv, TypeInv, CapInv
    <3>2. h * Hour <= grantedAt /\ h * Hour \in Nat
      BY <1>2, <1>4, <3>1 DEF DeferInv, Hours
    <3> QED BY <1>1, <1>2, <3>2
  <2> QED BY <2>1, <2>2
<1>5. \A k \in Jobs : denials'[k] = 0
  BY <1>1
<1> QED BY <1>4, <1>5 DEF DeferInv

\* A denial is the first of its job since the last grant, or the second.
LEMMA DeferDeny ==
    ASSUME Inv, DeferInv, NEW j \in Jobs, Deny(j)
    PROVE  DeferInv'
<1>1. PICK t \in Readings(j) :
          /\ TooSoon(t) \/ Full(t)
          /\ dueAt' = [dueAt EXCEPT ![j] =
                         now + (IF RetryAfter(t) > 1 THEN RetryAfter(t) ELSE 1)]
          /\ denials' = [denials EXCEPT ![j] = @ + 1]
          /\ UNCHANGED <<now, redisVars, granted, grantedAt>>
  BY DEF Deny
<1>2. /\ t \in Nat /\ t >= dueAt[j] /\ dueAt[j] \in Int
      /\ now \in Nat /\ grantedAt \in Nat
  BY ReadingFacts, RateLimiterAssumption DEF Inv, TypeInv, Readings
<1>3. RetryAfter(t) \in Int
  <2>1. HourTtl(t) \in Nat /\ HourOf(t) \in Hours
    BY <1>2, ReadingFacts, TtlReachesPastTheHour DEF Inv
  <2>2. hourExpiry[HourOf(t)] \in Nat /\ lastSend \in Nat
    BY <2>1 DEF Inv, TypeInv
  <2> QED BY <1>2, <2>1, <2>2, RateLimiterAssumption DEF RetryAfter
<1>4. PICK due \in Int :
          /\ due >= now + 1 /\ due >= now + RetryAfter(t)
          /\ dueAt' = [dueAt EXCEPT ![j] = due]
  <2> DEFINE wait == IF RetryAfter(t) > 1 THEN RetryAfter(t) ELSE 1
  <2>1. now + wait \in Int /\ now + wait >= now + 1 /\ now + wait >= now + RetryAfter(t)
    BY <1>2, <1>3
  <2> QED BY <1>1, <2>1
<1>5. /\ UNCHANGED <<now, granted, grantedAt, lastSend, gapExpiry>>
      /\ dueAt'[j] = due /\ denials'[j] = denials[j] + 1
      /\ \A k \in Jobs \ {j} : dueAt'[k] = dueAt[k] /\ denials'[k] = denials[k]
  BY <1>1, <1>4 DEF redisVars, Inv, TypeInv
<1>6. /\ due > grantedAt /\ PastTheGap(due)
      /\ ~TooSoon(t) => due >= (HourOf(t) + 1) * Hour
  BY <1>1, <1>4, WaitIsEnough
<1>7. ASSUME denials[j] > 0
      PROVE  PastTheHours(due) /\ denials[j] # 2
  <2>1. dueAt[j] > grantedAt /\ ~TooSoon(t)
    BY <1>7, NotTooSoonAgain DEF DeferInv
  <2>2. t > grantedAt
    BY <1>2, <2>1
  <2>3. PastTheHours(due)
    BY <1>2, <1>6, <2>1, <2>2, LaterThanAllGrants DEF DeferInv
  <2>4. denials[j] # 2
    BY <1>1, <2>1, NotFullAgain DEF DeferInv
  <2> QED BY <2>3, <2>4
<1>8. ASSUME NEW k \in Jobs, NEW d, dueAt'[k] = d
      PROVE  /\ PastTheGap(d) => PastTheGap(dueAt[k])'
             /\ PastTheHours(d) => PastTheHours(dueAt[k])'
  BY <1>5, <1>8 DEF PastTheGap, PastTheHours
<1>9. denials[j] \in 0 .. 2
  BY DEF DeferInv
<1>10. /\ denials'[j] \in 0 .. 2
       /\ denials'[j] > 0 => dueAt'[j] > grantedAt' /\ PastTheGap(dueAt[j])'
       /\ denials'[j] = 2 => PastTheHours(dueAt[j])'
  <2>1. denials'[j] \in 0 .. 2 /\ (denials'[j] = 2 => denials[j] > 0)
    BY <1>5, <1>7, <1>9
  <2>2. dueAt'[j] > grantedAt' /\ PastTheGap(dueAt[j])'
    BY <1>5, <1>6, <1>8
  <2>3. denials[j] > 0 => PastTheHours(dueAt[j])'
    BY <1>5, <1>7, <1>8
  <2> QED BY <2>1, <2>2, <2>3
<1>11. ASSUME NEW k \in Jobs \ {j}
       PROVE  /\ denials'[k] \in 0 .. 2
              /\ denials'[k] > 0 => dueAt'[k] > grantedAt' /\ PastTheGap(dueAt[k])'
              /\ denials'[k] = 2 => PastTheHours(dueAt[k])'
  BY <1>5, <1>8 DEF DeferInv
<1>12. \A h \in Hours : granted'[h] > 0 => h * Hour <= grantedAt'
  BY <1>5 DEF DeferInv
<1> QED BY <1>10, <1>11, <1>12 DEF DeferInv

\* Waiting as told is enough, for every cap, gap, buffer and lag within the
\* buffer: a job nobody overtakes is deferred at most twice.
THEOREM WaitingIsEnough == Spec => []DeferredAtMostTwice
<1>1. Init => DeferInv
  BY DEF Init, DeferInv
<1>2. Inv /\ DeferInv /\ [Next]_vars => DeferInv'
  <2> SUFFICES ASSUME Inv, DeferInv, [Next]_vars PROVE DeferInv'
    OBVIOUS
  <2>1. CASE UNCHANGED vars
    BY <2>1 DEF vars, redisVars, ghostVars, DeferInv, PastTheGap, PastTheHours
  <2> QED BY <2>1, DeferTick, DeferAllow, DeferDeny DEF Next
<1>3. DeferInv => DeferredAtMostTwice
  <2> SUFFICES ASSUME DeferInv, NEW j \in Jobs PROVE denials[j] <= 2
    BY DEF DeferredAtMostTwice
  <2>1. denials[j] \in 0 .. 2
    BY DEF DeferInv
  <2> QED BY <2>1
<1> QED BY <1>1, <1>2, <1>3, InvAlways, PTL DEF Spec
===============================================================================
