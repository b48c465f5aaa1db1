----------------------------- MODULE PlannerProofs -----------------------------
(***************************************************************************)
(* Planner for every hour length, policy, request and number of            *)
(* recipients.  With q = seq \div limit and p = seq % limit the plan is    *)
(*                                                                         *)
(*     q * Window + p * delay,   Window = the longer of an hour and        *)
(*                                        limit * delay                    *)
(*                                                                         *)
(* and both constraints follow from the step of q and p from one email to  *)
(* the next, and to the one limit places later.                            *)
(***************************************************************************)
EXTENDS Planner, DataLemmas

Window(delay, limit) == Larger(limit * delay, Hour)

-------------------------------------------------------------------------------
(* The closed form, and its steps *)

\* planSendTime is a whole number of windows plus the spacing inside one.
LEMMA ClosedForm ==
    ASSUME NEW seq \in Nat, NEW delay \in Nat, NEW limit \in Nat \ {0}
    PROVE  /\ planSendTime(seq, delay, limit) =
                  (seq \div limit) * Window(delay, limit) + (seq % limit) * delay
           /\ planSendTime(seq, delay, limit) \in Nat
<1> DEFINE q == seq \div limit
           p == seq % limit
           spacing == limit * delay
<1>1. q \in Nat /\ p \in Nat /\ seq = limit * q + p
  BY QuotientRemainder
<1>2. planSendTime(seq, delay, limit) =
          Larger(seq * delay, q * Hour + p * delay)
  BY DEF planSendTime
<1> HIDE DEF q, p
<1>3. seq * delay = q * spacing + p * delay
  BY <1>1
<1>4. spacing \in Nat /\ Hour \in Nat
  BY PlannerAssumption
<1> HIDE DEF spacing
<1>5. /\ q * spacing \in Nat /\ q * Hour \in Nat /\ p * delay \in Nat
  BY <1>1, <1>4
<1>6. CASE spacing >= Hour
  <2>1. q * Hour <= q * spacing
    BY <1>1, <1>4, <1>6, ProductMonotone
  <2>2. Larger(seq * delay, q * Hour + p * delay) = q * spacing + p * delay
    BY <1>3, <1>5, <2>1 DEF Larger
  <2>3. Window(delay, limit) = spacing
    BY <1>6 DEF Window, Larger, spacing
  <2> QED BY <1>2, <1>5, <2>2, <2>3 DEF q, p
<1>7. CASE ~(spacing >= Hour)
  <2>1. q * spacing <= q * Hour
    BY <1>1, <1>4, <1>7, ProductMonotone
  <2>2. Larger(seq * delay, q * Hour + p * delay) = q * Hour + p * delay
    BY <1>3, <1>5, <2>1 DEF Larger
  <2>3. Window(delay, limit) = Hour
    BY <1>7 DEF Window, Larger, spacing
  <2> QED BY <1>2, <1>5, <2>2, <2>3 DEF q, p
<1> QED BY <1>6, <1>7

\* A window is at least an hour and at least limit spacings long.
LEMMA WindowLength ==
    ASSUME NEW delay \in Nat, NEW limit \in Nat \ {0}
    PROVE  /\ Window(delay, limit) \in Nat
           /\ Window(delay, limit) >= Hour
           /\ Window(delay, limit) >= limit * delay
<1>1. limit * delay \in Nat /\ Hour \in Nat
  BY PlannerAssumption
<1> QED BY <1>1 DEF Window, Larger

\* The next email follows after delay, or opens the next window.
LEMMA NextSendTime ==
    ASSUME NEW seq \in Nat, NEW delay \in Nat, NEW limit \in Nat \ {0}
    PROVE  planSendTime(seq + 1, delay, limit) =
               IF (seq % limit) + 1 < limit
               THEN planSendTime(seq, delay, limit) + delay
               ELSE ((seq \div limit) + 1) * Window(delay, limit)
<1> DEFINE q == seq \div limit
           p == seq % limit
           W == Window(delay, limit)
<1>1. q \in Nat /\ p \in Nat
  BY QuotientRemainder
<1>w. W \in Nat
  BY WindowLength
<1>2. planSendTime(seq, delay, limit) = q * W + p * delay
  BY ClosedForm
<1>3. planSendTime(seq + 1, delay, limit) =
          ((seq + 1) \div limit) * W + ((seq + 1) % limit) * delay
  BY ClosedForm, seq + 1 \in Nat
<1>4. IF p + 1 < limit
      THEN (seq + 1) \div limit = q /\ (seq + 1) % limit = p + 1
      ELSE (seq + 1) \div limit = q + 1 /\ (seq + 1) % limit = 0
  BY NextPosition
<1> HIDE DEF q, p, W
<1>5. (p + 1) * delay = p * delay + delay /\ 0 * delay = 0
  BY <1>1
<1>6. q * W \in Nat /\ p * delay \in Nat /\ (q + 1) * W \in Nat
  BY <1>1, <1>w
<1>7. planSendTime(seq + 1, delay, limit) =
          IF p + 1 < limit THEN planSendTime(seq, delay, limit) + delay
                           ELSE (q + 1) * W
  BY <1>2, <1>3, <1>4, <1>5, <1>6
<1> QED BY <1>7 DEF q, p, W

\* The email one limit later has the same position in the next window.
LEMMA SendTimeOneLimitLater ==
    ASSUME NEW seq \in Nat, NEW delay \in Nat, NEW limit \in Nat \ {0}
    PROVE  planSendTime(seq + limit, delay, limit) =
               planSendTime(seq, delay, limit) + Window(delay, limit)
<1> DEFINE q == seq \div limit
           p == seq % limit
           W == Window(delay, limit)
<1>1. q \in Nat /\ p \in Nat
  BY QuotientRemainder
<1>w. W \in Nat
  BY WindowLength
<1>2. planSendTime(seq, delay, limit) = q * W + p * delay
  BY ClosedForm
<1>3. planSendTime(seq + limit, delay, limit) =
          ((seq + limit) \div limit) * W + ((seq + limit) % limit) * delay
  BY ClosedForm, seq + limit \in Nat
<1>4. (seq + limit) \div limit = q + 1 /\ (seq + limit) % limit = p
  BY SamePositionLater
<1> HIDE DEF q, p, W
<1>5. (q + 1) * W = q * W + W /\ q * W \in Nat /\ p * delay \in Nat
  BY <1>1, <1>w
<1>6. planSendTime(seq + limit, delay, limit) =
          planSendTime(seq, delay, limit) + W
  BY <1>1, <1>w, <1>2, <1>3, <1>4, <1>5
<1> QED BY <1>6 DEF W

-------------------------------------------------------------------------------
(* The two constraints *)

\* The closed form satisfies the recurrence of the earliest schedule.
LEMMA EarliestSendTime ==
    ASSUME NEW seq \in Nat \ {0}, NEW delay \in Nat, NEW limit \in Nat \ {0}
    PROVE  planSendTime(seq, delay, limit) =
               IF seq < limit
               THEN planSendTime(seq - 1, delay, limit) + delay
               ELSE Larger(planSendTime(seq - 1, delay, limit) + delay,
                           planSendTime(seq - limit, delay, limit) + Hour)
<1> DEFINE n == seq - 1
           q == n \div limit
           p == n % limit
           W == Window(delay, limit)
           T(k) == planSendTime(k, delay, limit)
<1>1. n \in Nat /\ n + 1 = seq
  OBVIOUS
<1>2. q \in Nat /\ p \in 0 .. limit - 1 /\ n = limit * q + p
  BY <1>1, QuotientRemainder
<1>3. W \in Nat /\ W >= Hour /\ W >= limit * delay /\ Hour \in Nat
  BY WindowLength, PlannerAssumption
<1>4. T(n) \in Nat /\ T(seq) \in Nat /\ T(n) = q * W + p * delay
  BY <1>1, ClosedForm
<1>5. T(seq) = IF p + 1 < limit THEN T(n) + delay ELSE (q + 1) * W
  BY <1>1, NextSendTime
<1>6. ASSUME seq >= limit
      PROVE  T(seq - limit) \in Nat /\ T(seq) = T(seq - limit) + W
  <2> DEFINE m == seq - limit
  <2>1. m \in Nat /\ m + limit = seq
    BY <1>6
  <2>2. T(m) \in Nat
    BY <2>1, ClosedForm
  <2>3. T(m + limit) = T(m) + W
    BY <2>1, SendTimeOneLimitLater
  <2> QED BY <2>1, <2>2, <2>3
<1>w. W = Larger(limit * delay, Hour)
  BY DEF Window
<1> HIDE DEF q, p, W, T
<1>7. T(seq) = IF seq < limit THEN T(n) + delay
                ELSE Larger(T(n) + delay, T(seq - limit) + Hour)
  <2>1. CASE p + 1 < limit
    <3>1. T(seq) = T(n) + delay
      BY <1>5, <2>1
    <3>2. CASE seq < limit
      BY <3>1, <3>2
    <3>3. CASE ~(seq < limit)
      <4>1. T(seq - limit) \in Nat /\ T(seq) = T(seq - limit) + W
        BY <1>6, <3>3
      <4>2. T(seq - limit) + Hour <= T(n) + delay
        BY <4>1, <3>1, <1>3, <1>4
      <4> QED BY <3>1, <3>3, <4>1, <4>2, <1>3, <1>4 DEF Larger
    <3> QED BY <3>2, <3>3
  <2>2. CASE ~(p + 1 < limit)
    <3>1. p + 1 = limit /\ T(seq) = (q + 1) * W
      BY <1>2, <1>5, <2>2
    <3>2. limit * q \in Nat /\ ~(seq < limit)
      BY <1>1, <1>2, <3>1
    <3>3. T(seq - limit) \in Nat /\ T(seq) = T(seq - limit) + W
      BY <1>6, <3>2
    <3>4. (q + 1) * W = q * W + W /\ q * W \in Nat
      BY <1>2, <1>3
    <3>5. limit * delay = p * delay + delay
      BY <1>2, <3>1
    <3>6. limit * delay \in Nat /\ p * delay \in Nat
      BY <1>2
    <3>7. T(seq - limit) = q * W /\ T(n) + delay = q * W + limit * delay
      BY <1>2, <1>3, <1>4, <3>1, <3>3, <3>4, <3>5, <3>6
    <3>8. Larger(q * W + limit * delay, q * W + Hour) = q * W + W
      BY <1>3, <1>w, <3>4, <3>6 DEF Larger
    <3> QED BY <3>1, <3>2, <3>4, <3>7, <3>8
  <2> QED BY <2>1, <2>2
<1> QED BY <1>7 DEF T

\* A later email is at least one spacing later.
LEMMA SendTimesSpaced ==
    ASSUME NEW a \in Nat, NEW b \in Nat, a < b,
           NEW delay \in Nat, NEW limit \in Nat \ {0}
    PROVE  planSendTime(b, delay, limit) - planSendTime(a, delay, limit) >= delay
<1> DEFINE qa == a \div limit
           pa == a % limit
           qb == b \div limit
           pb == b % limit
           W == Window(delay, limit)
<1>1. qa \in Nat /\ pa \in 0 .. limit - 1 /\ a = limit * qa + pa
  BY QuotientRemainder
<1>2. qb \in Nat /\ pb \in 0 .. limit - 1 /\ b = limit * qb + pb
  BY QuotientRemainder
<1>3. W \in Nat /\ W >= limit * delay
  BY WindowLength
<1>4. planSendTime(a, delay, limit) = qa * W + pa * delay
  BY ClosedForm
<1>5. planSendTime(b, delay, limit) = qb * W + pb * delay
  BY ClosedForm
<1> HIDE DEF qa, pa, qb, pb, W
<1>6. (qb * W + pb * delay) - (qa * W + pa * delay) >= delay
  <2>1. CASE qb = qa
    <3>1. pb >= pa + 1
      BY <1>1, <1>2, <2>1
    <3>2. delay * (pa + 1) <= delay * pb
      BY <1>1, <1>2, <3>1, ProductMonotone
    <3>3. delay * (pa + 1) = pa * delay + delay /\ delay * pb = pb * delay
      BY <1>1, <1>2
    <3>4. pa * delay \in Nat /\ pb * delay \in Nat /\ qa * W \in Nat
      BY <1>1, <1>2, <1>3
    <3> QED BY <2>1, <3>2, <3>3, <3>4
  <2>2. CASE qb > qa
    <3>1. W * (qa + 1) <= W * qb
      BY <1>1, <1>2, <1>3, <2>2, ProductMonotone
    <3>2. W * (qa + 1) = qa * W + W /\ W * qb = qb * W
      BY <1>1, <1>2, <1>3
    <3>3. delay * (pa + 1) <= delay * limit
      BY <1>1, ProductMonotone
    <3>4. delay * (pa + 1) = pa * delay + delay /\ delay * limit = limit * delay
      BY <1>1
    <3>5. /\ pa * delay \in Nat /\ pb * delay \in Nat /\ qa * W \in Nat
          /\ qb * W \in Nat /\ limit * delay \in Nat
      BY <1>1, <1>2, <1>3
    <3> QED BY <1>3, <3>1, <3>2, <3>3, <3>4, <3>5
  <2>3. CASE qb < qa
    <3>1. limit * (qb + 1) <= limit * qa
      BY <1>1, <1>2, <2>3, ProductMonotone
    <3>2. limit * (qb + 1) = limit * qb + limit /\ limit * qb \in Nat
                                                /\ limit * qa \in Nat
      BY <1>1, <1>2
    <3>3. FALSE
      BY <1>1, <1>2, <3>1, <3>2
    <3> QED BY <3>3
  <2> QED BY <1>1, <1>2, <2>1, <2>2, <2>3
<1> QED BY <1>4, <1>5, <1>6

\* An email limit places later, or more, is at least an hour later.
LEMMA SendTimesWithinCap ==
    ASSUME NEW a \in Nat, NEW b \in Nat,
           NEW delay \in Nat, NEW limit \in Nat \ {0}, a + limit <= b
    PROVE  planSendTime(b, delay, limit) - planSendTime(a, delay, limit) >= Hour
<1> DEFINE T(k) == planSendTime(k, delay, limit)
           m == a + limit
<1>1. m \in Nat /\ Hour \in Nat
  BY PlannerAssumption
<1>2. T(a) \in Nat /\ T(b) \in Nat /\ T(m) \in Nat
  BY <1>1, ClosedForm
<1>3. T(m) = T(a) + Window(delay, limit)
  BY SendTimeOneLimitLater
<1>4. Window(delay, limit) \in Nat /\ Window(delay, limit) >= Hour
  BY WindowLength
<1>5. T(b) >= T(m)
  <2>1. CASE m = b
    BY <2>1, <1>2
  <2>2. CASE m < b
    <3>1. T(b) - T(m) >= delay
      BY <1>1, <2>2, SendTimesSpaced
    <3> HIDE DEF T
    <3> QED BY <1>2, <3>1
  <2> QED BY <1>1, <2>1, <2>2
<1> HIDE DEF T, m
<1>6. T(b) - T(a) >= Hour
  BY <1>1, <1>2, <1>3, <1>4, <1>5
<1> QED BY <1>6 DEF T

-------------------------------------------------------------------------------
(* The plan *)

\* The rows planned so far are those of the request, in sequence order.
PlanInv ==
    /\ request \in [delayMs : Delays, hourlyLimit : HourlyLimits,
                    senders : SenderCounts]
    /\ Len(plan) \in 0 .. MaxRecipients
    /\ plan \in Seq([sender : Nat, at : Nat])
    /\ \A i \in 1 .. Len(plan) : plan[i] = PlannedRow(request, i - 1)

\* The operator's policy turns any request into usable knobs.
LEMMA EffectiveKnobs ==
    ASSUME NEW req \in [delayMs : Delays, hourlyLimit : HourlyLimits,
                        senders : SenderCounts]
    PROVE  /\ EffectiveDelay(req) \in Nat /\ EffectiveDelay(req) >= MinDelay
           /\ EffectiveLimit(req) \in Nat \ {0}
           /\ EffectiveLimit(req) <= MaxPerHour
           /\ req.senders \in Nat \ {0}
<1>1. req.delayMs \in Nat /\ req.hourlyLimit \in Nat \ {0}
      /\ req.senders \in Nat \ {0}
  BY PlannerAssumption
<1>2. MinDelay \in Nat /\ MaxPerHour \in Nat \ {0}
  BY PlannerAssumption
<1> QED BY <1>1, <1>2 DEF EffectiveDelay, EffectiveLimit, Larger, Smaller

\* A planned row has a sender index and a send time.
LEMMA PlannedRowType ==
    ASSUME NEW req \in [delayMs : Delays, hourlyLimit : HourlyLimits,
                        senders : SenderCounts],
           NEW seq \in Nat
    PROVE  PlannedRow(req, seq) \in [sender : Nat, at : Nat]
<1>1. req.senders \in Nat \ {0}
  BY EffectiveKnobs
<1>2. SenderIndex(req, seq) \in Nat
  BY <1>1, QuotientRemainder DEF SenderIndex
<1>3. planSendTime(seq, EffectiveDelay(req), EffectiveLimit(req)) \in Nat
  <2>1. EffectiveDelay(req) \in Nat /\ EffectiveLimit(req) \in Nat \ {0}
    BY EffectiveKnobs
  <2> QED BY <2>1, ClosedForm
<1> QED BY <1>2, <1>3 DEF PlannedRow

\* The empty plan.
LEMMA PlanInit == Init => PlanInv
BY PlannerAssumption DEF Init, PlanInv

\* One more row.
LEMMA PlanStep == PlanInv /\ [PlanNext]_vars => PlanInv'
<1> SUFFICES ASSUME PlanInv, [PlanNext]_vars PROVE PlanInv'
  OBVIOUS
<1>1. CASE UNCHANGED vars
  BY <1>1 DEF vars, PlanInv
<1>2. CASE PlanNext
  <2> DEFINE row == PlannedRow(request, Len(plan))
  <2>1. /\ Len(plan) < MaxRecipients /\ Len(plan) \in Nat
        /\ plan' = Append(plan, row)
        /\ request' = request
    BY <1>2 DEF PlanNext, PlanInv
  <2>2. row \in [sender : Nat, at : Nat]
    BY <2>1, PlannedRowType DEF PlanInv
  <2> HIDE DEF row
  <2>3. plan' \in Seq([sender : Nat, at : Nat]) /\ Len(plan') = Len(plan) + 1
    BY <2>1, <2>2 DEF PlanInv
  <2>4. ASSUME NEW i \in 1 .. Len(plan')
        PROVE  plan'[i] = PlannedRow(request, i - 1)
    <3>1. CASE i <= Len(plan)
      BY <2>1, <2>2, <2>3, <3>1 DEF PlanInv
    <3>2. CASE i = Len(plan) + 1
      <4>1. plan'[i] = row /\ i - 1 = Len(plan)
        BY <2>1, <2>2, <3>2 DEF PlanInv
      <4> QED BY <4>1 DEF row
    <3> QED BY <2>1, <2>3, <3>1, <3>2
  <2>5. Len(plan') \in 0 .. MaxRecipients
    BY <2>1, <2>3, PlannerAssumption
  <2> QED BY <2>1, <2>3, <2>4, <2>5 DEF PlanInv
<1> QED BY <1>1, <1>2

\* In every plan the emails are where planSendTime puts them.
LEMMA PlanAlways == Spec => []PlanInv
<1> QED BY PlanInit, PlanStep, PTL DEF Spec

\* A planned row's time.
LEMMA PlannedTime ==
    ASSUME PlanInv, NEW i \in 1 .. Len(plan)
    PROVE  plan[i].at =
               planSendTime(i - 1, EffectiveDelay(request), EffectiveLimit(request))
<1>1. plan[i] = PlannedRow(request, i - 1)
  BY DEF PlanInv
<1>2. PlannedRow(request, i - 1).at =
          planSendTime(i - 1, EffectiveDelay(request), EffectiveLimit(request))
  BY DEF PlannedRow
<1> QED BY <1>1, <1>2

\* For every policy, request and number of recipients the plan is the earliest
\* one that respects the spacing and the hourly limit.
THEOREM PlanIsEarliest == Spec => []EarliestPlan
<1>1. PlanInv => EarliestPlan
  <2> SUFFICES ASSUME PlanInv PROVE EarliestPlan
    OBVIOUS
  <2> DEFINE delay == EffectiveDelay(request)
             limit == EffectiveLimit(request)
  <2>1. delay \in Nat /\ limit \in Nat \ {0}
    BY EffectiveKnobs DEF PlanInv
  <2>2. Len(plan) \in Nat
    BY DEF PlanInv
  <2>3. \A i \in 1 .. Len(plan) : plan[i].at = planSendTime(i - 1, delay, limit)
    BY PlannedTime
  <2> HIDE DEF delay, limit
  <2>4. ASSUME NEW i \in 1 .. Len(plan)
        PROVE  plan[i].at =
                   IF i = 1 THEN 0
                   ELSE IF i <= limit THEN plan[i - 1].at + delay
                   ELSE Larger(plan[i - 1].at + delay, plan[i - limit].at + Hour)
    <3> DEFINE seq == i - 1
    <3>1. CASE i = 1
      <4>1. plan[i].at = planSendTime(0, delay, limit)
        BY <2>3, <3>1
      <4>2. 0 \div limit = 0 /\ 0 % limit = 0
        <5>1. 0 = limit * 0 + 0 /\ 0 \in 0 .. limit - 1
          BY <2>1
        <5> QED BY <2>1, <5>1, DivisionIsUnique
      <4>3. planSendTime(0, delay, limit) = 0
        BY <2>1, <4>2, PlannerAssumption DEF planSendTime, Larger
      <4> QED BY <3>1, <4>1, <4>3
    <3>2. CASE i # 1
      <4>1. seq \in Nat \ {0}
        BY <2>2, <3>2
      <4>2. planSendTime(seq, delay, limit) =
                IF seq < limit
                THEN planSendTime(seq - 1, delay, limit) + delay
                ELSE Larger(planSendTime(seq - 1, delay, limit) + delay,
                            planSendTime(seq - limit, delay, limit) + Hour)
        BY <2>1, <4>1, EarliestSendTime
      <4>3. /\ plan[i].at = planSendTime(seq, delay, limit)
            /\ plan[i - 1].at = planSendTime(seq - 1, delay, limit)
        <5>1. i - 1 \in 1 .. Len(plan)
          BY <2>2, <3>2
        <5> QED BY <2>3, <5>1
      <4>4. CASE i <= limit
        BY <2>1, <2>2, <3>2, <4>2, <4>3, <4>4
      <4>5. CASE ~(i <= limit)
        <5>1. i - limit \in 1 .. Len(plan) /\ (i - limit) - 1 = seq - limit
          BY <2>1, <2>2, <4>5
        <5>2. plan[i - limit].at = planSendTime(seq - limit, delay, limit)
          BY <2>3, <5>1
        <5>3. ~(seq < limit)
          BY <2>1, <4>5
        <5> QED BY <3>2, <4>2, <4>3, <4>5, <5>2, <5>3
      <4> QED BY <4>4, <4>5
    <3> QED BY <3>1, <3>2
  <2> QED BY <2>4 DEF EarliestPlan, delay, limit
<1> QED BY <1>1, PlanAlways, PTL

\* For every request the operator's minimum spacing and hourly maximum hold.
THEOREM OperatorLimitsHold == Spec => []OperatorLimits
<1>1. PlanInv => OperatorLimits
  <2> SUFFICES ASSUME PlanInv,
                      NEW i \in 1 .. Len(plan), NEW j \in 1 .. Len(plan)
               PROVE  /\ i < j => plan[j].at - plan[i].at >= MinDelay
                      /\ j - i >= MaxPerHour => plan[j].at - plan[i].at >= Hour
    BY DEF OperatorLimits
  <2> DEFINE delay == EffectiveDelay(request)
             limit == EffectiveLimit(request)
             a == i - 1
             b == j - 1
  <2>1. /\ delay \in Nat /\ delay >= MinDelay
        /\ limit \in Nat \ {0} /\ limit <= MaxPerHour
    BY EffectiveKnobs DEF PlanInv
  <2>2. a \in Nat /\ b \in Nat
    BY DEF PlanInv
  <2>3. /\ plan[i].at = planSendTime(a, delay, limit)
        /\ plan[j].at = planSendTime(b, delay, limit)
    BY PlannedTime
  <2>4. plan[i].at \in Nat /\ plan[j].at \in Nat
    <3> HIDE DEF delay, limit, a, b
    <3>1. planSendTime(a, delay, limit) \in Nat
      BY <2>1, <2>2, ClosedForm
    <3>2. planSendTime(b, delay, limit) \in Nat
      BY <2>1, <2>2, ClosedForm
    <3> QED BY <2>3, <3>1, <3>2
  <2> HIDE DEF delay, limit
  <2>5. ASSUME i < j PROVE plan[j].at - plan[i].at >= MinDelay
    <3>1. a < b
      BY <2>5, <2>2
    <3>2. planSendTime(b, delay, limit) - planSendTime(a, delay, limit) >= delay
      BY <2>1, <2>2, <3>1, SendTimesSpaced
    <3>3. plan[j].at - plan[i].at >= delay
      BY <2>3, <3>2
    <3> QED BY <2>1, <2>4, <3>3, PlannerAssumption
  <2>6. ASSUME j - i >= MaxPerHour PROVE plan[j].at - plan[i].at >= Hour
    <3>1. a + limit <= b
      BY <2>1, <2>2, <2>6, PlannerAssumption
    <3>2. planSendTime(b, delay, limit) - planSendTime(a, delay, limit) >= Hour
      BY <2>1, <2>2, <3>1, SendTimesWithinCap
    <3> QED BY <2>3, <3>2
  <2> QED BY <2>5, <2>6
<1> QED BY <1>1, PlanAlways, PTL

-------------------------------------------------------------------------------
(* The round robin *)

\* The rows of a sender, and how many it has: one in each full round, and one
\* more if the current round has passed it.
RowsOf(k) == { i \in 1 .. Len(plan) : plan[i].sender = k }
Rounds == Len(plan) \div request.senders
Passed == Len(plan) % request.senders

Shared ==
    \A k \in 0 .. request.senders - 1 :
        /\ IsFiniteSet(RowsOf(k))
        /\ Cardinality(RowsOf(k)) = IF k < Passed THEN Rounds + 1 ELSE Rounds

\* No row, no round.
LEMMA SharedInit == Init => Shared
<1> SUFFICES ASSUME Init, NEW k \in 0 .. request.senders - 1
             PROVE  /\ IsFiniteSet(RowsOf(k))
                    /\ Cardinality(RowsOf(k)) = IF k < Passed THEN Rounds + 1 ELSE Rounds
  BY DEF Shared
<1>1. request.senders \in Nat \ {0}
  BY PlanInit, EffectiveKnobs DEF PlanInv
<1>2. Len(plan) = 0
  BY DEF Init
<1>3. RowsOf(k) = {}
  BY <1>2 DEF RowsOf
<1>4. Rounds = 0 /\ Passed = 0
  <2>1. 0 = request.senders * 0 + 0 /\ 0 \in 0 .. request.senders - 1
    BY <1>1
  <2> QED BY <1>1, <1>2, <2>1, DivisionIsUnique DEF Rounds, Passed
<1> QED BY <1>3, <1>4, FS_EmptySet

\* The next row goes to the sender whose turn it is.
LEMMA SharedStep ==
    ASSUME PlanInv, PlanInv', Shared, PlanNext
    PROVE  Shared'
<1> SUFFICES ASSUME NEW k \in 0 .. request.senders - 1
             PROVE  /\ IsFiniteSet(RowsOf(k)')
                    /\ Cardinality(RowsOf(k)') =
                          IF k < Passed' THEN Rounds' + 1 ELSE Rounds'
  BY DEF Shared, PlanNext
<1>1. PICK n \in Nat : n = Len(plan)
  BY DEF PlanInv
<1>2. PICK m \in Nat \ {0} : m = request.senders
  BY EffectiveKnobs DEF PlanInv
<1>3. request' = request /\ Len(plan') = n + 1
      /\ \A i \in 1 .. n : plan'[i] = plan[i]
  <2>1. PlannedRow(request, Len(plan)) \in [sender : Nat, at : Nat]
    BY <1>1, PlannedRowType DEF PlanInv
  <2> QED BY <1>1, <2>1 DEF PlanNext, PlanInv
<1>4. plan'[n + 1].sender = n % m
  <2>1. n + 1 \in 1 .. Len(plan') /\ (n + 1) - 1 = n
    BY <1>3
  <2>2. plan'[n + 1] = PlannedRow(request, (n + 1) - 1)
    BY <1>3, <2>1 DEF PlanInv
  <2> QED BY <1>2, <2>1, <2>2 DEF PlannedRow, SenderIndex
<1>5. RowsOf(k)' = IF k = n % m THEN RowsOf(k) \cup {n + 1} ELSE RowsOf(k)
  BY <1>1, <1>3, <1>4 DEF RowsOf
<1>6. /\ Rounds = n \div m /\ Passed = n % m
      /\ Rounds' = (n + 1) \div m /\ Passed' = (n + 1) % m
  BY <1>1, <1>2, <1>3 DEF Rounds, Passed
<1>7. PICK q \in Nat, p \in 0 .. m - 1 :
          /\ q = n \div m /\ p = n % m
          /\ IF p + 1 < m THEN (n + 1) \div m = q /\ (n + 1) % m = p + 1
                          ELSE (n + 1) \div m = q + 1 /\ (n + 1) % m = 0
  BY QuotientRemainder, NextPosition
<1>8. /\ IsFiniteSet(RowsOf(k))
      /\ Cardinality(RowsOf(k)) = IF k < p THEN q + 1 ELSE q
  BY <1>2, <1>6, <1>7 DEF Shared
<1>9. n + 1 \notin RowsOf(k)
  BY <1>1 DEF RowsOf
<1>10. k \in 0 .. m - 1
  BY <1>2
<1>11. CASE k = p
  <2>1. /\ IsFiniteSet(RowsOf(k)')
        /\ Cardinality(RowsOf(k)') = Cardinality(RowsOf(k)) + 1
    BY <1>5, <1>7, <1>8, <1>9, <1>11, FS_AddElement
  <2>2. Cardinality(RowsOf(k)') = q + 1
    BY <1>8, <1>11, <2>1
  <2> QED BY <1>6, <1>7, <1>10, <1>11, <2>1, <2>2
<1>12. CASE k # p
  <2>1. RowsOf(k)' = RowsOf(k)
    BY <1>5, <1>7, <1>12
  <2> QED BY <1>6, <1>7, <1>8, <1>10, <1>12, <2>1
<1> QED BY <1>11, <1>12

\* For every request and every number of recipients no sender gets more than
\* one email more than another.
THEOREM SendersAreBalanced == Spec => []SendersBalanced
<1>1. PlanInv /\ PlanInv' /\ Shared /\ [PlanNext]_vars => Shared'
  <2>1. Shared /\ UNCHANGED vars => Shared'
    BY DEF Shared, vars, RowsOf, Rounds, Passed
  <2> QED BY <2>1, SharedStep
<1>2. PlanInv /\ Shared => SendersBalanced
  <2> SUFFICES ASSUME PlanInv, Shared,
                      NEW a \in 0 .. request.senders - 1,
                      NEW b \in 0 .. request.senders - 1
               PROVE  Cardinality(RowsOf(a)) <= Cardinality(RowsOf(b)) + 1
    BY DEF SendersBalanced, RowsOf
  <2>1. Rounds \in Nat
    <3>1. request.senders \in Nat \ {0} /\ Len(plan) \in Nat
      BY EffectiveKnobs DEF PlanInv
    <3> QED BY <3>1, QuotientRemainder DEF Rounds
  <2>2. /\ Cardinality(RowsOf(a)) \in { Rounds, Rounds + 1 }
        /\ Cardinality(RowsOf(b)) \in { Rounds, Rounds + 1 }
    BY DEF Shared
  <2> QED BY <2>1, <2>2
<1> QED BY <1>1, <1>2, SharedInit, PlanAlways, PTL DEF Spec
===============================================================================
