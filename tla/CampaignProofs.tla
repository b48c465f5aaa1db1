---------------------------- MODULE CampaignProofs ----------------------------
(***************************************************************************)
(* Theorems about finished rows and finished campaigns.  Two writes of the *)
(* processor are unconditional (SENT and FAILED), and so are the verdict   *)
(* on a campaign and its cancellation: why none of them undoes a result    *)
(* that was already reported, as long as no claim outlives the stale       *)
(* threshold and no reply of a write is lost; and why no finalization is   *)
(* lost when moreover no run is interrupted.                               *)
(***************************************************************************)
EXTENDS MailSchedulerProofs, RowStatus

Gentle == Events \cap { "slow", "db" } = {}

\* From the won claim to the write of the result.
FlightPcs == { "limit", "release", "send", "record", "rollback", "fail" }

\* The row of a slot in flight is its own, and recently claimed.
FlightInv ==
    \A s \in Slots :
        pc[s] \in FlightPcs =>
            status[job[s]] = "PROCESSING" /\ claimedAt[job[s]] = "fresh"

\* What the step of a run does to its row.
LEMMA FlightStep ==
    ASSUME Gentle, TypeInv, OwnerInv, FlightInv,
           NEW s \in Slots, SlotStep(s) \/ SlotDbError(s)
    PROVE  /\ pc'[s] \in FlightPcs =>
                 status'[job[s]] = "PROCESSING" /\ claimedAt'[job[s]] = "fresh"
           /\ status[job[s]] \in Terminal => status'[job[s]] = status[job[s]]
           /\ status[job[s]] = "ABSENT" <=> status'[job[s]] = "ABSENT"
           /\ pc[s] \notin OwnerPcs /\ status[job[s]] = "PROCESSING" =>
                 claimedAt'[job[s]] = claimedAt[job[s]]
  <1>1. job[s] \in Rows /\ "db" \notin Events
    BY StepIsLocal DEF Gentle
  <1> USE <1>1, HandlerIsStep
      DEF TypeInv, FlightInv, FlightPcs, OwnerPcs, Finalizing, LedgerTypeOK,
          ProcessorInv, ProcessorTypeOK, Terminal
  <1>2. CASE SlotDbError(s)
    BY <1>2 DEF SlotDbError, DbError, Raise, Goto, Handler, InTry, ledgerVars
  <1>3. CASE Load(s) \/ Limit(s) \/ Defer(s) \/ Send(s) \/ CountPending(s)
             \/ CountFailed(s) \/ Return(s) \/ Throw(s)
    BY <1>3 DEF Load, Limit, Defer, Send, CountPending, CountFailed, Return, Throw,
                Raise, Goto, Handler, InTry, Forget, ledgerVars
  <1>4. CASE Claim(s)
    BY <1>4 DEF Claim, UpdateWhere, Written, Raise, Goto, Handler, InTry
  <1>5. CASE Release(s) \/ Rollback(s)
    BY <1>5 DEF Release, Rollback, ReleaseRow, UpdateWhere, Written, Raise, Goto,
                Handler, InTry
  <1>6. CASE Record(s) \/ Fail(s)
    BY <1>6 DEF Record, Fail, Conclude, Raise, Goto
  <1>7. CASE Flip(s) \/ Classify(s)
    BY <1>7 DEF Flip, Classify, Written, Raise, Goto
  <1> QED BY <1>2, <1>3, <1>4, <1>5, <1>6, <1>7 DEF SlotStep, Step

\* A run changes the time of its own row's claim only.
LEMMA ClaimIsLocal ==
    ASSUME TypeInv, NEW s \in Slots, SlotStep(s) \/ SlotDbError(s)
    PROVE  \A r \in Rows : r # job[s] => claimedAt'[r] = claimedAt[r]
  BY StepIsLocal
     DEF SlotStep, Step, Load, Claim, Limit, Release, ReleaseRow, Defer, Send,
         Record, Rollback, Fail, CountPending, Flip, CountFailed, Classify,
         Return, Throw, SlotDbError, DbError, ledgerVars, TypeInv, LedgerTypeOK

\* Nobody else writes a row in flight; a terminal row, nobody at all; and only
\* the transaction that creates a campaign makes rows.
LEMMA OthersKeepRows ==
    ASSUME Gentle, TypeInv, FlightInv, [Next]_vars,
           ~ \E s \in Slots : SlotStep(s) \/ SlotDbError(s)
    PROVE  /\ \A s \in Slots : pc'[s] \in OwnerPcs =>
                 pc'[s] = pc[s] /\ job'[s] = job[s]
           /\ \A s \in Slots : pc[s] \in FlightPcs =>
                 /\ status'[job[s]] = status[job[s]]
                 /\ claimedAt'[job[s]] = claimedAt[job[s]]
           /\ \A r \in Rows :
                 /\ status[r] \in Terminal => status'[r] = status[r]
                 /\ status'[r] = "ABSENT" => status[r] = "ABSENT"
  <1>1. \A s \in Slots : pc'[s] \in OwnerPcs => pc'[s] = pc[s] /\ job'[s] = job[s]
    BY Actors, OthersKeepRuns
  <1>2. \A s \in Slots : pc[s] \in FlightPcs => job[s] \in Rows
    BY DEF TypeInv, ProcessorInv, ProcessorTypeOK, FlightPcs
  <1> USE <1>2 DEF TypeInv, LedgerTypeOK, FlightInv, Terminal, UpdateWhere
  <1>3. CASE UNCHANGED <<status, claimedAt>>
    BY <1>1, <1>3
  <1>4. ASSUME NEW w \in Workers, FailStaleProcessing(w)
        PROVE  /\ \A s \in Slots : pc[s] \in FlightPcs =>
                     /\ status'[job[s]] = status[job[s]]
                     /\ claimedAt'[job[s]] = claimedAt[job[s]]
               /\ \A r \in Rows :
                     /\ status[r] \in Terminal => status'[r] = status[r]
                     /\ status'[r] = "ABSENT" => status[r] = "ABSENT"
    BY <1>4 DEF FailStaleProcessing, IsStale
  <1>5. ASSUME NEW c \in Campaigns, CommitCampaign(c) \/ CommitCancel(c)
        PROVE  /\ \A s \in Slots : pc[s] \in FlightPcs =>
                     /\ status'[job[s]] = status[job[s]]
                     /\ claimedAt'[job[s]] = claimedAt[job[s]]
               /\ \A r \in Rows :
                     /\ status[r] \in Terminal => status'[r] = status[r]
                     /\ status'[r] = "ABSENT" => status[r] = "ABSENT"
    BY <1>5 DEF CommitCampaign, CommitCancel
  <1>6. ASSUME NEW r \in Rows, ClaimAges(r)
        PROVE  /\ \A s \in Slots : pc[s] \in FlightPcs =>
                     /\ status'[job[s]] = status[job[s]]
                     /\ claimedAt'[job[s]] = claimedAt[job[s]]
               /\ status' = status
    BY <1>6 DEF ClaimAges, Gentle, Owns, OwnerPcs, FlightPcs
  <1>7. \/ UNCHANGED <<status, claimedAt>>
        \/ \E w \in Workers : FailStaleProcessing(w)
        \/ \E c \in Campaigns : CommitCampaign(c) \/ CommitCancel(c)
        \/ \E r \in Rows : ClaimAges(r)
    <2>1. CASE UNCHANGED vars
      BY <2>1 DEF vars, ledgerVars
    <2>2. CASE \E s \in Slots, r \in Rows : SlotTake(s, r)
      BY <2>2 DEF SlotTake, Take, ledgerVars
    <2>3. CASE \E w \in Workers : \/ WorkerBoots(w) \/ WorkerCloses(w)
                                  \/ WorkerExits(w) \/ WorkerDies(w)
      BY <2>3 DEF WorkerBoots, Boot, Reconcile, ScanScheduled, ProbeJobs,
                  RequeueMissing, WorkerCloses, Close, WorkerExits, Exit,
                  WorkerDies, Die, ledgerVars
    <2>4. CASE RequestStep
      BY <2>4 DEF RequestStep, RequestsDie, ApiCrash, EnqueueError, RequestArrives,
                  CheckCancel, RequestEnqueues, EnqueueChunk, RequestCancels,
                  ReadToCancel, RemoveNext, FinishCancel, ledgerVars
    <2>5. CASE BackgroundStep
      BY <2>5 DEF BackgroundStep, RedisLosesQueue, QueueStep, LockExpires,
                  StalledJobMoves, JobEvicted, ledgerVars
    <2> QED BY <2>1, <2>2, <2>3, <2>4, <2>5, Actors
  <1> QED BY <1>1, <1>3, <1>4, <1>5, <1>6, <1>7

\* A slot in flight that another slot's step does not concern.
LEMMA OtherFlight ==
    ASSUME Gentle, TypeInv, OwnerInv, FlightInv, NEW s \in Slots,
           SlotStep(s) \/ SlotDbError(s), NEW t \in Slots, t # s, pc[t] \in FlightPcs
    PROVE  /\ job[t] \in Rows
           /\ status'[job[t]] = status[job[t]] /\ claimedAt'[job[t]] = claimedAt[job[t]]
  <1>1. job[t] \in Rows /\ pc[t] \in OwnerPcs /\ status[job[t]] = "PROCESSING"
    BY DEF TypeInv, ProcessorInv, ProcessorTypeOK, FlightPcs, OwnerPcs, FlightInv
  <1>2. CASE job[t] # job[s]
    BY <1>1, <1>2, StepIsLocal, ClaimIsLocal
  <1>3. CASE job[t] = job[s]
    <2>1. pc[s] \notin OwnerPcs
      BY <1>1, <1>3, StepIsLocal DEF OwnerInv, OneOwner, Owns
    <2> QED BY <1>1, <1>3, <2>1, StepOwner, FlightStep DEF Held
  <1> QED BY <1>1, <1>2, <1>3

\* Rows in flight stay so until their own slot ends the flight.
LEMMA FlightNext ==
    ASSUME Gentle, TypeInv, OwnerInv, FlightInv, [Next]_vars
    PROVE  FlightInv'
  <1>1. ASSUME NEW s \in Slots, SlotStep(s) \/ SlotDbError(s)
        PROVE  FlightInv'
    <2>1. ASSUME NEW t \in Slots, pc'[t] \in FlightPcs
          PROVE  status'[job'[t]] = "PROCESSING" /\ claimedAt'[job'[t]] = "fresh"
      <3>1. CASE t = s
        BY <1>1, <2>1, <3>1, FlightStep, StepOwner DEF FlightPcs, OwnerPcs
      <3>2. CASE t # s
        BY <1>1, <2>1, <3>2, StepIsLocal, OtherFlight DEF FlightInv
      <3> QED BY <3>1, <3>2
    <2> QED BY <2>1 DEF FlightInv
  <1>2. ASSUME ~ \E s \in Slots : SlotStep(s) \/ SlotDbError(s)
        PROVE  FlightInv'
    BY <1>2, OthersKeepRows DEF FlightInv, FlightPcs, OwnerPcs
  <1> QED BY <1>1, <1>2

\* Every step leaves terminal rows alone and unmakes no row.
LEMMA RowsStay ==
    ASSUME Gentle, TypeInv, OwnerInv, FlightInv, [Next]_vars
    PROVE  \A r \in Rows :
              /\ status[r] \in Terminal => status'[r] = status[r]
              /\ status'[r] = "ABSENT" => status[r] = "ABSENT"
  <1>1. ASSUME NEW s \in Slots, SlotStep(s) \/ SlotDbError(s)
        PROVE  \A r \in Rows :
                  /\ status[r] \in Terminal => status'[r] = status[r]
                  /\ status'[r] = "ABSENT" => status[r] = "ABSENT"
    BY <1>1, FlightStep, StepIsLocal
  <1> QED BY <1>1, OthersKeepRows

\* SENT, FAILED and CANCELLED are final for a row, for all constants and all
\* events but claims that outlive the stale threshold and lost database replies.
THEOREM RowsAreFinal ==
    ASSUME Gentle
    PROVE  Spec => RowFinality
  <1>1. Init => OwnerInv /\ FlightInv
    BY DEF Init, ProcessorInit, OwnerInv, OneOwner, Owns, OwnerPcs, Finalizing,
           FlightInv, FlightPcs
  <1>2. TypeInv /\ OwnerInv /\ FlightInv /\ [Next]_vars
           => [\A r \in Rows : status[r] \in Terminal => status'[r] = status[r]]_vars
    BY RowsStay
  <1>3. TypeInv /\ OwnerInv /\ FlightInv /\ [Next]_vars => FlightInv'
    BY FlightNext
  <1> QED BY <1>1, <1>2, <1>3, TypeInit, TypeNext, OwnerNext, PTL
          DEF Spec, RowFinality

-------------------------------------------------------------------------------
(* Campaigns.  maybeFinalizeCampaign counts rows in one statement and writes    *)
(* the verdict in another, from any number of slots at once: why the counts it  *)
(* acted on still hold when it writes, and why the last row to settle always     *)
(* takes its campaign along.                                                    *)


AllTerminal(c) == \A r \in RowsOf(c) : status[r] \in Terminal
NoneFailed(c) == \A r \in RowsOf(c) : status[r] # "FAILED"

\* What slot s has counted.
CountsHold(s) ==
    LET c == CampaignOf[job[s]] IN
    /\ pc[s] \in Finalizing => status[job[s]] \in Terminal
    /\ pc[s] \in { "failures", "classify" } => AllTerminal(c)
    /\ pc[s] = "classify" /\ verdict[s] = "COMPLETED" => NoneFailed(c)

\* Rows come and go with their campaign, a slot that finalizes has settled its
\* own row, and what it counted is still so: terminal rows never change.
CampaignInv ==
    /\ \A r \in Rows : status[r] = "ABSENT" <=> campaign[CampaignOf[r]] = "ABSENT"
    /\ \A c \in Campaigns : canceller[c] # "idle" => campaign[c] # "ABSENT"
    /\ \A s \in Slots : CountsHold(s)
    /\ \A c \in Campaigns :
          /\ campaign[c] \in Finished => AllTerminal(c)
          /\ campaign[c] = "COMPLETED" => NoneFailed(c)

\* What a slot has counted when it goes on finalizing, what it may write to
\* which campaign, and that it touches neither cancellations nor other verdicts.
LEMMA SlotFinalizes ==
    ASSUME Gentle, TypeInv, FlightInv, CampaignInv,
           NEW s \in Slots, SlotStep(s) \/ SlotDbError(s)
    PROVE  LET c == CampaignOf[job[s]] IN
           /\ pc'[s] \in Finalizing =>
                 job'[s] = job[s] /\ status'[job[s]] \in Terminal
           /\ pc'[s] \in { "failures", "classify" } => AllTerminal(c)
           /\ pc'[s] = "classify" /\ verdict'[s] = "COMPLETED" => NoneFailed(c)
           /\ \/ campaign' = campaign
              \/ /\ campaign[c] = "SCHEDULED"
                 /\ campaign' = [campaign EXCEPT ![c] = "PROCESSING"]
              \/ /\ pc[s] = "classify"
                 /\ campaign' = [campaign EXCEPT ![c] = verdict[s]]
           /\ canceller' = canceller
           /\ \A t \in Slots : t # s => verdict'[t] = verdict[t]
  <1> DEFINE c == CampaignOf[job[s]]
  <1>1. job[s] \in Rows /\ c \in Campaigns /\ "db" \notin Events
    BY StepIsLocal, DeploymentAssumption DEF Gentle
  <1>2. pc[s] \in Finalizing => \A r \in RowsOf(c) : status[r] # "ABSENT"
    BY <1>1 DEF CampaignInv, CountsHold, RowsOf, Terminal
  <1>3. pc[s] \in Finalizing /\ Pending(c) = {} => AllTerminal(c)
    BY <1>2 DEF AllTerminal, Pending, RowsOf, Terminal, TypeInv, LedgerTypeOK,
                EmailStatus
  <1>4. FailedOf(c) = {} => NoneFailed(c)
    BY DEF FailedOf, NoneFailed
  <1>5. /\ canceller' = canceller
        /\ \A t \in Slots : t # s => verdict'[t] = verdict[t]
    BY DEF SlotStep, Step, Load, Claim, Limit, Release, Defer, Send, Record,
           Rollback, Fail, CountPending, Flip, CountFailed, Classify, Return,
           Throw, SlotDbError, DbError, Written, Raise, Goto, Conclude, Forget,
           TypeInv, ProcessorInv, ProcessorTypeOK, serviceVars
  <1>6. /\ pc[s] \in Finalizing => status[job[s]] \in Terminal
        /\ pc[s] \in { "failures", "classify" } => AllTerminal(c)
        /\ pc[s] = "classify" /\ verdict[s] = "COMPLETED" => NoneFailed(c)
    BY DEF CampaignInv, CountsHold
  <1> USE <1>1, <1>5, HandlerIsStep
      DEF TypeInv, Finalizing, LedgerTypeOK, ProcessorInv, ProcessorTypeOK, Terminal
  <1> HIDE DEF c
  <1>7. CASE SlotDbError(s)
    BY <1>7 DEF SlotDbError, DbError, Raise, Goto, ledgerVars
  <1>8. CASE Load(s) \/ Limit(s) \/ Defer(s) \/ Send(s) \/ Return(s) \/ Throw(s)
    BY <1>8 DEF Load, Limit, Defer, Send, Return, Throw, Raise, Goto, Forget,
                ledgerVars
  <1>9. CASE Claim(s) \/ Release(s) \/ Rollback(s)
    BY <1>9 DEF Claim, Release, Rollback, ReleaseRow, Written, Raise, Goto
  <1>10. CASE Record(s) \/ Fail(s)
    BY <1>10 DEF Record, Fail, Conclude, Raise, Goto
  <1>11. CASE CountPending(s)
    BY <1>3, <1>6, <1>11 DEF CountPending, Goto, ledgerVars, c
  <1>12. CASE CountFailed(s)
    BY <1>4, <1>6, <1>12 DEF CountFailed, ledgerVars, c
  <1>13. CASE Flip(s) \/ Classify(s)
    BY <1>13 DEF Flip, Classify, Written, Raise, Goto, c
  <1> QED BY <1>7, <1>8, <1>9, <1>10, <1>11, <1>12, <1>13 DEF SlotStep, Step, c

\* Who else writes a campaign's status: the transaction that creates it with its
\* rows, and the one that cancels it.
LEMMA OthersFinalizeNothing ==
    ASSUME TypeInv, CampaignInv, [Next]_vars,
           ~ \E s \in Slots : SlotStep(s) \/ SlotDbError(s)
    PROVE  /\ \A r \in Rows :
                 status'[r] = "ABSENT" <=> campaign'[CampaignOf[r]] = "ABSENT"
           /\ \A c \in Campaigns :
                 /\ canceller'[c] # "idle" => campaign'[c] # "ABSENT"
                 /\ \/ campaign'[c] = campaign[c]
                    \/ campaign[c] = "ABSENT" /\ campaign'[c] = "SCHEDULED"
                    \/ campaign[c] # "ABSENT" /\ campaign'[c] = "CANCELLED"
           /\ \A s \in Slots : pc'[s] \in Finalizing => verdict'[s] = verdict[s]
  <1>1. \A r \in Rows : CampaignOf[r] \in Campaigns
    BY DeploymentAssumption
  <1> USE <1>1 DEF TypeInv, LedgerTypeOK, ServiceTypeOK, ProcessorInv,
                   ProcessorTypeOK, Finalizing
  <1>2. CASE UNCHANGED vars
    BY <1>2 DEF vars, ledgerVars, serviceVars, processorVars, CampaignInv
  <1>3. ASSUME NEW s \in Slots, NEW r \in Rows, SlotTake(s, r)
        PROVE  UNCHANGED <<ledgerVars, canceller, verdict>>
    BY <1>3 DEF SlotTake, Take, serviceVars
  <1>4. ASSUME NEW w \in Workers,
               WorkerBoots(w) \/ WorkerCloses(w) \/ WorkerExits(w) \/ WorkerDies(w)
        PROVE  /\ UNCHANGED <<campaign, canceller>>
               /\ \A r \in Rows : status'[r] = "ABSENT" <=> status[r] = "ABSENT"
               /\ \A s \in Slots : pc'[s] \in Finalizing => verdict'[s] = verdict[s]
    BY <1>4 DEF WorkerBoots, Boot, Reconcile, FailStaleProcessing, ScanScheduled,
                ProbeJobs, RequeueMissing, WorkerCloses, Close, WorkerExits, Exit,
                WorkerDies, Die, Forget, UpdateWhere, ledgerVars, serviceVars,
                processorVars
  <1>5. CASE BackgroundStep
    BY <1>5 DEF BackgroundStep, RedisLosesQueue, QueueStep, LockExpires,
                StalledJobMoves, JobEvicted, ClaimAges, ledgerVars, serviceVars,
                processorVars, CampaignInv
  <1>6. CASE RequestStep
    <2>1. UNCHANGED processorVars
      BY <1>6 DEF RequestStep, RequestsDie, RequestArrives, RequestEnqueues,
                  RequestCancels
    <2>2. ASSUME NEW c \in Campaigns, CommitCampaign(c)
          PROVE  /\ \A r \in Rows :
                       status'[r] = "ABSENT" <=> campaign'[CampaignOf[r]] = "ABSENT"
                 /\ \A d \in Campaigns :
                       /\ canceller'[d] # "idle" => campaign'[d] # "ABSENT"
                       /\ \/ campaign'[d] = campaign[d]
                          \/ campaign[d] = "ABSENT" /\ campaign'[d] = "SCHEDULED"
      BY <2>2 DEF CommitCampaign, UpdateWhere, RowsOf, CampaignInv
    <2>3. ASSUME NEW c \in Campaigns, CommitCancel(c)
          PROVE  /\ \A r \in Rows :
                       status'[r] = "ABSENT" <=> campaign'[CampaignOf[r]] = "ABSENT"
                 /\ \A d \in Campaigns :
                       /\ canceller'[d] # "idle" => campaign'[d] # "ABSENT"
                       /\ \/ campaign'[d] = campaign[d]
                          \/ campaign[d] # "ABSENT" /\ campaign'[d] = "CANCELLED"
      BY <2>3 DEF CommitCancel, UpdateWhere, RowsOf, CampaignInv
    <2>4. CASE UNCHANGED ledgerVars
      BY <1>6, <2>1, <2>4
         DEF RequestStep, RequestsDie, ApiCrash, EnqueueError, RequestArrives,
             CommitCampaign, CheckCancel, RequestEnqueues, EnqueueChunk,
             RequestCancels, ReadToCancel, CommitCancel, RemoveNext, FinishCancel,
             CampaignInv, ledgerVars, processorVars
    <2>5. \/ UNCHANGED ledgerVars
          \/ \E c \in Campaigns : CommitCampaign(c) \/ CommitCancel(c)
      BY <1>6 DEF RequestStep, RequestsDie, ApiCrash, EnqueueError, RequestArrives,
                  CheckCancel, RequestEnqueues, EnqueueChunk, RequestCancels,
                  ReadToCancel, RemoveNext, FinishCancel
    <2> QED BY <2>1, <2>2, <2>3, <2>4, <2>5 DEF processorVars
  <1> QED BY <1>2, <1>3, <1>4, <1>5, <1>6, Actors DEF CampaignInv, ledgerVars

\* What is true of settled rows stays true.
LEMMA CountsStay ==
    ASSUME Gentle, TypeInv, OwnerInv, FlightInv, [Next]_vars,
           NEW c \in Campaigns, AllTerminal(c)
    PROVE  /\ AllTerminal(c)'
           /\ NoneFailed(c) => NoneFailed(c)'
  BY RowsStay DEF AllTerminal, NoneFailed, RowsOf

\* The counts are inductive.
LEMMA CampaignNext ==
    ASSUME Gentle, TypeInv, OwnerInv, FlightInv, CampaignInv, [Next]_vars
    PROVE  CampaignInv'
  <1>1. \A r \in Rows : CampaignOf[r] \in Campaigns
    BY DeploymentAssumption
  <1>2. ASSUME NEW s \in Slots, pc[s] \in Finalizing
        PROVE  job[s] \in Rows
    BY <1>2 DEF TypeInv, ProcessorInv, ProcessorTypeOK, Finalizing
  <1>3. ASSUME NEW s \in Slots, SlotStep(s) \/ SlotDbError(s)
        PROVE  CampaignInv'
    <2> DEFINE d == CampaignOf[job[s]]
    <2>1. job[s] \in Rows /\ d \in Campaigns
      BY <1>1, <1>3, StepIsLocal
    <2>2. \A r \in Rows : status'[r] = "ABSENT" <=> status[r] = "ABSENT"
      BY <1>3, <2>1, FlightStep, StepIsLocal
    <2>3. pc[s] = "classify" =>
             /\ verdict[s] \in Finished /\ campaign[d] # "ABSENT" /\ AllTerminal(d)
             /\ verdict[s] = "COMPLETED" => NoneFailed(d)
      BY <2>1 DEF TypeInv, ProcessorInv, CampaignInv, CountsHold,
                  Finalizing, Terminal
    <2>4. \A c \in Campaigns :
             /\ campaign'[c] = "ABSENT" <=> campaign[c] = "ABSENT"
             /\ campaign'[c] \in Finished =>
                   /\ AllTerminal(c)
                   /\ campaign'[c] = "COMPLETED" => NoneFailed(c)
      BY <1>3, <2>1, <2>3, SlotFinalizes
         DEF TypeInv, LedgerTypeOK, Finished, CampaignInv
    <2>5. ASSUME NEW t \in Slots, pc'[t] \in Finalizing
          PROVE  /\ job'[t] = job[t] /\ job[t] \in Rows
                 /\ status'[job[t]] \in Terminal
                 /\ pc'[t] \in { "failures", "classify" } =>
                       AllTerminal(CampaignOf[job[t]])
                 /\ pc'[t] = "classify" /\ verdict'[t] = "COMPLETED" =>
                       NoneFailed(CampaignOf[job[t]])
      <3>1. CASE t = s
        BY <1>3, <2>1, <2>5, <3>1, SlotFinalizes
      <3>2. CASE t # s
        <4>1. pc'[t] = pc[t] /\ job'[t] = job[t] /\ verdict'[t] = verdict[t]
          BY <1>3, <3>2, StepIsLocal, SlotFinalizes
        <4>2. job[t] \in Rows /\ status[job[t]] \in Terminal
          BY <1>2, <2>5, <4>1 DEF CampaignInv, CountsHold
        <4> QED BY <2>5, <4>1, <4>2, RowsStay DEF CampaignInv, CountsHold
      <3> QED BY <3>1, <3>2
    <2>6. canceller' = canceller
      BY <1>3, SlotFinalizes
    <2>7. \A c \in Campaigns : AllTerminal(c) =>
             AllTerminal(c)' /\ (NoneFailed(c) => NoneFailed(c)')
      BY CountsStay
    <2> HIDE DEF d
    <2>8. \A r \in Rows :
             status'[r] = "ABSENT" <=> campaign'[CampaignOf[r]] = "ABSENT"
      BY <1>1, <2>2, <2>4 DEF CampaignInv
    <2>9. \A c \in Campaigns : canceller'[c] # "idle" => campaign'[c] # "ABSENT"
      BY <2>4, <2>6 DEF CampaignInv
    <2>10. ASSUME NEW t \in Slots
           PROVE  CountsHold(t)'
      BY <1>1, <2>5, <2>7
         DEF CountsHold, AllTerminal, NoneFailed, Finalizing
    <2>11. \A c \in Campaigns :
              /\ campaign'[c] \in Finished => AllTerminal(c)'
              /\ campaign'[c] = "COMPLETED" => NoneFailed(c)'
      BY <2>4, <2>7 DEF Finished
    <2> QED BY <2>8, <2>9, <2>10, <2>11 DEF CampaignInv
  <1>4. ASSUME ~ \E s \in Slots : SlotStep(s) \/ SlotDbError(s)
        PROVE  CampaignInv'
    <2>1. ASSUME NEW t \in Slots, pc'[t] \in Finalizing
          PROVE  /\ pc'[t] = pc[t] /\ job'[t] = job[t] /\ verdict'[t] = verdict[t]
                 /\ job[t] \in Rows /\ status'[job[t]] \in Terminal
      <3>1. pc'[t] = pc[t] /\ job'[t] = job[t]
        BY <1>4, <2>1, OthersKeepRows DEF OwnerPcs, Finalizing
      <3>2. job[t] \in Rows /\ status[job[t]] \in Terminal
        BY <1>2, <2>1, <3>1 DEF CampaignInv, CountsHold
      <3> QED BY <1>4, <2>1, <3>1, <3>2, RowsStay, OthersFinalizeNothing
    <2>2. \A c \in Campaigns : AllTerminal(c) =>
             AllTerminal(c)' /\ (NoneFailed(c) => NoneFailed(c)')
      BY CountsStay
    <2>3. \A c \in Campaigns :
              /\ campaign'[c] \in Finished => AllTerminal(c)'
              /\ campaign'[c] = "COMPLETED" => NoneFailed(c)'
      BY <1>4, <2>2, OthersFinalizeNothing DEF CampaignInv, Finished
    <2>4. ASSUME NEW t \in Slots
          PROVE  CountsHold(t)'
      BY <1>1, <2>1, <2>2
         DEF CountsHold, AllTerminal, NoneFailed, Finalizing, CampaignInv
    <2> QED BY <1>4, <2>3, <2>4, OthersFinalizeNothing DEF CampaignInv
  <1> QED BY <1>3, <1>4

\* Initially there is neither a row nor a campaign.
LEMMA CampaignInit == Init => OwnerInv /\ FlightInv /\ CampaignInv
  BY DeploymentAssumption
     DEF Init, LedgerInit, ProcessorInit, ServiceInit, OwnerInv, OneOwner, Owns,
         OwnerPcs, Finalizing, FlightInv, FlightPcs, CampaignInv, CountsHold,
         Finished

-------------------------------------------------------------------------------
(* What the counts give *)

\* The strengthened invariant holds in every state.
LEMMA CampaignAlways ==
    ASSUME Gentle
    PROVE  Spec => [](TypeInv /\ OwnerInv /\ FlightInv /\ CampaignInv)
  <1>1. TypeInv /\ OwnerInv /\ FlightInv /\ [Next]_vars => FlightInv'
    BY FlightNext
  <1>2. TypeInv /\ OwnerInv /\ FlightInv /\ CampaignInv /\ [Next]_vars
           => CampaignInv'
    BY CampaignNext
  <1> QED BY <1>1, <1>2, CampaignInit, TypeInit, TypeNext, OwnerNext, PTL DEF Spec

\* A campaign reads COMPLETED only when each of its rows was sent or cancelled.
THEOREM CompletedIsDelivered ==
    ASSUME Gentle
    PROVE  Spec => []CompletedMeansDelivered
  <1>1. CampaignInv => CompletedMeansDelivered
    BY DEF CampaignInv, CompletedMeansDelivered, AllTerminal, NoneFailed, Terminal,
           Finished
  <1> QED BY <1>1, CampaignAlways, PTL

\* How a step may change the status of a campaign.
LEMMA CampaignMoves ==
    ASSUME Gentle, TypeInv, OwnerInv, FlightInv, CampaignInv, [Next]_vars,
           NEW c \in Campaigns
    PROVE  \/ campaign'[c] = campaign[c]
           \/ campaign[c] = "ABSENT" /\ campaign'[c] = "SCHEDULED"
           \/ campaign[c] = "SCHEDULED" /\ campaign'[c] = "PROCESSING"
           \/ campaign[c] # "ABSENT" /\ campaign'[c] \in Finished \cup { "CANCELLED" }
  <1>1. ASSUME NEW s \in Slots, SlotStep(s) \/ SlotDbError(s)
        PROVE  \/ campaign'[c] = campaign[c]
               \/ campaign[c] = "SCHEDULED" /\ campaign'[c] = "PROCESSING"
               \/ campaign[c] # "ABSENT" /\ campaign'[c] \in Finished
    <2>1. pc[s] = "classify" =>
             verdict[s] \in Finished /\ campaign[CampaignOf[job[s]]] # "ABSENT"
      BY <1>1, StepIsLocal
         DEF TypeInv, ProcessorInv, CampaignInv, CountsHold, Finalizing, Terminal
    <2> QED BY <1>1, <2>1, SlotFinalizes DEF TypeInv, LedgerTypeOK
  <1> QED BY <1>1, OthersFinalizeNothing

\* A finished campaign is never put back in progress, whatever a slot counted
\* before another one finished it.
THEOREM FinishedStaysFinished ==
    ASSUME Gentle
    PROVE  Spec => FinishedNeverReopens
  <1>1. TypeInv /\ OwnerInv /\ FlightInv /\ CampaignInv /\ [Next]_vars
           => [\A c \in Campaigns :
                  campaign[c] \in Finished \cup { "CANCELLED" } =>
                     campaign'[c] \notin { "SCHEDULED", "PROCESSING" }]_vars
    BY CampaignMoves DEF Finished
  <1> QED BY <1>1, CampaignAlways, PTL DEF Spec, FinishedNeverReopens

\* Only the transaction of a cancellation writes CANCELLED.
LEMMA WhoCancels ==
    ASSUME Gentle, TypeInv, OwnerInv, FlightInv, CampaignInv, [Next]_vars,
           NEW c \in Campaigns, campaign[c] \in Finished, campaign'[c] = "CANCELLED"
    PROVE  CommitCancel(c)
  <1>1. ASSUME NEW s \in Slots, SlotStep(s) \/ SlotDbError(s)
        PROVE  FALSE
    <2>1. pc[s] = "classify" => verdict[s] \in Finished
      BY DEF TypeInv, ProcessorInv
    <2> QED BY <1>1, <2>1, SlotFinalizes DEF TypeInv, LedgerTypeOK, Finished
  <1>2. campaign' # campaign
    BY DEF Finished
  <1>3. \E d \in Campaigns : CommitCampaign(d) \/ CommitCancel(d)
    BY <1>1, <1>2, Actors
       DEF vars, ledgerVars, SlotTake, Take, WorkerBoots, Boot, Reconcile,
           FailStaleProcessing, ScanScheduled, ProbeJobs, RequeueMissing,
           WorkerCloses, Close, WorkerExits, Exit, WorkerDies, Die, RequestStep,
           RequestsDie, ApiCrash, EnqueueError, RequestArrives, CheckCancel,
           RequestEnqueues, EnqueueChunk, RequestCancels, ReadToCancel, RemoveNext,
           FinishCancel, BackgroundStep, RedisLosesQueue, QueueStep, LockExpires,
           StalledJobMoves, JobEvicted, ClaimAges
  <1> QED BY <1>3 DEF CommitCampaign, CommitCancel, TypeInv, LedgerTypeOK, Finished

\* A cancellation that commits after the campaign finished relabels it and
\* touches none of its rows: all of them had settled.
THEOREM LateCancelIsHarmless ==
    ASSUME Gentle
    PROVE  Spec => LateCancelTouchesNoRow
  <1>1. ASSUME TypeInv, OwnerInv, FlightInv, CampaignInv, [Next]_vars,
               NEW c \in Campaigns, campaign[c] \in Finished,
               campaign'[c] = "CANCELLED"
        PROVE  UNCHANGED status
    <2>1. CommitCancel(c) /\ AllTerminal(c)
      BY <1>1, WhoCancels DEF CampaignInv
    <2> QED BY <1>1, <2>1 DEF CommitCancel, UpdateWhere, AllTerminal, Terminal,
                             TypeInv, LedgerTypeOK
  <1>2. TypeInv /\ OwnerInv /\ FlightInv /\ CampaignInv /\ [Next]_vars
           => [\A c \in Campaigns :
                  campaign[c] \in Finished /\ campaign'[c] = "CANCELLED" =>
                     UNCHANGED status]_vars
    BY <1>1
  <1> QED BY <1>2, CampaignAlways, PTL DEF Spec, LateCancelTouchesNoRow

-------------------------------------------------------------------------------
(* The last finalization is never lost.  Of two slots that settle the last two  *)
(* rows, the one that writes second counts after both writes.  This takes that   *)
(* no run ends between its row and its campaign: no kill, no failing call.       *)

Quiet == Events \cap { "slow", "db", "crash", "redis" } = {}

\* createCampaign accepts no empty list of recipients.
CampaignsHaveRows == \A c \in Campaigns : RowsOf(c) # {}

InProgress(c) == campaign[c] \in { "SCHEDULED", "PROCESSING" }
Counting == { "pending", "failures", "classify" }

\* A row in PROCESSING is in flight in some slot; a campaign in progress has a
\* pending row, or a slot that is counting its rows.
SettlingInv ==
    /\ \A r \in Rows : status[r] = "PROCESSING" =>
          \E s \in Slots : pc[s] \in FlightPcs /\ job[s] = r
    /\ \A c \in Campaigns : InProgress(c) /\ Pending(c) = {} =>
          \E s \in Slots : pc[s] \in Counting /\ CampaignOf[job[s]] = c

\* A run leaves its row settled only on its way to counting, keeps it in flight
\* until then, and counts until it writes the verdict or finds a pending row.
LEMMA SlotSettles ==
    ASSUME Quiet, TypeInv, OwnerInv, FlightInv, CampaignInv, NEW s \in Slots,
           SlotStep(s) \/ SlotDbError(s)
    PROVE  LET r == job[s]  c == CampaignOf[job[s]] IN
           /\ status'[r] = "PROCESSING" =>
                 \/ pc'[s] \in FlightPcs /\ job'[s] = r
                 \/ pc[s] \notin FlightPcs /\ status[r] = "PROCESSING"
           /\ status[r] \in { "SCHEDULED", "PROCESSING" } /\ status'[r] \in Terminal =>
                 pc'[s] = "pending" /\ job'[s] = r
           /\ pc[s] \in Counting =>
                 \/ pc'[s] \in Counting /\ job'[s] = r
                 \/ pc[s] = "pending" /\ Pending(c) # {}
                 \/ campaign'[c] \in Finished
  <1>1. job[s] \in Rows /\ CampaignOf[job[s]] \in Campaigns
    BY StepIsLocal, DeploymentAssumption
  <1>2. "db" \notin Events /\ "redis" \notin Events
    BY DEF Quiet
  <1> USE <1>1, <1>2, HandlerIsStep
      DEF TypeInv, FlightInv, FlightPcs, Counting, Finalizing, LedgerTypeOK,
          ProcessorInv, ProcessorTypeOK, Terminal
  <1>3. CASE SlotDbError(s)
    BY <1>3 DEF SlotDbError, DbError, Raise, Goto, Handler, InTry, ledgerVars
  <1>4. CASE Load(s) \/ Limit(s) \/ Defer(s) \/ Send(s) \/ Return(s) \/ Throw(s)
    BY <1>4 DEF Load, Limit, Defer, Send, Return, Throw, Raise, Goto, Handler,
                InTry, Forget, ledgerVars
  <1>5. CASE Claim(s)
    BY <1>5 DEF Claim, UpdateWhere, Written, Raise, Goto
  <1>6. CASE Release(s) \/ Rollback(s)
    BY <1>6 DEF Release, Rollback, ReleaseRow, UpdateWhere, Written, Raise, Goto
  <1>7. CASE Record(s) \/ Fail(s)
    BY <1>7 DEF Record, Fail, Conclude, Raise, Goto
  <1>8. CASE CountPending(s) \/ CountFailed(s)
    BY <1>8 DEF CountPending, CountFailed, Goto, ledgerVars
  <1>9. CASE Flip(s) \/ Classify(s)
    BY <1>9 DEF Flip, Classify, Written, Raise, Goto
  <1> QED BY <1>3, <1>4, <1>5, <1>6, <1>7, <1>8, <1>9 DEF SlotStep, Step

\* Nobody else interrupts a run; nobody else settles a row, or a campaign gets
\* its rows or is cancelled with it.
LEMMA OthersSettle ==
    ASSUME Quiet, TypeInv, FlightInv, SettlingInv, [Next]_vars,
           ~ \E s \in Slots : SlotStep(s) \/ SlotDbError(s)
    PROVE  /\ \A s \in Slots : pc[s] \in OwnerPcs =>
                 pc'[s] = pc[s] /\ job'[s] = job[s]
           /\ \/ UNCHANGED <<status, campaign>>
              \/ \E c \in Campaigns : CommitCampaign(c) \/ CommitCancel(c)
  <1> USE DEF TypeInv, LedgerTypeOK, ProcessorInv, ProcessorTypeOK, OwnerPcs,
              Finalizing, ledgerVars, processorVars
  <1>1. CASE UNCHANGED vars
    BY <1>1 DEF vars
  <1>2. ASSUME NEW s \in Slots, NEW r \in Rows, SlotTake(s, r)
        PROVE  /\ \A t \in Slots : pc[t] \in OwnerPcs =>
                     pc'[t] = pc[t] /\ job'[t] = job[t]
               /\ UNCHANGED <<status, campaign>>
    BY <1>2 DEF SlotTake, Take
  <1>3. ASSUME NEW w \in Workers,
               WorkerBoots(w) \/ WorkerCloses(w) \/ WorkerExits(w) \/ WorkerDies(w)
        PROVE  UNCHANGED <<pc, job, status, campaign>>
    <2>1. ~WorkerDies(w)
      BY DEF Quiet, WorkerDies, Die
    <2>2. \A r \in Rows : ~IsStale(r)
      BY DEF IsStale, SettlingInv, FlightInv
    <2>3. CASE FailStaleProcessing(w)
      BY <1>3, <2>1, <2>2, <2>3
         DEF FailStaleProcessing, UpdateWhere, WorkerBoots, WorkerCloses, Close,
             WorkerExits, Exit
    <2> QED BY <1>3, <2>1, <2>3
            DEF WorkerBoots, Boot, Reconcile, ScanScheduled, ProbeJobs,
                RequeueMissing, WorkerCloses, Close, WorkerExits, Exit
  <1>4. CASE RequestStep
    BY <1>4 DEF RequestStep, RequestsDie, ApiCrash, EnqueueError, RequestArrives,
                CheckCancel, RequestEnqueues, EnqueueChunk, RequestCancels,
                ReadToCancel, RemoveNext, FinishCancel
  <1>5. CASE BackgroundStep
    BY <1>5 DEF BackgroundStep, RedisLosesQueue, QueueStep, LockExpires,
                StalledJobMoves, JobEvicted, ClaimAges
  <1> QED BY <1>1, <1>2, <1>3, <1>4, <1>5, Actors

\* Rows in flight and campaigns in progress always have a slot at work on them.
LEMMA SettlingNext ==
    ASSUME CampaignsHaveRows, Quiet, Gentle, TypeInv, OwnerInv, FlightInv,
           CampaignInv, SettlingInv, [Next]_vars
    PROVE  SettlingInv'
  <1>1. ASSUME NEW s \in Slots, SlotStep(s) \/ SlotDbError(s)
        PROVE  SettlingInv'
    <2>1. job[s] \in Rows /\ CampaignOf[job[s]] \in Campaigns
      BY <1>1, StepIsLocal, DeploymentAssumption
    <2>2. ASSUME NEW r \in Rows, status'[r] = "PROCESSING"
          PROVE  \E t \in Slots : pc'[t] \in FlightPcs /\ job'[t] = r
      <3>1. CASE r # job[s]
        <4>1. PICK t \in Slots : pc[t] \in FlightPcs /\ job[t] = r
          BY <1>1, <2>2, <3>1, StepIsLocal DEF SettlingInv
        <4> QED BY <1>1, <3>1, <4>1, StepIsLocal
      <3>2. CASE r = job[s] /\ pc[s] \notin FlightPcs /\ status[r] = "PROCESSING"
        <4>1. PICK t \in Slots : pc[t] \in FlightPcs /\ job[t] = r
          BY <3>2 DEF SettlingInv
        <4> QED BY <1>1, <3>2, <4>1, StepIsLocal
      <3> QED BY <1>1, <2>2, <3>1, <3>2, SlotSettles
    <2>3. ASSUME NEW c \in Campaigns, InProgress(c)', Pending(c)' = {}
          PROVE  \E t \in Slots : pc'[t] \in Counting /\ CampaignOf[job'[t]] = c
      <3>1. CASE Pending(c) = {}
        <4>1. InProgress(c)
          BY <1>1, <2>1, <2>3, CampaignMoves, SlotFinalizes
             DEF InProgress, Finished, TypeInv, ProcessorInv, LedgerTypeOK
        <4>2. PICK t \in Slots : pc[t] \in Counting /\ CampaignOf[job[t]] = c
          BY <3>1, <4>1 DEF SettlingInv
        <4>3. CASE t = s
          <5>1. campaign'[c] \notin Finished
            BY <2>3 DEF InProgress, Finished
          <5> QED BY <1>1, <3>1, <4>2, <4>3, <5>1, SlotSettles
        <4> QED BY <1>1, <4>2, <4>3, StepIsLocal
      <3>2. CASE Pending(c) # {}
        <4>1. PICK r \in RowsOf(c) : status[r] \in { "SCHEDULED", "PROCESSING" }
          BY <3>2 DEF Pending
        <4>2. r \in Rows /\ CampaignOf[r] = c
          BY <4>1 DEF RowsOf
        <4>3. status'[r] \notin { "SCHEDULED", "PROCESSING" }
          BY <2>3, <4>1, <4>2 DEF Pending, RowsOf
        <4>4. r = job[s]
          BY <1>1, <4>1, <4>2, <4>3, StepIsLocal
        <4>5. status'[r] \in Terminal
          BY <4>1, <4>2, <4>3, TypeNext, RowsStay
             DEF TypeInv, LedgerTypeOK, EmailStatus, Terminal
        <4> QED BY <1>1, <4>1, <4>2, <4>4, <4>5, SlotSettles DEF Counting
      <3> QED BY <3>1, <3>2
    <2> QED BY <2>2, <2>3 DEF SettlingInv
  <1>2. ASSUME ~ \E s \in Slots : SlotStep(s) \/ SlotDbError(s)
        PROVE  SettlingInv'
    <2>1. \A s \in Slots : pc[s] \in OwnerPcs => pc'[s] = pc[s] /\ job'[s] = job[s]
      BY <1>2, OthersSettle
    <2>2. FlightPcs \subseteq OwnerPcs /\ Counting \subseteq OwnerPcs
      BY DEF FlightPcs, OwnerPcs, Counting, Finalizing
    <2>3. ASSUME NEW r \in Rows, status'[r] = "PROCESSING"
          PROVE  \E t \in Slots : pc'[t] \in FlightPcs /\ job'[t] = r
      <3>1. status[r] = "PROCESSING"
        BY <1>2, <2>3, Actors, OthersKeepRuns
      <3>2. PICK t \in Slots : pc[t] \in FlightPcs /\ job[t] = r
        BY <3>1 DEF SettlingInv
      <3> QED BY <2>1, <2>2, <3>2
    <2>4. ASSUME NEW c \in Campaigns, InProgress(c)', Pending(c)' = {}
          PROVE  InProgress(c) /\ Pending(c) = {}
      <3>1. CASE UNCHANGED <<status, campaign>>
        BY <2>4, <3>1 DEF InProgress, Pending
      <3>2. ASSUME NEW d \in Campaigns, CommitCampaign(d)
            PROVE  InProgress(c) /\ Pending(c) = {}
        <4>1. CASE c = d
          <5>1. PICK r \in RowsOf(c) : TRUE
            BY DEF CampaignsHaveRows
          <5>2. r \in Rows /\ status[r] = "ABSENT"
            BY <3>2, <4>1 DEF CommitCampaign, CampaignInv, RowsOf
          <5>3. r \in Pending(c)'
            BY <3>2, <4>1, <5>1, <5>2
               DEF CommitCampaign, UpdateWhere, Pending, RowsOf, TypeInv, LedgerTypeOK
          <5> QED BY <2>4, <5>3
        <4>2. CASE c # d
          <5>1. \A r \in RowsOf(c) : status'[r] = status[r]
            BY <3>2, <4>2 DEF CommitCampaign, UpdateWhere, RowsOf, TypeInv, LedgerTypeOK
          <5>2. campaign'[c] = campaign[c]
            BY <3>2, <4>2 DEF CommitCampaign, TypeInv, LedgerTypeOK
          <5> QED BY <2>4, <5>1, <5>2 DEF InProgress, Pending, RowsOf
        <4> QED BY <4>1, <4>2
      <3>3. ASSUME NEW d \in Campaigns, CommitCancel(d)
            PROVE  InProgress(c) /\ Pending(c) = {}
        <4>1. c # d
          BY <2>4, <3>3 DEF CommitCancel, InProgress, TypeInv, LedgerTypeOK
        <4>2. \A r \in RowsOf(c) : status'[r] = status[r]
          BY <3>3, <4>1 DEF CommitCancel, UpdateWhere, RowsOf, TypeInv, LedgerTypeOK
        <4>3. campaign'[c] = campaign[c]
          BY <3>3, <4>1 DEF CommitCancel, TypeInv, LedgerTypeOK
        <4> QED BY <2>4, <4>2, <4>3 DEF InProgress, Pending, RowsOf
      <3> QED BY <1>2, <3>1, <3>2, <3>3, OthersSettle
    <2>5. ASSUME NEW c \in Campaigns, InProgress(c)', Pending(c)' = {}
          PROVE  \E t \in Slots : pc'[t] \in Counting /\ CampaignOf[job'[t]] = c
      <3>1. PICK t \in Slots : pc[t] \in Counting /\ CampaignOf[job[t]] = c
        BY <2>4, <2>5 DEF SettlingInv
      <3> QED BY <2>1, <2>2, <3>1
    <2> QED BY <2>3, <2>5 DEF SettlingInv
  <1> QED BY <1>1, <1>2

\* So it is in every state.
LEMMA SettlingAlways ==
    ASSUME CampaignsHaveRows, Quiet
    PROVE  Spec => [](TypeInv /\ OwnerInv /\ FlightInv /\ CampaignInv /\ SettlingInv)
  <1>1. Gentle
    BY DEF Gentle, Quiet
  <1>2. Init => SettlingInv
    BY DEF Init, LedgerInit, SettlingInv, InProgress
  <1>3. TypeInv /\ OwnerInv /\ FlightInv /\ CampaignInv /\ SettlingInv /\ [Next]_vars
           => SettlingInv'
    BY <1>1, SettlingNext
  <1>4. Spec => [](TypeInv /\ OwnerInv /\ FlightInv /\ CampaignInv)
    BY <1>1, CampaignAlways
  <1> QED BY <1>2, <1>3, <1>4, PTL DEF Spec

\* When the rows of a campaign have settled and no slot is at work on them, the
\* campaign has settled: no interleaving of finishing slots, cancellations,
\* stalls, re-runs and shutdowns loses the last finalization.
THEOREM CampaignsSettle ==
    ASSUME CampaignsHaveRows, Quiet
    PROVE  Spec => []SettledCampaign
  <1>1. TypeInv /\ SettlingInv => SettledCampaign
    <2>1. ASSUME TypeInv, SettlingInv, NEW c \in Campaigns, campaign[c] # "ABSENT",
                 Pending(c) = {}, \A s \in Slots, r \in RowsOf(c) : ~Owns(s, r)
          PROVE  campaign[c] \in Finished \cup { "CANCELLED" }
      <3>1. ASSUME InProgress(c)
            PROVE  FALSE
        <4>1. PICK s \in Slots : pc[s] \in Counting /\ CampaignOf[job[s]] = c
          BY <2>1, <3>1 DEF SettlingInv
        <4>2. job[s] \in RowsOf(c) /\ pc[s] \in OwnerPcs
          BY <2>1, <4>1 DEF TypeInv, ProcessorInv, ProcessorTypeOK, Counting,
                            OwnerPcs, Finalizing, RowsOf
        <4> QED BY <2>1, <4>2 DEF Owns
      <3> QED BY <2>1, <3>1
              DEF InProgress, TypeInv, LedgerTypeOK, CampaignStatus, Finished
    <2> QED BY <2>1 DEF SettledCampaign
  <1> QED BY <1>1, SettlingAlways, PTL

-------------------------------------------------------------------------------
(* Theorems about attempts.  The processor decides from the attempt number *)
(* it was handed whether a failure is the last one, and BullMQ decides     *)
(* from its own counter whether to run the job again: why the two agree,   *)
(* so that a row is given up after all its attempts and not before, and a  *)
(* row that is still due has a job that will run.                          *)

\* No kill, no failing call and no lost result of a send.
Steady == Quiet /\ SendResultsKept

\* What a run knows of its attempts: prior is the counter it was handed.
RunCounts(s) ==
    pc[s] # "idle" =>
        /\ prior[s] < Attempts /\ refused[job[s]] >= prior[s]
        /\ pc[s] \in { "rollback", "fail" } => refused[job[s]] > prior[s]
        /\ pc[s] = "throw" /\ jobLock[job[s]] = s => refused[job[s]] > prior[s]
        /\ pc[s] = "fail" => prior[s] + 1 >= Attempts

\* A lock is held by the run that took it, with the counter it still has.
LockCounts(r) ==
    jobLock[r] # NoSlot =>
        LET s == jobLock[r] IN
        pc[s] # "idle" /\ job[s] = r /\ prior[s] = attemptsMade[r]

\* An attempt is counted for a refused send only, as long as the job can run.
JobCounts(r) ==
    /\ jobState[r] \in { "queued", "active" } => refused[r] >= attemptsMade[r]
    /\ status[r] = "FAILED" => refused[r] >= Attempts

AttemptInv ==
    /\ \A s \in Slots : RunCounts(s)
    /\ \A r \in Rows : LockCounts(r) /\ JobCounts(r)

\* What a run does to the counters: it leaves those of other rows alone, counts
\* an attempt for a refused send only, and its lock does not outlive it.
LEMMA StepCounts ==
    ASSUME Steady, TypeInv, AttemptInv, NEW s \in Slots,
           SlotStep(s) \/ SlotDbError(s)
    PROVE  LET r == job[s] IN
           /\ \A q \in Rows : refused'[q] >= refused[q]
           /\ \A t \in Slots : t # s => prior'[t] = prior[t]
           /\ \A q \in Rows : q # r => /\ jobState'[q] = jobState[q]
                                      /\ jobLock'[q] = jobLock[q]
                                      /\ attemptsMade'[q] = attemptsMade[q]
           /\ pc'[s] # "idle" =>
                 /\ job'[s] = r /\ prior'[s] = prior[s] /\ RunCounts(s)'
                 /\ jobState'[r] = jobState[r] /\ jobLock'[r] = jobLock[r]
                 /\ attemptsMade'[r] = attemptsMade[r]
           /\ pc'[s] = "idle" =>
                 /\ jobLock'[r] \in { jobLock[r], NoSlot } \ { s }
                 /\ jobLock'[r] = jobLock[r] => attemptsMade'[r] = attemptsMade[r]
                 /\ jobState'[r] \in { "queued", "active" } =>
                       refused'[r] >= attemptsMade'[r]
           /\ status'[r] = "FAILED" => refused'[r] >= Attempts
  <1>1. job[s] \in Rows
    BY StepIsLocal
  <1>2. /\ "db" \notin Events /\ "redis" \notin Events /\ "ack" \notin Events
        /\ "unrecorded" \notin Events
    BY DEF Steady, Quiet, SendResultsKept
  <1>3. RunCounts(s) /\ LockCounts(job[s]) /\ JobCounts(job[s])
    BY <1>1 DEF AttemptInv
  <1>4. /\ NoSlot \notin Slots /\ Attempts \in Nat
        /\ jobLock[job[s]] # NoSlot => jobState[job[s]] = "active"
    BY <1>1, DeploymentAssumption DEF TypeInv, QueueInv
  <1> USE <1>1, <1>2, <1>3, <1>4
      DEF TypeInv, QueueInv, QueueTypeOK, LedgerTypeOK, ProcessorInv,
          ProcessorTypeOK, RunCounts, LockCounts, JobCounts, Finalizing
  <1>5. CASE SlotDbError(s)
    BY <1>5 DEF SlotDbError, DbError
  <1>6. CASE Load(s) \/ Limit(s) \/ CountPending(s) \/ CountFailed(s)
    BY <1>6 DEF Load, Limit, CountPending, CountFailed, Goto, ledgerVars, queueVars,
                mailVars
  <1>7. CASE Claim(s) \/ Release(s) \/ Rollback(s)
    BY <1>7 DEF Claim, Release, Rollback, ReleaseRow, UpdateWhere, Written, Goto,
                queueVars, mailVars
  <1>8. CASE Send(s)
    BY <1>8 DEF Send, SmtpAccepts, SmtpRefuses, Saturate, Raise, Handler, InTry,
                IsLastAttempt, Goto, ledgerVars, queueVars
  <1>9. CASE Record(s) \/ Fail(s)
    BY <1>9 DEF Record, Fail, Conclude, queueVars, mailVars
  <1>10. CASE Flip(s) \/ Classify(s)
    BY <1>10 DEF Flip, Classify, Written, Goto, queueVars, mailVars
  <1>11. CASE Defer(s)
    BY <1>11 DEF Defer, DelayJob, LeaveActive, Forget, Raise, Handler, InTry, Goto,
                 ledgerVars, queueVars, mailVars
  <1>12. CASE Return(s)
    BY <1>12 DEF Return, CompleteJob, LeaveActive, Forget, ledgerVars, queueVars,
                 mailVars
  <1>13. CASE Throw(s)
    BY <1>13 DEF Throw, RetryOrFailJob, LeaveActive, Forget, ledgerVars, queueVars,
                 mailVars
  <1> QED BY <1>5, <1>6, <1>7, <1>8, <1>9, <1>10, <1>11, <1>12, <1>13
          DEF SlotStep, Step

\* A run keeps all the counters right.
LEMMA SlotKeepsCounts ==
    ASSUME Steady, TypeInv, AttemptInv, NEW s \in Slots,
           SlotStep(s) \/ SlotDbError(s)
    PROVE  AttemptInv'
  <1>1. job[s] \in Rows /\ NoSlot \notin Slots
    BY StepIsLocal, DeploymentAssumption
  <1>2. TypeInv'
    BY SlotKeepsTypes
  <1>3. ASSUME NEW t \in Slots
        PROVE  RunCounts(t)'
    <2>1. CASE t = s
      BY <2>1, StepCounts DEF RunCounts
    <2>2. CASE t # s /\ pc[t] # "idle"
      <3>1. job[t] \in Rows /\ RunCounts(t)
        BY <2>2 DEF TypeInv, ProcessorInv, ProcessorTypeOK, AttemptInv
      <3>2. pc'[t] = pc[t] /\ job'[t] = job[t] /\ prior'[t] = prior[t]
        BY <2>2, StepIsLocal, StepCounts
      <3>3. jobLock'[job[t]] = t => jobLock[job[t]] = t
        BY <1>1, <3>1, StepCounts
      <3>4. refused'[job[t]] >= refused[job[t]]
        BY <3>1, StepCounts
      <3>5. refused[job[t]] \in Nat /\ refused'[job[t]] \in Nat /\ prior[t] \in Nat
        BY <3>1, <1>2, DeploymentAssumption
           DEF TypeInv, ProcessorInv, ProcessorTypeOK
      <3> QED BY <3>1, <3>2, <3>3, <3>4, <3>5 DEF RunCounts
    <2>3. CASE t # s /\ pc[t] = "idle"
      BY <2>3, StepIsLocal DEF RunCounts
    <2> QED BY <2>1, <2>2, <2>3
  <1>4. ASSUME NEW q \in Rows
        PROVE  LockCounts(q)'
    <2>1. LockCounts(q) /\ jobLock[q] \in Slots \cup { NoSlot }
      BY DEF AttemptInv, TypeInv, QueueInv, QueueTypeOK
    <2>2. CASE q # job[s]
      BY <1>1, <2>1, <2>2, StepIsLocal, StepCounts DEF LockCounts
    <2>3. CASE q = job[s]
      BY <1>1, <2>1, <2>3, StepIsLocal, StepCounts DEF LockCounts
    <2> QED BY <2>2, <2>3
  <1>5. ASSUME NEW q \in Rows
        PROVE  JobCounts(q)'
    <2>1. JobCounts(q)
      BY DEF AttemptInv
    <2>2. /\ refused[q] \in Nat /\ refused'[q] \in Nat /\ attemptsMade[q] \in Nat
          /\ Attempts \in Nat
      BY <1>2, DeploymentAssumption
         DEF TypeInv, ProcessorInv, ProcessorTypeOK, QueueInv, QueueTypeOK
    <2>3. refused'[q] >= refused[q]
      BY StepCounts
    <2> QED BY <1>1, <2>1, <2>2, <2>3, StepIsLocal, StepCounts DEF JobCounts
  <1> QED BY <1>3, <1>4, <1>5 DEF AttemptInv

\* Nobody else touches the counters of a job that can run, except to count it as
\* new; and nobody else gives a row up.
LEMMA OthersKeepCounts ==
    ASSUME Steady, TypeInv, FlightInv, SettlingInv, AttemptInv, [Next]_vars,
           ~ \E s \in Slots : SlotStep(s) \/ SlotDbError(s)
    PROVE  AttemptInv'
  <1>1. Quiet /\ "crash" \notin Events /\ NoSlot \notin Slots /\ Attempts \in Nat
    BY DeploymentAssumption DEF Steady, Quiet
  <1>2. refused' = refused
    BY OthersKeepRuns, Actors DEF mailVars
  <1>3. \A r \in Rows : status'[r] = "FAILED" => status[r] = "FAILED"
    BY <1>1, OthersSettle
       DEF CommitCampaign, CommitCancel, UpdateWhere, TypeInv, LedgerTypeOK
  <1> USE DEF AttemptInv, RunCounts, LockCounts, JobCounts, TypeInv, QueueInv,
              QueueTypeOK, ProcessorInv, ProcessorTypeOK
  <1>4. ASSUME NEW s \in Slots, NEW r \in Rows, SlotTake(s, r)
        PROVE  AttemptInv'
    <2>1. pc[s] = "idle" /\ \A q \in Rows : jobLock[q] # s
      BY <1>1, <1>4 DEF SlotTake, Take
    <2> QED BY <1>1, <1>2, <1>3, <1>4, <2>1 DEF SlotTake, Take, TakeJob
  <1>5. ASSUME UNCHANGED processorVars,
               \A r \in Rows :
                  /\ jobLock'[r] \in { jobLock[r], NoSlot }
                  /\ jobLock'[r] # NoSlot => attemptsMade'[r] = attemptsMade[r]
                  /\ jobState'[r] \in { "queued", "active" } =>
                        refused[r] >= attemptsMade'[r]
        PROVE  AttemptInv'
    BY <1>1, <1>2, <1>3, <1>5 DEF processorVars
  <1>6. ASSUME UNCHANGED processorVars,
               \/ UNCHANGED queueVars
               \/ \E R \in SUBSET Rows : Vanish(R) \/ EnqueueEmailJobs(R)
               \/ \E r \in Rows : ExpireLock(r) \/ MoveStalledJob(r)
        PROVE  AttemptInv'
    <2>1. CASE UNCHANGED queueVars
      BY <1>5, <1>6, <2>1 DEF queueVars
    <2>2. ASSUME NEW R \in SUBSET Rows, Vanish(R)
          PROVE  AttemptInv'
      BY <1>5, <1>6, <2>2 DEF Vanish
    <2>3. ASSUME NEW R \in SUBSET Rows, EnqueueEmailJobs(R)
          PROVE  AttemptInv'
      BY <1>5, <1>6, <2>3 DEF EnqueueEmailJobs, Exists, JobStates
    <2>4. ASSUME NEW r \in Rows, ExpireLock(r) \/ MoveStalledJob(r)
          PROVE  AttemptInv'
      BY <1>5, <1>6, <2>4 DEF ExpireLock, MoveStalledJob
    <2> QED BY <1>6, <2>1, <2>2, <2>3, <2>4
  <1>7. CASE UNCHANGED vars
    BY <1>6, <1>7 DEF vars
  <1>8. ASSUME NEW w \in Workers,
               WorkerBoots(w) \/ WorkerCloses(w) \/ WorkerExits(w) \/ WorkerDies(w)
        PROVE  AttemptInv'
    <2>1. scanned[w] \in SUBSET Rows
      BY DEF ReconcilerTypeOK
    <2> QED BY <1>1, <1>6, <1>8, <2>1
            DEF WorkerBoots, Boot, Reconcile, FailStaleProcessing, ScanScheduled,
                ProbeJobs, RequeueMissing, WorkerCloses, Close, WorkerExits, Exit,
                WorkerDies, Die
  <1>9. CASE RequestStep
    <2>1. ASSUME NEW c \in Campaigns, RemoveNext(c)
          PROVE  AttemptInv'
      <3>1. PICK r \in toCancel[c] : Vanish({r}) \/ UNCHANGED queueVars
        BY <2>1 DEF RemoveNext, RemoveEmailJob
      <3>2. {r} \in SUBSET Rows /\ UNCHANGED processorVars
        BY <1>9, <3>1 DEF ServiceTypeOK, RequestStep, RequestsDie, RequestArrives,
                          RequestEnqueues, RequestCancels
      <3> QED BY <1>6, <3>1, <3>2
    <2>2. ASSUME NEW c \in Campaigns, RequestEnqueues(c)
          PROVE  AttemptInv'
      <3>1. \A R \in SUBSET toEnqueue[c] : R \in SUBSET Rows
        BY DEF ServiceTypeOK
      <3> QED BY <1>6, <2>2, <3>1 DEF RequestEnqueues, EnqueueChunk
    <2> QED BY <1>6, <1>9, <2>1, <2>2
            DEF RequestStep, RequestsDie, ApiCrash, EnqueueError, RequestArrives,
                CommitCampaign, CheckCancel, RequestCancels, ReadToCancel,
                CommitCancel, FinishCancel
  <1>10. CASE BackgroundStep
    <2> HIDE DEF AttemptInv, RunCounts, LockCounts, JobCounts, TypeInv, QueueInv,
                 QueueTypeOK, ProcessorInv, ProcessorTypeOK
    <2>1. CASE RedisLosesQueue
      BY <1>6, <2>1 DEF RedisLosesQueue
    <2>2. ASSUME NEW r \in Rows, QueueStep(r) \/ ClaimAges(r)
          PROVE  AttemptInv'
      <3>1. UNCHANGED processorVars /\ {r} \in SUBSET Rows
        BY <2>2 DEF QueueStep, LockExpires, StalledJobMoves, JobEvicted, ClaimAges
      <3>2. \/ Vanish({r}) \/ ExpireLock(r) \/ MoveStalledJob(r)
            \/ UNCHANGED queueVars
        BY <2>2 DEF QueueStep, LockExpires, StalledJobMoves, JobEvicted, EvictJob,
                    ClaimAges
      <3> QED BY <1>6, <3>1, <3>2
    <2> QED BY <1>10, <2>1, <2>2 DEF BackgroundStep
  <1> QED BY <1>4, <1>7, <1>8, <1>9, <1>10, Actors

\* The counters are right in every state.
LEMMA AttemptAlways ==
    ASSUME CampaignsHaveRows, Steady
    PROVE  Spec => [](/\ TypeInv /\ OwnerInv /\ FlightInv /\ CampaignInv
                      /\ SettlingInv /\ AttemptInv)
  <1>1. Quiet
    BY DEF Steady
  <1>2. Init => AttemptInv
    BY DeploymentAssumption
       DEF Init, LedgerInit, QueueInit, ProcessorInit, AttemptInv, RunCounts,
           LockCounts, JobCounts
  <1>3. TypeInv /\ FlightInv /\ SettlingInv /\ AttemptInv /\ [Next]_vars => AttemptInv'
    BY SlotKeepsCounts, OthersKeepCounts
  <1> QED BY <1>1, <1>2, <1>3, SettlingAlways, PTL DEF Spec

\* The processor gives a row up only after EMAIL_JOB_ATTEMPTS refused sends,
\* whatever deferrals, lost claims, stalls, re-enqueues, evictions and losses of
\* the queue's data there were in between.
THEOREM GivenUpAfterAllAttempts ==
    ASSUME CampaignsHaveRows, Steady
    PROVE  Spec => []FailedAfterAllAttempts
  <1>1. AttemptInv => FailedAfterAllAttempts
    BY DEF AttemptInv, JobCounts, FailedAfterAllAttempts
  <1> QED BY <1>1, AttemptAlways, PTL

-------------------------------------------------------------------------------
(* Each run has its job's lock, and leaves it only when the row is settled or   *)
(* an attempt is left.                                                          *)

\* Nothing but requests, cancellations, shutdowns, restarts and evictions.
Undisturbed == Events \subseteq { "cancel", "close", "evict" }

RunHolds(s) ==
    /\ pc[s] # "idle" => jobLock[job[s]] = s
    /\ pc[s] = "return" => status[job[s]] \in Terminal
    /\ pc[s] \in { "rollback", "throw" } => prior[s] + 1 < Attempts

JobServes(r) ==
    /\ jobState[r] = "active" => jobLock[r] # NoSlot
    /\ jobState[r] \in { "completed", "failed" } => status[r] \in Terminal
    /\ status[r] = "ABSENT" => jobState[r] = "none"
    /\ jobState[r] = "none" /\ status[r] = "SCHEDULED" =>
          \/ r \in toEnqueue[CampaignOf[r]]
          \/ campaign[CampaignOf[r]] = "CANCELLED"

RequestHolds(c) ==
    /\ canceller[c] = "removing" => campaign[c] = "CANCELLED" \/ AllTerminal(c)
    /\ toCancel[c] \subseteq RowsOf(c)
    /\ \A r \in toEnqueue[c] : CampaignOf[r] = c /\ status[r] # "ABSENT"

ScheduleInv ==
    /\ \A s \in Slots : RunHolds(s)
    /\ \A r \in Rows : JobServes(r)
    /\ \A c \in Campaigns : RequestHolds(c)
    /\ \A w \in Workers : \A r \in scanned[w] : status[r] # "ABSENT"

\* An undisturbed run keeps its job until it ends, and ends by settling its row,
\* by a deferral, or by a retry that BullMQ grants.
LEMMA RunEnds ==
    ASSUME Undisturbed, TypeInv, OwnerInv, FlightInv, CampaignInv, SettlingInv,
           AttemptInv, ScheduleInv, NEW s \in Slots, SlotStep(s) \/ SlotDbError(s)
    PROVE  LET r == job[s] IN
           /\ \A q \in Rows : q # r => /\ jobState'[q] = jobState[q]
                                      /\ jobLock'[q] = jobLock[q]
           /\ pc'[s] # "idle" =>
                 /\ job'[s] = r /\ RunHolds(s)'
                 /\ jobState'[r] = jobState[r] /\ jobLock'[r] = jobLock[r]
           /\ pc'[s] = "idle" =>
                 /\ status'[r] = status[r]
                 /\ \/ jobState'[r] = "queued"
                    \/ jobState'[r] = "completed" /\ status[r] \in Terminal
           /\ jobState[r] = "active" /\ jobLock[r] = s
           /\ UNCHANGED <<toEnqueue, toCancel, canceller, scanned>>
  <1>1. job[s] \in Rows /\ pc[s] # "idle"
    BY StepIsLocal
       DEF SlotStep, Step, Load, Claim, Limit, Release, Defer, Send, Record, Rollback,
           Fail, CountPending, Flip, CountFailed, Classify, Return, Throw,
           SlotDbError, DbError, Finalizing
  <1>2. \A e \in { "db", "redis", "ack", "unrecorded" } : e \notin Events
    BY DEF Undisturbed
  <1>3. RunCounts(s) /\ LockCounts(job[s]) /\ RunHolds(s) /\ JobServes(job[s])
    BY <1>1 DEF AttemptInv, ScheduleInv
  <1>4. NoSlot \notin Slots /\ Attempts \in Nat /\ jobState[job[s]] = "active"
    BY <1>1, <1>3, DeploymentAssumption DEF TypeInv, QueueInv, RunHolds
  <1>5. pc[s] = "claim" => status[job[s]] # "PROCESSING"
    <2>1. ASSUME pc[s] = "claim", status[job[s]] = "PROCESSING"
          PROVE  FALSE
      <3>1. PICK t \in Slots : pc[t] \in FlightPcs /\ job[t] = job[s]
        BY <1>1, <2>1 DEF SettlingInv
      <3>2. jobLock[job[t]] = t
        BY <3>1 DEF ScheduleInv, RunHolds, FlightPcs
      <3> QED BY <1>1, <1>3, <2>1, <3>1, <3>2 DEF RunHolds, FlightPcs
    <2> QED BY <2>1
  <1>6. pc[s] \in Finalizing => status[job[s]] \in Terminal
    BY DEF CampaignInv, CountsHold
  <1>7. UNCHANGED <<toEnqueue, toCancel, canceller, scanned>>
    BY DEF SlotStep, SlotDbError, reconcilerVars, serviceVars
  <1> USE <1>1, <1>2, <1>3, <1>4, <1>5, <1>6, <1>7
      DEF TypeInv, QueueInv, QueueTypeOK, LedgerTypeOK, EmailStatus, ProcessorInv,
          ProcessorTypeOK, RunCounts, LockCounts, RunHolds, JobServes, Finalizing,
          Terminal
  <1>8. CASE SlotDbError(s)
    BY <1>8 DEF SlotDbError, DbError
  <1>9. CASE Load(s) \/ Limit(s) \/ CountPending(s) \/ CountFailed(s)
    BY <1>9 DEF Load, Limit, CountPending, CountFailed, Goto, ledgerVars, queueVars
  <1>10. CASE Claim(s) \/ Release(s) \/ Rollback(s)
    BY <1>10 DEF Claim, Release, Rollback, ReleaseRow, UpdateWhere, Written, Goto,
                 queueVars
  <1>11. CASE Send(s)
    BY <1>11 DEF Send, Raise, Handler, InTry, IsLastAttempt, Goto, ledgerVars, queueVars
  <1>12. CASE Record(s) \/ Fail(s)
    BY <1>12 DEF Record, Fail, Conclude, queueVars
  <1>13. CASE Flip(s) \/ Classify(s)
    BY <1>13 DEF Flip, Classify, Written, Goto, queueVars
  <1>14. CASE Defer(s)
    BY <1>14 DEF Defer, DelayJob, LeaveActive, Forget, ledgerVars
  <1>15. CASE Return(s)
    BY <1>15 DEF Return, CompleteJob, LeaveActive, Forget, ledgerVars
  <1>16. CASE Throw(s)
    BY <1>16 DEF Throw, RetryOrFailJob, LeaveActive, Forget, ledgerVars
  <1> QED BY <1>8, <1>9, <1>10, <1>11, <1>12, <1>13, <1>14, <1>15, <1>16
          DEF SlotStep, Step

\* A cancelled campaign stays so until each of its rows has settled.
LEMMA CancelledStays ==
    ASSUME Gentle, TypeInv, OwnerInv, FlightInv, CampaignInv, [Next]_vars,
           NEW c \in Campaigns, campaign[c] = "CANCELLED" \/ AllTerminal(c)
    PROVE  campaign'[c] = "CANCELLED" \/ AllTerminal(c)'
  <1>1. CampaignInv'
    BY CampaignNext
  <1>2. campaign[c] = "CANCELLED" => campaign'[c] \in Finished \cup { "CANCELLED" }
    BY CampaignMoves DEF Finished
  <1> QED BY <1>1, <1>2, CountsStay DEF CampaignInv

\* The run of a slot leaves every due row a job.
LEMMA SlotKeepsSchedule ==
    ASSUME Undisturbed, Gentle, TypeInv, OwnerInv, FlightInv, CampaignInv,
           SettlingInv, AttemptInv, ScheduleInv, NEW s \in Slots,
           SlotStep(s) \/ SlotDbError(s), [Next]_vars
    PROVE  ScheduleInv'
  <1> DEFINE r == job[s]
  <1>1. r \in Rows /\ \A q \in Rows : CampaignOf[q] \in Campaigns
    BY StepIsLocal, DeploymentAssumption
  <1>2. \A q \in Rows :
           /\ status'[q] = "ABSENT" <=> status[q] = "ABSENT"
           /\ status[q] \in Terminal => status'[q] = status[q]
           /\ q # r => status'[q] = status[q]
    BY <1>1, StepIsLocal, FlightStep
  <1>3. ASSUME NEW t \in Slots
        PROVE  RunHolds(t)'
    <2>1. CASE t = s
      BY <2>1, RunEnds DEF RunHolds
    <2>2. CASE t # s /\ pc[t] # "idle"
      <3>1. job[t] \in Rows /\ RunHolds(t)
        BY <2>2 DEF TypeInv, ProcessorInv, ProcessorTypeOK, ScheduleInv
      <3>2. pc'[t] = pc[t] /\ job'[t] = job[t]
        BY <2>2, StepIsLocal
      <3>3. job[t] # r
        BY <2>2, <3>1, RunEnds DEF RunHolds
      <3>4. prior'[t] = prior[t]
        BY <2>2, StepCounts DEF Undisturbed, Steady, Quiet, SendResultsKept
      <3> QED BY <1>2, <3>1, <3>2, <3>3, <3>4, RunEnds DEF RunHolds
    <2>3. CASE t # s /\ pc[t] = "idle"
      BY <2>3, StepIsLocal DEF RunHolds
    <2> QED BY <2>1, <2>2, <2>3
  <1>4. ASSUME NEW q \in Rows
        PROVE  JobServes(q)'
    <2>1. JobServes(q) /\ NoSlot \notin Slots
      BY DeploymentAssumption DEF ScheduleInv
    <2>2. CASE q = r
      BY <1>1, <1>2, <2>1, <2>2, RunEnds, CancelledStays DEF JobServes, Terminal
    <2>3. CASE q # r
      <3>1. campaign[CampaignOf[q]] = "CANCELLED" /\ status'[q] = "SCHEDULED" =>
               campaign'[CampaignOf[q]] = "CANCELLED"
        BY <1>1, CancelledStays DEF AllTerminal, RowsOf, Terminal
      <3> QED BY <1>1, <1>2, <2>1, <2>3, <3>1, RunEnds DEF JobServes
    <2> QED BY <2>2, <2>3
  <1>5. ASSUME NEW c \in Campaigns
        PROVE  RequestHolds(c)'
    <2>1. RequestHolds(c) /\ toEnqueue[c] \subseteq Rows
      BY DEF ScheduleInv, TypeInv, ServiceTypeOK
    <2> QED BY <1>2, <2>1, RunEnds, CancelledStays DEF RequestHolds, RowsOf
  <1>6. ASSUME NEW w \in Workers
        PROVE  \A q \in scanned'[w] : status'[q] # "ABSENT"
    <2>1. scanned[w] \subseteq Rows /\ scanned' = scanned
      BY RunEnds DEF TypeInv, ReconcilerTypeOK
    <2> QED BY <1>2, <2>1 DEF ScheduleInv
  <1> QED BY <1>3, <1>4, <1>5, <1>6 DEF ScheduleInv

\* Nobody else takes a lock, or a job away from a due row: a job is removed when
\* its campaign has been cancelled, and evicted when its row has settled.
LEMMA OthersKeepSchedule ==
    ASSUME Undisturbed, Gentle, TypeInv, OwnerInv, FlightInv, CampaignInv,
           SettlingInv, AttemptInv, ScheduleInv, [Next]_vars,
           ~ \E s \in Slots : SlotStep(s) \/ SlotDbError(s)
    PROVE  ScheduleInv'
  <1>1. /\ \A e \in { "crash", "stall", "redis", "apiCrash", "redisLoss" } : e \notin Events
        /\ Quiet /\ NoSlot \notin Slots
    BY DeploymentAssumption DEF Undisturbed, Quiet
  <1>2. \A q \in Rows : /\ status[q] \in Terminal => status'[q] = status[q]
                        /\ status'[q] = "ABSENT" => status[q] = "ABSENT"
                        /\ CampaignOf[q] \in Campaigns
    BY RowsStay, DeploymentAssumption
  <1>3. \A c \in Campaigns : campaign[c] = "CANCELLED" \/ AllTerminal(c) =>
                             campaign'[c] = "CANCELLED" \/ AllTerminal(c)'
    BY CancelledStays
  <1>4. \A q \in Rows :
           campaign[CampaignOf[q]] = "CANCELLED" /\ status'[q] = "SCHEDULED" =>
              campaign'[CampaignOf[q]] = "CANCELLED"
    BY <1>2, <1>3 DEF AllTerminal, RowsOf, Terminal
  <1> USE <1>1, <1>2, <1>3
      DEF TypeInv, QueueInv, QueueTypeOK, LedgerTypeOK, ReconcilerTypeOK,
          ServiceTypeOK, ProcessorInv, ProcessorTypeOK, ScheduleInv
  <1>5. ASSUME NEW s \in Slots, NEW r \in Rows, SlotTake(s, r)
        PROVE  ScheduleInv'
    <2>1. /\ UNCHANGED <<status, campaign, toEnqueue, toCancel, canceller, scanned>>
          /\ pc[s] = "idle" /\ jobState[r] = "queued"
          /\ \A q \in Rows : jobLock[q] # s
      BY <1>5 DEF SlotTake, Take, TakeJob, AttemptInv, LockCounts, ledgerVars,
                  serviceVars, reconcilerVars
    <2>2. ASSUME NEW t \in Slots
          PROVE  RunHolds(t)'
      BY <1>5, <2>1, <2>2 DEF SlotTake, Take, TakeJob, RunHolds
    <2>3. ASSUME NEW q \in Rows
          PROVE  JobServes(q)'
      BY <1>5, <2>1, <2>3 DEF SlotTake, Take, TakeJob, JobServes
    <2> QED BY <2>1, <2>2, <2>3 DEF RequestHolds, AllTerminal
  <1>6. ASSUME UNCHANGED processorVars,
               \A q \in Rows : jobLock'[q] = jobLock[q] /\ JobServes(q)',
               \A c \in Campaigns : RequestHolds(c)',
               \A w \in Workers : \A q \in scanned'[w] : status'[q] # "ABSENT"
        PROVE  ScheduleInv'
    <2>1. ASSUME NEW t \in Slots
          PROVE  RunHolds(t)'
      BY <1>6, <2>1 DEF RunHolds, processorVars
    <2> QED BY <1>6, <2>1
  <1>7. ASSUME UNCHANGED serviceVars
        PROVE  \A c \in Campaigns : RequestHolds(c)'
    BY <1>7 DEF RequestHolds, RowsOf, serviceVars
  <1>8. ASSUME UNCHANGED reconcilerVars
        PROVE  \A w \in Workers : \A q \in scanned'[w] : status'[q] # "ABSENT"
    BY <1>8 DEF reconcilerVars
  <1>9. ASSUME UNCHANGED queueVars, UNCHANGED toEnqueue, UNCHANGED <<status, campaign>>
        PROVE  \A q \in Rows : jobLock'[q] = jobLock[q] /\ JobServes(q)'
    BY <1>9 DEF JobServes, queueVars
  <1>10. CASE UNCHANGED vars
    BY <1>6, <1>7, <1>8, <1>9, <1>10 DEF vars, ledgerVars, serviceVars
  <1>11. ASSUME NEW w \in Workers,
                WorkerBoots(w) \/ WorkerCloses(w) \/ WorkerExits(w) \/ WorkerDies(w)
         PROVE  ScheduleInv'
    <2>1. ~WorkerDies(w) /\ UNCHANGED <<processorVars, serviceVars, campaign>>
      BY <1>11 DEF WorkerDies, Die, WorkerBoots, Boot, Reconcile, FailStaleProcessing,
                   ScanScheduled, ProbeJobs, RequeueMissing, WorkerCloses, Close,
                   WorkerExits, Exit, ledgerVars
    <2>2. UNCHANGED <<status, campaign>>
      BY <1>11, <2>1, OthersSettle
         DEF CommitCampaign, CommitCancel, serviceVars
    <2>3. \A v \in Workers : \A q \in scanned'[v] : status'[q] # "ABSENT"
      BY <1>11, <2>1, <2>2
         DEF WorkerBoots, Boot, Reconcile, FailStaleProcessing, ScanScheduled,
             ProbeJobs, RequeueMissing, WorkerCloses, Close, WorkerExits, Exit, Enter
    <2>4. CASE RequeueMissing(w)
      <3>1. \A q \in Rows : jobLock'[q] = jobLock[q] /\ JobServes(q)'
        BY <2>1, <2>2, <2>4
           DEF RequeueMissing, EnqueueEmailJobs, Exists, JobServes, serviceVars
      <3> QED BY <1>6, <1>7, <2>1, <2>3, <3>1
    <2>5. CASE UNCHANGED queueVars
      BY <1>6, <1>7, <1>9, <2>1, <2>2, <2>3, <2>5 DEF serviceVars
    <2> QED BY <1>11, <2>1, <2>4, <2>5
            DEF WorkerBoots, Boot, Reconcile, FailStaleProcessing, ScanScheduled,
                ProbeJobs, WorkerCloses, Close, WorkerExits, Exit
  <1>12. CASE BackgroundStep
    <2>1. /\ UNCHANGED <<processorVars, serviceVars, reconcilerVars, status, campaign>>
          /\ UNCHANGED queueVars \/ \E r \in Rows : EvictJob(r)
      BY <1>12 DEF BackgroundStep, RedisLosesQueue, QueueStep, LockExpires, ExpireLock,
                   StalledJobMoves, MoveStalledJob, JobEvicted, ClaimAges, AttemptInv,
                   LockCounts, JobServes, ledgerVars
    <2>2. ASSUME NEW r \in Rows, EvictJob(r)
          PROVE  \A q \in Rows : jobLock'[q] = jobLock[q] /\ JobServes(q)'
      BY <2>1, <2>2 DEF EvictJob, Vanish, JobServes, Terminal, serviceVars
    <2> QED BY <1>6, <1>7, <1>8, <1>9, <2>1, <2>2 DEF serviceVars
  <1>13. CASE RequestStep
    <2>1. UNCHANGED <<processorVars, reconcilerVars>>
      BY <1>13 DEF RequestStep, RequestsDie, RequestArrives, RequestEnqueues,
                   RequestCancels
    <2>2. ASSUME NEW c \in Campaigns, CommitCampaign(c)
          PROVE  ScheduleInv'
      <3>1. \A q \in Rows : jobLock'[q] = jobLock[q] /\ JobServes(q)'
        BY <1>4, <2>2 DEF CommitCampaign, UpdateWhere, JobServes, RowsOf, Terminal,
                          queueVars, CampaignInv
      <3>2. \A d \in Campaigns : RequestHolds(d)'
        BY <2>2 DEF CommitCampaign, UpdateWhere, RequestHolds, RowsOf, Terminal
      <3> QED BY <1>6, <1>8, <2>1, <3>1, <3>2
    <2>3. ASSUME NEW c \in Campaigns, EnqueueChunk(c)
          PROVE  ScheduleInv'
      <3>1. UNCHANGED <<status, campaign>>
        BY <2>3 DEF EnqueueChunk, ledgerVars
      <3>2. \A q \in Rows : jobLock'[q] = jobLock[q] /\ JobServes(q)'
        <4>1. \A q \in Rows :
                 /\ jobLock'[q] = jobLock[q]
                 /\ \/ jobState'[q] = jobState[q]
                    \/ jobState'[q] = "queued" /\ status[q] # "ABSENT"
                 /\ jobState'[q] = "none" =>
                       (q \in toEnqueue[CampaignOf[q]] <=> q \in toEnqueue'[CampaignOf[q]])
          BY <2>3, <3>1 DEF EnqueueChunk, EnqueueEmailJobs, Exists, RequestHolds
        <4> QED BY <3>1, <4>1 DEF JobServes
      <3>3. \A d \in Campaigns : RequestHolds(d)'
        BY <2>3, <3>1 DEF EnqueueChunk, RequestHolds, RowsOf
      <3> QED BY <1>6, <1>8, <2>1, <3>2, <3>3
    <2>4. ASSUME NEW c \in Campaigns, ReadToCancel(c) \/ FinishCancel(c) \/ CheckCancel(c)
          PROVE  ScheduleInv'
      <3>1. UNCHANGED <<status, campaign, toEnqueue, queueVars>>
        BY <2>4 DEF ReadToCancel, FinishCancel, CheckCancel, ledgerVars
      <3>2. \A d \in Campaigns : RequestHolds(d)'
        <4>1. CASE ReadToCancel(c)
          BY <3>1, <4>1 DEF ReadToCancel, RequestHolds, RowsOf
        <4>2. CASE FinishCancel(c) \/ CheckCancel(c)
          BY <3>1, <4>2 DEF FinishCancel, CheckCancel, RequestHolds
        <4> QED BY <2>4, <4>1, <4>2
      <3> QED BY <1>6, <1>8, <1>9, <2>1, <3>1, <3>2
    <2>5. ASSUME NEW c \in Campaigns, CommitCancel(c)
          PROVE  ScheduleInv'
      <3>1. \A q \in Rows : jobLock'[q] = jobLock[q] /\ JobServes(q)'
        BY <1>4, <2>5 DEF CommitCancel, UpdateWhere, JobServes, RowsOf, Terminal,
                          queueVars
      <3>2. \A d \in Campaigns : RequestHolds(d)'
        BY <2>5 DEF CommitCancel, RequestHolds, RowsOf
      <3> QED BY <1>6, <1>8, <2>1, <3>1, <3>2
    <2>6. ASSUME NEW c \in Campaigns, RemoveNext(c)
          PROVE  ScheduleInv'
      <3>1. UNCHANGED <<status, campaign, toEnqueue, canceller>>
        BY <2>6 DEF RemoveNext, ledgerVars
      <3>2. PICK r \in toCancel[c] : RemoveEmailJob(r)
        BY <2>6 DEF RemoveNext
      <3>3. /\ r \in Rows /\ CampaignOf[r] = c
            /\ campaign[c] = "CANCELLED" \/ status[r] \in Terminal
        BY <2>6, <3>2 DEF RemoveNext, RequestHolds, AllTerminal, RowsOf
      <3>4. \A q \in Rows : jobLock'[q] = jobLock[q] /\ JobServes(q)'
        BY <3>1, <3>2, <3>3 DEF RemoveEmailJob, Vanish, JobServes, Terminal, queueVars
      <3>5. \A d \in Campaigns : RequestHolds(d)'
        BY <2>6, <3>1 DEF RemoveNext, RequestHolds, RowsOf
      <3> QED BY <1>6, <1>8, <2>1, <3>4, <3>5
    <2> QED BY <1>13, <2>2, <2>3, <2>4, <2>5, <2>6
            DEF RequestStep, RequestsDie, ApiCrash, EnqueueError, RequestArrives,
                RequestEnqueues, RequestCancels
  <1> QED BY <1>5, <1>10, <1>11, <1>12, <1>13, Actors

\* A SCHEDULED row that nobody is about to enqueue, and whose campaign was not
\* cancelled, has a job that will run: the processor and BullMQ agree on when a
\* run is the last one, whatever is cancelled, evicted, shut down or restarted.
THEOREM DueRowsHaveJobs ==
    ASSUME CampaignsHaveRows, Undisturbed
    PROVE  Spec => []ScheduledHasJob
  <1>1. Gentle /\ Steady
    BY DEF Undisturbed, Gentle, Steady, Quiet, SendResultsKept
  <1>2. Init => ScheduleInv
    BY DeploymentAssumption
       DEF Init, LedgerInit, QueueInit, ProcessorInit, ReconcilerInit, ServiceInit,
           ScheduleInv, RunHolds, JobServes, RequestHolds
  <1>3. TypeInv /\ OwnerInv /\ FlightInv /\ CampaignInv /\ SettlingInv /\ AttemptInv
           /\ ScheduleInv /\ [Next]_vars => ScheduleInv'
    BY <1>1, SlotKeepsSchedule, OthersKeepSchedule
  <1>4. TypeInv /\ ScheduleInv => ScheduledHasJob
    <2>1. ASSUME TypeInv, ScheduleInv, NEW r \in Rows
          PROVE  JobServes(r) /\ jobState[r] \in JobStates
      BY <2>1 DEF TypeInv, QueueInv, QueueTypeOK, ScheduleInv
    <2> QED BY <2>1 DEF JobServes, JobStates, ScheduledHasJob, Terminal
  <1> QED BY <1>1, <1>2, <1>3, <1>4, AttemptAlways, PTL DEF Spec

-------------------------------------------------------------------------------
(* What the reading side relies on.  Browser lets rows move by MayMove, and     *)
(* campaigns appear with all their rows: why the send path does nothing else to *)
(* its rows, as long as no reply of the database is lost.  (With a lost reply to *)
(* the write of SENT, the catch block may turn SENT into FAILED.)               *)

\* The row of a slot in flight was not reported by anybody but the sweep.
UnreportedInv ==
    \A s \in Slots :
        pc[s] \in FlightPcs => status[job[s]] \in { "PROCESSING", "FAILED" }

\* The rows of a campaign are inserted together.
TogetherInv ==
    \A q, r \in Rows :
        CampaignOf[q] = CampaignOf[r] =>
            (status[q] = "ABSENT" <=> status[r] = "ABSENT")

\* A row stays, moves, or appears with its whole campaign.
MovesAsRead(r) ==
    \/ status'[r] = status[r]
    \/ MayMove(status[r], status'[r])
    \/ \A q \in RowsOf(CampaignOf[r]) : status[q] = "ABSENT" /\ status'[q] = "SCHEDULED"

\* What the step of a run does to its row.
LEMMA RunMovesRow ==
    ASSUME "db" \notin Events, TypeInv, OwnerInv, UnreportedInv,
           NEW s \in Slots, SlotStep(s) \/ SlotDbError(s)
    PROVE  /\ pc'[s] \in FlightPcs => status'[job[s]] \in { "PROCESSING", "FAILED" }
           /\ \/ status'[job[s]] = status[job[s]]
              \/ MayMove(status[job[s]], status'[job[s]])
  <1>1. job[s] \in Rows
    BY StepIsLocal
  <1> USE <1>1, HandlerIsStep
      DEF TypeInv, UnreportedInv, FlightPcs, OwnerPcs, Finalizing, LedgerTypeOK,
          ProcessorInv, ProcessorTypeOK, MayMove
  <1>2. CASE SlotDbError(s)
    BY <1>2 DEF SlotDbError, DbError, Raise, Goto, Handler, InTry, ledgerVars
  <1>3. CASE Load(s) \/ Limit(s) \/ Defer(s) \/ Send(s) \/ CountPending(s)
             \/ CountFailed(s) \/ Return(s) \/ Throw(s)
    BY <1>3 DEF Load, Limit, Defer, Send, CountPending, CountFailed, Return, Throw,
                Raise, Goto, Handler, InTry, Forget, ledgerVars
  <1>4. CASE Claim(s)
    BY <1>4 DEF Claim, UpdateWhere, Written, Raise, Goto, Handler, InTry
  <1>5. CASE Release(s) \/ Rollback(s)
    BY <1>5 DEF Release, Rollback, ReleaseRow, UpdateWhere, Written, Raise, Goto,
                Handler, InTry
  <1>6. CASE Record(s) \/ Fail(s)
    BY <1>6 DEF Record, Fail, Conclude, Raise, Goto
  <1>7. CASE Flip(s) \/ Classify(s)
    BY <1>7 DEF Flip, Classify, Written, Raise, Goto
  <1> QED BY <1>2, <1>3, <1>4, <1>5, <1>6, <1>7 DEF SlotStep, Step

\* What the sweep and the transactions of the API do to a row.
LEMMA OthersMoveRows ==
    ASSUME TypeInv, TogetherInv, [Next]_vars,
           ~ \E s \in Slots : SlotStep(s) \/ SlotDbError(s)
    PROVE  /\ \A s \in Slots : pc'[s] \in OwnerPcs =>
                 pc'[s] = pc[s] /\ job'[s] = job[s]
           /\ \A r \in Rows : /\ MovesAsRead(r)
                              /\ status[r] = "PROCESSING" =>
                                    status'[r] \in { "PROCESSING", "FAILED" }
                              /\ status[r] \in Terminal => status'[r] = status[r]
           /\ TogetherInv'
  <1>1. \A s \in Slots : pc'[s] \in OwnerPcs => pc'[s] = pc[s] /\ job'[s] = job[s]
    BY Actors, OthersKeepRuns
  <1>2. CASE UNCHANGED status
    BY <1>1, <1>2 DEF MovesAsRead, TogetherInv, Terminal
  <1>3. ASSUME NEW R \in SUBSET Rows, NEW from, NEW to,
               UpdateWhere(R, from, to), MayMove(from, to),
               from \in { "SCHEDULED", "PROCESSING" },
               from = "PROCESSING" => to = "FAILED"
        PROVE  /\ \A r \in Rows :
                     /\ MovesAsRead(r)
                     /\ status[r] = "PROCESSING" =>
                           status'[r] \in { "PROCESSING", "FAILED" }
                     /\ status[r] \in Terminal => status'[r] = status[r]
               /\ TogetherInv'
    <2>1. \A r \in Rows :
             \/ status'[r] = status[r]
             \/ r \in R /\ status[r] = from /\ status'[r] = to
      BY <1>3 DEF UpdateWhere, TypeInv, LedgerTypeOK
    <2>2. from # "ABSENT" /\ to # "ABSENT" /\ from \notin Terminal
      BY <1>3 DEF MayMove, Terminal
    <2> QED BY <1>3, <2>1, <2>2 DEF MovesAsRead, TogetherInv
  <1>4. ASSUME NEW w \in Workers, FailStaleProcessing(w)
        PROVE  \E R \in SUBSET Rows : UpdateWhere(R, "PROCESSING", "FAILED")
    BY <1>4 DEF FailStaleProcessing
  <1>5. ASSUME NEW c \in Campaigns, CommitCancel(c)
        PROVE  \E R \in SUBSET Rows : UpdateWhere(R, "SCHEDULED", "CANCELLED")
    BY <1>5 DEF CommitCancel, RowsOf
  <1>6. ASSUME NEW c \in Campaigns, CommitCampaign(c)
        PROVE  /\ \A r \in Rows :
                     /\ MovesAsRead(r)
                     /\ status[r] = "PROCESSING" =>
                           status'[r] \in { "PROCESSING", "FAILED" }
                     /\ status[r] \in Terminal => status'[r] = status[r]
               /\ TogetherInv'
    <2>1. \A r \in Rows :
             status'[r] = IF CampaignOf[r] = c /\ status[r] = "ABSENT"
                          THEN "SCHEDULED" ELSE status[r]
      BY <1>6 DEF CommitCampaign, UpdateWhere, RowsOf
    <2>2. ASSUME NEW r \in Rows, CampaignOf[r] = c, status[r] = "ABSENT"
          PROVE  \A q \in RowsOf(CampaignOf[r]) :
                    status[q] = "ABSENT" /\ status'[q] = "SCHEDULED"
      BY <2>1, <2>2 DEF RowsOf, TogetherInv
    <2>3. TogetherInv'
      BY <2>1 DEF TogetherInv
    <2> QED BY <2>1, <2>2, <2>3 DEF MovesAsRead, Terminal
  <1>7. MayMove("PROCESSING", "FAILED") /\ MayMove("SCHEDULED", "CANCELLED")
    BY DEF MayMove
  <1>8. CASE \E w \in Workers : FailStaleProcessing(w)
    <2>1. PICK R \in SUBSET Rows : UpdateWhere(R, "PROCESSING", "FAILED")
      BY <1>4, <1>8
    <2> QED BY <1>1, <1>3, <1>7, <2>1
  <1>9. CASE \E c \in Campaigns : CommitCancel(c)
    <2>1. PICK R \in SUBSET Rows : UpdateWhere(R, "SCHEDULED", "CANCELLED")
      BY <1>5, <1>9
    <2> QED BY <1>1, <1>3, <1>7, <2>1
  <1>10. CASE \E c \in Campaigns : CommitCampaign(c)
    BY <1>1, <1>6, <1>10
  <1> QED BY <1>2, <1>8, <1>9, <1>10, RowWritersBesideRuns

\* Every step moves rows as they are read, and keeps what that rests on.
LEMMA StepsMoveAsRead ==
    ASSUME "db" \notin Events, TypeInv, OwnerInv, UnreportedInv, TogetherInv, [Next]_vars
    PROVE  (\A r \in Rows : MovesAsRead(r)) /\ UnreportedInv' /\ TogetherInv'
  <1>1. \A t \in Slots : pc[t] \in FlightPcs => job[t] \in Rows /\ pc[t] \in OwnerPcs
    BY DEF TypeInv, ProcessorInv, ProcessorTypeOK, FlightPcs, OwnerPcs
  <1>2. ASSUME NEW s \in Slots, SlotStep(s) \/ SlotDbError(s)
        PROVE  (\A r \in Rows : MovesAsRead(r)) /\ UnreportedInv' /\ TogetherInv'
    <2>1. /\ job[s] \in Rows
          /\ \A t \in Slots : t # s => pc'[t] = pc[t] /\ job'[t] = job[t]
          /\ \A r \in Rows : r # job[s] => status'[r] = status[r]
      BY <1>2, StepIsLocal
    <2>2. \/ status'[job[s]] = status[job[s]]
          \/ MayMove(status[job[s]], status'[job[s]])
      BY <1>2, RunMovesRow
    <2>3. \A r \in Rows : MovesAsRead(r)
      BY <2>1, <2>2 DEF MovesAsRead
    <2>4. TogetherInv'
      <3>1. \A r \in Rows : status'[r] = "ABSENT" <=> status[r] = "ABSENT"
        BY <2>1, <2>2 DEF MayMove
      <3> QED BY <3>1 DEF TogetherInv
    <2>5. ASSUME NEW t \in Slots, pc'[t] \in FlightPcs
          PROVE  status'[job'[t]] \in { "PROCESSING", "FAILED" }
      <3>1. CASE t = s
        BY <1>2, <2>5, <3>1, RunMovesRow, StepOwner DEF FlightPcs, OwnerPcs
      <3>2. CASE t # s
        <4>1. /\ pc[t] \in FlightPcs /\ job'[t] = job[t] /\ job[t] \in Rows
              /\ pc[t] \in OwnerPcs /\ status[job[t]] \in { "PROCESSING", "FAILED" }
          BY <1>1, <2>1, <2>5, <3>2 DEF UnreportedInv
        <4>2. CASE job[t] # job[s]
          BY <2>1, <4>1, <4>2
        <4>3. CASE job[t] = job[s]
          <5>1. pc[s] \notin OwnerPcs
            BY <2>1, <3>2, <4>1, <4>3 DEF OwnerInv, OneOwner, Owns
          <5>2. status[job[s]] \in Held
            BY <4>1, <4>3 DEF Held
          <5> QED BY <1>2, <4>1, <4>3, <5>1, <5>2, StepOwner
        <4> QED BY <4>2, <4>3
      <3> QED BY <3>1, <3>2
    <2> QED BY <2>3, <2>4, <2>5 DEF UnreportedInv
  <1>3. ASSUME ~ \E s \in Slots : SlotStep(s) \/ SlotDbError(s)
        PROVE  (\A r \in Rows : MovesAsRead(r)) /\ UnreportedInv' /\ TogetherInv'
    <2>1. /\ \A s \in Slots : pc'[s] \in OwnerPcs =>
                pc'[s] = pc[s] /\ job'[s] = job[s]
          /\ \A r \in Rows : /\ MovesAsRead(r)
                             /\ status[r] = "PROCESSING" =>
                                   status'[r] \in { "PROCESSING", "FAILED" }
                             /\ status[r] \in Terminal => status'[r] = status[r]
          /\ TogetherInv'
      BY <1>3, OthersMoveRows
    <2>2. UnreportedInv'
      BY <1>1, <2>1 DEF UnreportedInv, FlightPcs, OwnerPcs, Terminal
    <2> QED BY <2>1, <2>2
  <1> QED BY <1>2, <1>3

\* The send path does to its rows only what the reading side takes them to do,
\* for all constants and all events but lost database replies: so what is proved
\* of the listings and the pages holds of the rows this system has.
THEOREM RowsMoveAsRead ==
    ASSUME "db" \notin Events
    PROVE  Spec => [][\A r \in Rows : MovesAsRead(r)]_vars
  <1>1. Init => OwnerInv /\ UnreportedInv /\ TogetherInv
    BY DEF Init, ProcessorInit, LedgerInit, OwnerInv, OneOwner, Owns, OwnerPcs,
           Finalizing, UnreportedInv, FlightPcs, TogetherInv
  <1>2. TypeInv /\ OwnerInv /\ UnreportedInv /\ TogetherInv /\ [Next]_vars
           => [\A r \in Rows : MovesAsRead(r)]_vars /\ UnreportedInv' /\ TogetherInv'
    BY StepsMoveAsRead
  <1> QED BY <1>1, <1>2, TypeInit, TypeNext, OwnerNext, PTL DEF Spec
===============================================================================
