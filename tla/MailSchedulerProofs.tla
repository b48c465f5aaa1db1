-------------------------- MODULE MailSchedulerProofs --------------------------
(***************************************************************************)
(* Theorems about the send path, for every number of rows, campaigns,      *)
(* workers and slots, and for every set of events.                         *)
(***************************************************************************)
EXTENDS MailScheduler, TLAPS

-------------------------------------------------------------------------------
(* The queue.  Its types are inductive with three facts about its jobs: only  *)
(* an active job is locked, and a job that can still run has neither used up   *)
(* its attempts nor been stalled too often.                                    *)

QueueInv ==
    /\ QueueTypeOK
    /\ \A r \in Rows :
          /\ jobLock[r] # NoSlot => jobState[r] = "active"
          /\ jobState[r] \in { "queued", "active" } =>
                attemptsMade[r] < Attempts /\ stalls[r] <= MaxStalled
          /\ jobState[r] = "none" => attemptsMade[r] = 0 /\ stalls[r] = 0

\* Removing jobs, whichever they are, keeps the queue well-formed.
LEMMA VanishInv ==
    ASSUME QueueInv, NEW R, Vanish(R)
    PROVE  QueueInv'
  BY DeploymentAssumption DEF QueueInv, QueueTypeOK, Vanish, JobStates

\* Adding jobs keeps the queue well-formed: an existing job is not reset.
LEMMA EnqueueInv ==
    ASSUME QueueInv, NEW R, EnqueueEmailJobs(R)
    PROVE  QueueInv'
  BY DeploymentAssumption
     DEF QueueInv, QueueTypeOK, EnqueueEmailJobs, Exists, JobStates

\* Removing one job, unless it is locked, keeps the queue well-formed.
LEMMA RemoveInv ==
    ASSUME QueueInv, NEW r \in Rows, RemoveEmailJob(r)
    PROVE  QueueInv'
  <1>1. CASE Vanish({r})
    BY <1>1, VanishInv
  <1>2. CASE UNCHANGED queueVars
    BY <1>2 DEF QueueInv, QueueTypeOK, queueVars
  <1> QED BY <1>1, <1>2 DEF RemoveEmailJob

\* Fetching a job locks one that becomes active.
LEMMA TakeInv ==
    ASSUME QueueInv, NEW s \in Slots, NEW r \in Rows, TakeJob(s, r)
    PROVE  QueueInv'
  BY DeploymentAssumption DEF QueueInv, QueueTypeOK, TakeJob, JobStates

\* Leaving the active set: the attempt counter stays within the policy.
LEMMA LeaveActiveInv ==
    ASSUME QueueInv, NEW r \in Rows, jobState[r] = "active",
           NEW st \in { "queued", "completed", "failed" }, NEW n \in {0, 1},
           st = "queued" => attemptsMade[r] + n < Attempts,
           LeaveActive(r, st, n)
    PROVE  QueueInv'
  BY DeploymentAssumption DEF QueueInv, QueueTypeOK, LeaveActive, JobStates

\* A deferral gives back the lock and counts no attempt.
LEMMA DelayInv ==
    ASSUME QueueInv, NEW s \in Slots, NEW r \in Rows, DelayJob(s, r)
    PROVE  QueueInv'
  <1>1. jobState[r] = "active" /\ attemptsMade[r] + 0 < Attempts
    BY DeploymentAssumption DEF QueueInv, QueueTypeOK, DelayJob
  <1> QED BY <1>1, LeaveActiveInv DEF DelayJob

\* Completing a job keeps the queue well-formed, lock held or lost.
LEMMA CompleteInv ==
    ASSUME QueueInv, NEW s \in Slots, NEW r \in Rows, CompleteJob(s, r)
    PROVE  QueueInv'
  <1>1. CASE jobLock[r] = s
    <2>1. jobState[r] = "active"
      BY <1>1, DeploymentAssumption DEF QueueInv
    <2> QED BY <1>1, <2>1, LeaveActiveInv DEF CompleteJob
  <1>2. CASE jobLock[r] # s
    BY <1>2 DEF CompleteJob, QueueInv, QueueTypeOK, queueVars
  <1> QED BY <1>1, <1>2

\* A retried job has an attempt left; the others fail for good.
LEMMA RetryOrFailInv ==
    ASSUME QueueInv, NEW s \in Slots, NEW r \in Rows, RetryOrFailJob(s, r)
    PROVE  QueueInv'
  <1>1. CASE jobLock[r] = s
    <2>1. jobState[r] = "active"
      BY <1>1, DeploymentAssumption DEF QueueInv
    <2>2. CASE attemptsMade[r] + 1 < Attempts
      BY <1>1, <2>1, <2>2, LeaveActiveInv DEF RetryOrFailJob
    <2>3. CASE ~(attemptsMade[r] + 1 < Attempts)
      BY <1>1, <2>1, <2>3, LeaveActiveInv DEF RetryOrFailJob
    <2> QED BY <2>2, <2>3
  <1>2. CASE jobLock[r] # s
    BY <1>2 DEF RetryOrFailJob, QueueInv, QueueTypeOK, queueVars
  <1> QED BY <1>1, <1>2

\* Losing a lock leaves the job active.
LEMMA ExpireInv ==
    ASSUME QueueInv, NEW r \in Rows, ExpireLock(r)
    PROVE  QueueInv'
  BY DeploymentAssumption DEF QueueInv, QueueTypeOK, ExpireLock, JobStates

\* A stalled job is queued again at most MaxStalled times.
LEMMA StalledInv ==
    ASSUME QueueInv, NEW r \in Rows, MoveStalledJob(r)
    PROVE  QueueInv'
  BY DeploymentAssumption DEF QueueInv, QueueTypeOK, MoveStalledJob, JobStates

-------------------------------------------------------------------------------
(* The slots' control flow.  A slot about to classify has counted the failures. *)

ProcessorInv ==
    /\ ProcessorTypeOK
    /\ \A s \in Slots : pc[s] = "classify" => verdict[s] \in Finished

\* A slot that goes on with its run keeps its types, the ghosts being in range.
LEMMA GotoType ==
    ASSUME ProcessorInv, NEW s \in Slots, NEW step \in Pcs \ { "classify" }, pc[s] # "idle",
           Goto(s, step)
    PROVE  /\ UNCHANGED mailVars => ProcessorInv'
           /\ mailVars' \in [Rows -> 0 .. 2] \X [Rows -> 0 .. Attempts]
                => ProcessorInv'
  BY DEF ProcessorInv, ProcessorTypeOK, Goto, mailVars

\* An exception leads to one of three steps.
LEMMA HandlerIsStep ==
    ASSUME NEW s \in Slots
    PROVE  Handler(s) \in { "throw", "fail", "rollback" }
  BY DEF Handler

\* A slot that ends its run, or dies, keeps its types.
LEMMA ForgetType ==
    ASSUME ProcessorInv, NEW S, Forget(S), UNCHANGED mailVars
    PROVE  ProcessorInv'
  BY DeploymentAssumption DEF ProcessorInv, ProcessorTypeOK, Forget, mailVars, Pcs

\* The ghosts stay in range.
LEMMA SmtpType ==
    ASSUME ProcessorInv, NEW r \in Rows, SmtpAccepts(r) \/ SmtpRefuses(r)
    PROVE  mailVars' \in [Rows -> 0 .. 2] \X [Rows -> 0 .. Attempts]
  BY DeploymentAssumption
     DEF ProcessorInv, ProcessorTypeOK, SmtpAccepts, SmtpRefuses, Saturate, mailVars

\* Every step of a run keeps the slots' types.
LEMMA StepType ==
    ASSUME ProcessorInv, NEW s \in Slots, Step(s)
    PROVE  ProcessorInv'
  <1> USE HandlerIsStep, GotoType DEF Pcs, Gates, Finalizing
  <1>1. CASE Load(s)
    BY <1>1 DEF Load
  <1>2. CASE Claim(s)
    BY <1>2 DEF Claim, Written, Raise
  <1>3. CASE Limit(s)
    BY <1>3 DEF Limit, Raise
  <1>4. CASE Release(s)
    BY <1>4 DEF Release, Written, Raise
  <1>5. CASE Defer(s)
    BY <1>5, ForgetType DEF Defer, Raise
  <1>6. CASE Send(s)
    <2>1. pc[s] # "idle" /\ job[s] \in Rows
      BY <1>6 DEF Send, ProcessorInv, ProcessorTypeOK
    <2> QED BY <1>6, <2>1, SmtpType DEF Send, Raise
  <1>7. CASE Record(s) \/ Fail(s)
    <2>1. CASE Raise(s)
      BY <1>7, <2>1 DEF Record, Fail, Raise
    <2>2. CASE Conclude(s, "sent") \/ Conclude(s, "failed")
      BY <1>7, <2>2 DEF Record, Fail, Conclude, ProcessorInv, ProcessorTypeOK, mailVars
    <2> QED BY <1>7, <2>1, <2>2 DEF Record, Fail
  <1>8. CASE Rollback(s)
    BY <1>8 DEF Rollback
  <1>9. CASE CountPending(s)
    BY <1>9 DEF CountPending
  <1>10. CASE Flip(s)
    BY <1>10 DEF Flip, Written, Raise
  <1>11. CASE CountFailed(s)
    BY <1>11 DEF CountFailed, ProcessorInv, ProcessorTypeOK, mailVars, Finished
  <1>12. CASE Classify(s)
    BY <1>12 DEF Classify, Written, Raise
  <1>13. CASE Return(s) \/ Throw(s)
    BY <1>13, ForgetType DEF Return, Throw
  <1> QED BY <1>1, <1>2, <1>3, <1>4, <1>5, <1>6, <1>7, <1>8, <1>9, <1>10,
             <1>11, <1>12, <1>13 DEF Step

\* A run moves its own job through the queue's operations only.
LEMMA StepQueue ==
    ASSUME QueueInv, ProcessorInv, NEW s \in Slots, Step(s)
    PROVE  QueueInv'
  <1>1. CASE UNCHANGED queueVars
    BY <1>1 DEF QueueInv, QueueTypeOK, queueVars
  <1>2. CASE Defer(s) \/ Return(s) \/ Throw(s)
    <2>1. job[s] \in Rows
      BY <1>2 DEF Defer, Return, Throw, ProcessorInv, ProcessorTypeOK
    <2> QED BY <1>1, <1>2, <2>1, DelayInv, CompleteInv, RetryOrFailInv
            DEF Defer, Return, Throw
  <1>3. UNCHANGED queueVars \/ Defer(s) \/ Return(s) \/ Throw(s)
    BY DEF Step, Load, Claim, Limit, Release, Send, Record, Rollback, Fail,
           CountPending, Flip, CountFailed, Classify
  <1> QED BY <1>1, <1>2, <1>3

\* A run writes statuses of the schema's enumerations only.
LEMMA StepLedger ==
    ASSUME LedgerTypeOK, ProcessorInv, NEW s \in Slots, Step(s)
    PROVE  LedgerTypeOK'
  <1> USE DEF LedgerTypeOK, EmailStatus, CampaignStatus
  <1>1. CASE UNCHANGED ledgerVars
    BY <1>1 DEF ledgerVars
  <1>2. CASE Claim(s)
    BY <1>2 DEF Claim, UpdateWhere
  <1>3. CASE Release(s) \/ Rollback(s)
    BY <1>3 DEF Release, Rollback, ReleaseRow, UpdateWhere
  <1>4. CASE Record(s) \/ Fail(s)
    BY <1>4 DEF Record, Fail
  <1>5. CASE Flip(s)
    BY <1>5 DEF Flip
  <1>6. CASE Classify(s)
    <2>1. campaign' = campaign \/ verdict[s] \in CampaignStatus
      BY <1>6 DEF Classify, ProcessorInv, ProcessorTypeOK, Finished
    <2> QED BY <1>6, <2>1 DEF Classify
  <1>7. UNCHANGED ledgerVars \/ Claim(s) \/ Release(s) \/ Rollback(s) \/ Record(s)
        \/ Fail(s) \/ Flip(s) \/ Classify(s)
    BY DEF Step, Load, Limit, Defer, Send, CountPending, CountFailed, Return, Throw
  <1> QED BY <1>1, <1>2, <1>3, <1>4, <1>5, <1>6, <1>7

-------------------------------------------------------------------------------
(* Type correctness of the whole system *)

TypeInv ==
    /\ LedgerTypeOK /\ QueueInv /\ ProcessorInv /\ ReconcilerTypeOK
    /\ ServiceTypeOK

\* The initial state is well-typed.
LEMMA TypeInit == Init => TypeInv
  BY DeploymentAssumption
     DEF Init, TypeInv, LedgerInit, LedgerTypeOK, EmailStatus, CampaignStatus,
         QueueInit, QueueInv, QueueTypeOK, JobStates, ProcessorInit, ProcessorInv,
         ProcessorTypeOK, Pcs, ReconcilerInit, ReconcilerTypeOK, Phases,
         ServiceInit, ServiceTypeOK

\* What a step leaves unchanged stays well-typed.
LEMMA Frames ==
    ASSUME TypeInv
    PROVE  /\ UNCHANGED ledgerVars => LedgerTypeOK'
           /\ UNCHANGED queueVars => QueueInv'
           /\ UNCHANGED <<processorVars, mailVars>> => ProcessorInv'
           /\ UNCHANGED reconcilerVars => ReconcilerTypeOK'
           /\ UNCHANGED serviceVars => ServiceTypeOK'
  BY DEF TypeInv, LedgerTypeOK, QueueInv, QueueTypeOK, ProcessorInv,
         ProcessorTypeOK, ReconcilerTypeOK, ServiceTypeOK, ledgerVars, queueVars,
         processorVars, mailVars, reconcilerVars, serviceVars

\* Whatever a slot does, or fails to do, keeps the types.
LEMMA SlotKeepsTypes ==
    ASSUME TypeInv, NEW s \in Slots,
           SlotStep(s) \/ SlotDbError(s) \/ \E r \in Rows : SlotTake(s, r)
    PROVE  TypeInv'
  <1>1. CASE SlotStep(s)
    BY <1>1, Frames, StepType, StepQueue, StepLedger DEF SlotStep, TypeInv
  <1>2. CASE SlotDbError(s)
    <2>1. pc[s] # "idle" /\ Handler(s) \in Pcs \ { "classify" }
      BY <1>2, HandlerIsStep DEF SlotDbError, DbError, Finalizing, Pcs
    <2>2. ProcessorInv'
      BY <1>2, <2>1, GotoType DEF SlotDbError, DbError, Raise, TypeInv
    <2> QED BY <1>2, <2>2, Frames DEF SlotDbError, DbError, TypeInv
  <1>3. ASSUME NEW r \in Rows, SlotTake(s, r)
        PROVE  TypeInv'
    <2>1. QueueInv'
      BY <1>3, TakeInv DEF SlotTake, Take, TypeInv
    <2>2. ProcessorInv'
      BY <1>3, DeploymentAssumption
         DEF SlotTake, Take, TypeInv, QueueInv, QueueTypeOK, ProcessorInv,
             ProcessorTypeOK, Pcs, Gates, mailVars
    <2> QED BY <1>3, <2>1, <2>2, Frames DEF SlotTake, Take, TypeInv
  <1> QED BY <1>1, <1>2, <1>3

\* Booting, reconciling, closing and dying keep the types.
LEMMA WorkerKeepsTypes ==
    ASSUME TypeInv, NEW w \in Workers,
           WorkerBoots(w) \/ WorkerCloses(w) \/ WorkerExits(w) \/ WorkerDies(w)
    PROVE  TypeInv'
  <1>1. ReconcilerTypeOK'
    <2>1. ASSUME NEW p \in Phases, NEW rows \in SUBSET Rows, Enter(w, p, rows)
          PROVE  ReconcilerTypeOK'
      BY <2>1 DEF Enter, TypeInv, ReconcilerTypeOK
    <2>2. CASE WorkerBoots(w)
      BY <2>1, <2>2
         DEF WorkerBoots, Boot, Reconcile, FailStaleProcessing, ScanScheduled,
             ProbeJobs, RequeueMissing, Phases, Booting, TypeInv, ReconcilerTypeOK
    <2>3. CASE WorkerCloses(w) \/ WorkerExits(w)
      BY <2>1, <2>3 DEF WorkerCloses, WorkerExits, Close, Exit, Phases
    <2>4. CASE WorkerDies(w)
      BY <2>4, DeploymentAssumption
         DEF WorkerDies, Die, TypeInv, ReconcilerTypeOK, Phases
    <2> QED BY <2>2, <2>3, <2>4
  <1>2. LedgerTypeOK'
    BY Frames
       DEF TypeInv, LedgerTypeOK, EmailStatus, UpdateWhere, WorkerBoots, Boot,
           Reconcile, FailStaleProcessing, ScanScheduled, ProbeJobs,
           RequeueMissing, WorkerCloses, Close, WorkerExits, Exit, WorkerDies, Die
  <1>3. QueueInv'
    BY Frames, EnqueueInv
       DEF TypeInv, WorkerBoots, Boot, Reconcile, FailStaleProcessing,
           ScanScheduled, ProbeJobs, RequeueMissing, WorkerCloses, Close,
           WorkerExits, Exit, WorkerDies, Die
  <1>4. ProcessorInv'
    BY Frames, ForgetType
       DEF TypeInv, WorkerBoots, WorkerCloses, WorkerExits, WorkerDies
  <1>5. ServiceTypeOK'
    BY Frames DEF WorkerBoots, WorkerCloses, WorkerExits, WorkerDies
  <1> QED BY <1>1, <1>2, <1>3, <1>4, <1>5 DEF TypeInv

\* What an API request or the end of the API process does.
RequestStep ==
    \/ RequestsDie
    \/ \E c \in Campaigns :
          RequestArrives(c) \/ RequestEnqueues(c) \/ RequestCancels(c)

\* Creating and cancelling campaigns keep the types.
LEMMA RequestKeepsTypes ==
    ASSUME TypeInv, RequestStep
    PROVE  TypeInv'
  <1>1. ProcessorInv' /\ ReconcilerTypeOK'
    BY Frames
       DEF RequestStep, RequestsDie, RequestArrives, RequestEnqueues, RequestCancels
  <1>2. LedgerTypeOK'
    BY Frames
       DEF TypeInv, LedgerTypeOK, EmailStatus, CampaignStatus, UpdateWhere,
           RequestStep, RequestsDie, ApiCrash, EnqueueError, RequestArrives,
           CommitCampaign, CheckCancel, RequestEnqueues, EnqueueChunk,
           RequestCancels, ReadToCancel, CommitCancel, RemoveNext, FinishCancel
  <1>3. ServiceTypeOK'
    <2> USE DEF TypeInv, ServiceTypeOK
    <2>1. CASE RequestsDie
      BY <2>1 DEF RequestsDie, ApiCrash, EnqueueError
    <2>2. ASSUME NEW c \in Campaigns, RequestArrives(c) \/ RequestEnqueues(c)
          PROVE  ServiceTypeOK'
      BY <2>2 DEF RequestArrives, CommitCampaign, CheckCancel, RequestEnqueues,
                  EnqueueChunk, RowsOf
    <2>3. ASSUME NEW c \in Campaigns, RequestCancels(c)
          PROVE  ServiceTypeOK'
      BY <2>3 DEF RequestCancels, ReadToCancel, CommitCancel, RemoveNext,
                  FinishCancel, RowsOf
    <2> QED BY <2>1, <2>2, <2>3 DEF RequestStep
  <1>4. QueueInv'
    <2>1. CASE UNCHANGED queueVars
      BY <2>1, Frames
    <2>2. ASSUME NEW c \in Campaigns, EnqueueChunk(c)
          PROVE  QueueInv'
      BY <2>2, EnqueueInv DEF EnqueueChunk, TypeInv
    <2>3. ASSUME NEW c \in Campaigns, RemoveNext(c)
          PROVE  QueueInv'
      <3>1. PICK r \in toCancel[c] : RemoveEmailJob(r) \/ UNCHANGED queueVars
        BY <2>3 DEF RemoveNext
      <3>2. r \in Rows
        BY <3>1 DEF TypeInv, ServiceTypeOK
      <3> QED BY <2>1, <3>1, <3>2, RemoveInv DEF TypeInv
    <2>4. \/ UNCHANGED queueVars
          \/ \E c \in Campaigns : EnqueueChunk(c) \/ RemoveNext(c)
      BY DEF RequestStep, RequestsDie, ApiCrash, EnqueueError, RequestArrives,
             CommitCampaign, CheckCancel, RequestEnqueues, RequestCancels,
             ReadToCancel, CommitCancel, FinishCancel
    <2> QED BY <2>1, <2>2, <2>3, <2>4
  <1> QED BY <1>1, <1>2, <1>3, <1>4 DEF TypeInv

\* What passes with time, or happens inside Redis.
BackgroundStep ==
    RedisLosesQueue \/ \E r \in Rows : QueueStep(r) \/ ClaimAges(r)

\* Aging claims and the queue's maintenance keep the types.
LEMMA BackgroundKeepsTypes ==
    ASSUME TypeInv, BackgroundStep
    PROVE  TypeInv'
  <1>1. ProcessorInv' /\ ReconcilerTypeOK' /\ ServiceTypeOK'
    BY Frames
       DEF BackgroundStep, RedisLosesQueue, QueueStep, LockExpires,
           StalledJobMoves, JobEvicted, ClaimAges
  <1>2. LedgerTypeOK'
    BY Frames
       DEF TypeInv, LedgerTypeOK, BackgroundStep, RedisLosesQueue, QueueStep,
           LockExpires, StalledJobMoves, JobEvicted, ClaimAges
  <1>3. QueueInv'
    BY Frames, VanishInv, ExpireInv, StalledInv
       DEF TypeInv, BackgroundStep, RedisLosesQueue, QueueStep, LockExpires,
           StalledJobMoves, JobEvicted, EvictJob, ClaimAges
  <1> QED BY <1>1, <1>2, <1>3 DEF TypeInv

\* The next-state relation, by actor.
LEMMA Actors ==
    ASSUME [Next]_vars
    PROVE  \/ UNCHANGED vars
           \/ \E s \in Slots : \/ SlotStep(s) \/ SlotDbError(s)
                               \/ \E r \in Rows : SlotTake(s, r)
           \/ \E w \in Workers : \/ WorkerBoots(w) \/ WorkerCloses(w)
                                 \/ WorkerExits(w) \/ WorkerDies(w)
           \/ RequestStep
           \/ BackgroundStep
  BY Zenon DEF Next, RequestStep, BackgroundStep

\* The types are inductive.
LEMMA TypeNext ==
    ASSUME TypeInv, [Next]_vars
    PROVE  TypeInv'
  <1>1. CASE UNCHANGED vars
    BY <1>1, Frames DEF vars, TypeInv
  <1> QED BY <1>1, Actors, SlotKeepsTypes, WorkerKeepsTypes, RequestKeepsTypes,
             BackgroundKeepsTypes

\* Every variable keeps its type in every behaviour of the send path.
THEOREM TypeCorrect == Spec => []TypeOK
  <1>1. TypeInv => TypeOK
    BY DEF TypeInv, TypeOK, QueueInv, ProcessorInv
  <1> QED BY <1>1, TypeInit, TypeNext, PTL DEF Spec

-------------------------------------------------------------------------------
(* One owner per row.  The compare-and-swap gives a row to one slot; the row    *)
(* stays out of SCHEDULED for as long as that slot acts on it, whoever else      *)
(* writes it, so nobody else can win a claim.  This holds whatever events occur. *)

Held == { "PROCESSING", "SENT", "FAILED" }

OwnerInv ==
    /\ \A s \in Slots : pc[s] \in OwnerPcs => status[job[s]] \in Held
    /\ OneOwner

\* A step of a run touches its own slot's pc and its own row's status only.
LEMMA StepIsLocal ==
    ASSUME TypeInv, NEW s \in Slots, SlotStep(s) \/ SlotDbError(s)
    PROVE  /\ job[s] \in Rows
           /\ \A t \in Slots : t # s => pc'[t] = pc[t] /\ job'[t] = job[t]
           /\ \A r \in Rows : r # job[s] => status'[r] = status[r]
  <1>1. job[s] \in Rows
    BY DEF SlotStep, Step, Load, Claim, Limit, Release, Defer, Send, Record,
           Rollback, Fail, CountPending, Flip, CountFailed, Classify, Return,
           Throw, SlotDbError, DbError, Finalizing, TypeInv, ProcessorInv,
           ProcessorTypeOK
  <1>2. \A t \in Slots : t # s => pc'[t] = pc[t] /\ job'[t] = job[t]
    BY DEF SlotStep, Step, Load, Claim, Limit, Release, Defer, Send, Record,
           Rollback, Fail, CountPending, Flip, CountFailed, Classify, Return,
           Throw, SlotDbError, DbError, Written, Raise, Goto, Conclude, Forget,
           TypeInv, ProcessorInv, ProcessorTypeOK
  <1>3. \A r \in Rows : r # job[s] => status'[r] = status[r]
    BY <1>1
       DEF SlotStep, Step, Load, Claim, Limit, Release, ReleaseRow, Defer, Send,
           Record, Rollback, Fail, CountPending, Flip, CountFailed, Classify,
           Return, Throw, SlotDbError, DbError, UpdateWhere, ledgerVars,
           TypeInv, LedgerTypeOK
  <1> QED BY <1>1, <1>2, <1>3

\* After its step a slot owns a row only if it owned it before, or won the claim
\* of a SCHEDULED row; and the row of an owner is held.
LEMMA StepOwner ==
    ASSUME TypeInv, OwnerInv, NEW s \in Slots, SlotStep(s) \/ SlotDbError(s)
    PROVE  /\ pc'[s] \in OwnerPcs =>
                 /\ job'[s] = job[s]
                 /\ pc[s] \in OwnerPcs \/ status[job[s]] = "SCHEDULED"
                 /\ status'[job[s]] \in Held
           /\ pc[s] \notin OwnerPcs /\ status[job[s]] \in Held =>
                 status'[job[s]] = status[job[s]]
  <1>1. job[s] \in Rows
    BY StepIsLocal
  <1> USE <1>1, HandlerIsStep
      DEF TypeInv, OwnerInv, Held, OwnerPcs, Finalizing, LedgerTypeOK,
          ProcessorInv, ProcessorTypeOK
  <1>2. CASE SlotDbError(s)
    BY <1>2 DEF SlotDbError, DbError, Raise, Goto, Handler, InTry, ledgerVars
  <1>3. CASE Load(s) \/ Limit(s) \/ Defer(s) \/ Send(s) \/ CountPending(s)
             \/ CountFailed(s) \/ Return(s) \/ Throw(s)
    BY <1>3 DEF Load, Limit, Defer, Send, CountPending, CountFailed, Return, Throw,
                Raise, Goto, Handler, InTry, Forget, ledgerVars
  <1>4. CASE Claim(s)
    BY <1>4 DEF Claim, UpdateWhere, Written, Raise, Goto, Handler, InTry
  <1>5. CASE Release(s) \/ Rollback(s)
    BY <1>5 DEF Release, Rollback, ReleaseRow, UpdateWhere, Written, Raise, Goto,
                Handler, InTry
  <1>6. CASE Record(s) \/ Fail(s)
    BY <1>6 DEF Record, Fail, Conclude, Raise, Goto
  <1>7. CASE Flip(s) \/ Classify(s)
    BY <1>7 DEF Flip, Classify, Written, Raise, Goto
  <1> QED BY <1>2, <1>3, <1>4, <1>5, <1>6, <1>7 DEF SlotStep, Step

\* Every other step leaves the runs as they are, or ends some, and takes no row
\* out of the statuses an owner relies on.
LEMMA OthersKeepRuns ==
    ASSUME TypeInv,
           \/ UNCHANGED vars
           \/ \E s \in Slots, r \in Rows : SlotTake(s, r)
           \/ \E w \in Workers : \/ WorkerBoots(w) \/ WorkerCloses(w)
                                 \/ WorkerExits(w) \/ WorkerDies(w)
           \/ RequestStep
           \/ BackgroundStep
    PROVE  /\ \A s \in Slots : pc'[s] \in OwnerPcs =>
                 pc'[s] = pc[s] /\ job'[s] = job[s]
           /\ \A r \in Rows :
                 /\ status[r] \in Held => status'[r] \in Held
                 /\ status'[r] = "PROCESSING" => status[r] = "PROCESSING"
           /\ UNCHANGED mailVars
  <1> USE DEF TypeInv, LedgerTypeOK, ProcessorInv, ProcessorTypeOK, OwnerPcs,
              Finalizing, Held, UpdateWhere, ledgerVars, processorVars
  <1>1. CASE UNCHANGED vars
    BY <1>1 DEF vars
  <1>2. ASSUME NEW s \in Slots, NEW r \in Rows, SlotTake(s, r)
        PROVE  /\ \A t \in Slots : pc'[t] \in OwnerPcs =>
                     pc'[t] = pc[t] /\ job'[t] = job[t]
               /\ UNCHANGED <<status, mailVars>>
    BY <1>2 DEF SlotTake, Take
  <1>3. ASSUME NEW w \in Workers,
               WorkerBoots(w) \/ WorkerCloses(w) \/ WorkerExits(w) \/ WorkerDies(w)
        PROVE  /\ \A s \in Slots : pc'[s] \in OwnerPcs =>
                     pc'[s] = pc[s] /\ job'[s] = job[s]
               /\ \A r \in Rows :
                     /\ status[r] \in Held => status'[r] \in Held
                     /\ status'[r] = "PROCESSING" => status[r] = "PROCESSING"
               /\ UNCHANGED mailVars
    BY <1>3 DEF WorkerBoots, Boot, Reconcile, FailStaleProcessing, ScanScheduled,
                ProbeJobs, RequeueMissing, WorkerCloses, Close, WorkerExits, Exit,
                WorkerDies, Die, Forget
  <1>4. CASE RequestStep
    BY <1>4 DEF RequestStep, RequestsDie, ApiCrash, EnqueueError, RequestArrives,
                CommitCampaign, CheckCancel, RequestEnqueues, EnqueueChunk,
                RequestCancels, ReadToCancel, CommitCancel, RemoveNext, FinishCancel
  <1>5. CASE BackgroundStep
    BY <1>5 DEF BackgroundStep, RedisLosesQueue, QueueStep, LockExpires,
                StalledJobMoves, JobEvicted, ClaimAges
  <1> QED BY <1>1, <1>2, <1>3, <1>4, <1>5

\* Single ownership is inductive.
LEMMA OwnerNext ==
    ASSUME TypeInv, OwnerInv, [Next]_vars
    PROVE  OwnerInv'
  <1>1. ASSUME NEW s \in Slots, SlotStep(s) \/ SlotDbError(s)
        PROVE  OwnerInv'
    <2>1. ASSUME NEW t \in Slots, pc'[t] \in OwnerPcs
          PROVE  job'[t] \in Rows /\ job'[t] = job[t] /\ status'[job'[t]] \in Held
      <3>1. CASE t = s
        BY <1>1, <2>1, <3>1, StepIsLocal, StepOwner
      <3>2. CASE t # s
        <4>1. pc[t] \in OwnerPcs /\ job'[t] = job[t] /\ job[t] \in Rows
          BY <1>1, <2>1, <3>2, StepIsLocal
             DEF TypeInv, ProcessorInv, ProcessorTypeOK, OwnerPcs, Finalizing
        <4>2. status[job[t]] \in Held
          BY <4>1 DEF OwnerInv
        <4>3. CASE job[t] # job[s]
          BY <1>1, <4>1, <4>2, <4>3, StepIsLocal
        <4>4. CASE job[t] = job[s]
          <5>1. pc[s] \notin OwnerPcs
            BY <3>2, <4>1, <4>4, StepIsLocal, <1>1 DEF OwnerInv, OneOwner, Owns
          <5> QED BY <1>1, <4>1, <4>2, <4>4, <5>1, StepOwner
        <4> QED BY <4>3, <4>4
      <3> QED BY <3>1, <3>2
    <2>2. ASSUME NEW r \in Rows, NEW t \in Slots, NEW u \in Slots,
                 Owns(t, r)', Owns(u, r)', t # u
          PROVE  FALSE
      <3>1. job[t] = r /\ job[u] = r
        BY <2>1, <2>2 DEF Owns
      <3>2. \A v \in { t, u } : pc[v] \in OwnerPcs \/ status[r] = "SCHEDULED"
        BY <1>1, <2>2, <3>1, StepIsLocal, StepOwner DEF Owns
      <3>3. \E v \in { t, u } : pc[v] \in OwnerPcs
        BY <1>1, <2>2, StepIsLocal DEF Owns
      <3>4. status[r] # "SCHEDULED"
        BY <3>1, <3>3 DEF OwnerInv, Held
      <3> QED BY <2>2, <3>1, <3>2, <3>4 DEF OwnerInv, OneOwner, Owns
    <2> QED BY <2>1, <2>2 DEF OwnerInv, OneOwner
  <1>2. ASSUME ~ \E s \in Slots : SlotStep(s) \/ SlotDbError(s)
        PROVE  OwnerInv'
    BY <1>2, Actors, OthersKeepRuns
       DEF OwnerInv, OneOwner, Owns, TypeInv, ProcessorInv, ProcessorTypeOK,
           OwnerPcs, Finalizing
  <1> QED BY <1>1, <1>2

\* At most one slot acts as the owner of a row, in every behaviour.
THEOREM OneOwnerPerRow == Spec => []OneOwner
  <1>1. Init => OwnerInv
    BY DEF Init, ProcessorInit, OwnerInv, OneOwner, Owns, OwnerPcs, Finalizing
  <1>2. OwnerInv => OneOwner
    BY DEF OwnerInv
  <1> QED BY <1>1, <1>2, TypeInit, TypeNext, OwnerNext, PTL DEF Spec

-------------------------------------------------------------------------------
(* At most one accepted message per row.  The owner of a row has sent nothing   *)
(* before its send; afterwards the row is never put back on the schedule: a      *)
(* rollback finds either nothing sent or the row out of PROCESSING.  The two     *)
(* events that break the argument are the loss of the send's own result:         *)
(* SMTP's reply ("ack") and the write of SENT ("unrecorded").                    *)

SendResultsKept == Events \cap { "ack", "unrecorded" } = {}

SendInv ==
    /\ AtMostOnce
    /\ AcceptedIsAccountedFor
    /\ \A s \in Slots :
          /\ pc[s] \in { "limit", "release", "send" } => accepted[job[s]] = 0
          /\ pc[s] = "rollback" /\ status[job[s]] = "PROCESSING" =>
                accepted[job[s]] = 0
          /\ pc[s] \in Finalizing => status[job[s]] # "PROCESSING"

\* Only the send changes what SMTP accepted, and for its own row.
LEMMA MailIsLocal ==
    ASSUME TypeInv, NEW s \in Slots, SlotStep(s) \/ SlotDbError(s)
    PROVE  /\ \A r \in Rows : r # job[s] => accepted'[r] = accepted[r]
           /\ pc[s] # "send" => accepted' = accepted
  BY DEF SlotStep, Step, Load, Claim, Limit, Release, Defer, Send, Record,
         Rollback, Fail, CountPending, Flip, CountFailed, Classify, Return, Throw,
         SlotDbError, DbError, SmtpAccepts, SmtpRefuses, mailVars, TypeInv,
         ProcessorInv, ProcessorTypeOK

\* What the step of a run does to its own slot and row.
LEMMA StepSend ==
    ASSUME SendResultsKept, TypeInv, OwnerInv, SendInv, NEW s \in Slots,
           SlotStep(s) \/ SlotDbError(s)
    PROVE  /\ accepted'[job[s]] <= 1
           /\ accepted'[job[s]] > 0 => status'[job[s]] \in Held
           /\ pc'[s] \in OwnerPcs =>
                /\ pc'[s] \in { "limit", "release", "send" } =>
                      accepted'[job[s]] = 0
                /\ pc'[s] = "rollback" /\ status'[job[s]] = "PROCESSING" =>
                      accepted'[job[s]] = 0
                /\ pc'[s] \in Finalizing => status'[job[s]] # "PROCESSING"
  <1>1. /\ job[s] \in Rows /\ accepted[job[s]] \in 0 .. 1
        /\ accepted[job[s]] > 0 => status[job[s]] \in Held
    BY StepIsLocal
       DEF SendInv, AtMostOnce, AcceptedIsAccountedFor, TypeInv, ProcessorInv,
           ProcessorTypeOK, Held
  <1>2. "ack" \notin Events /\ "unrecorded" \notin Events
    BY DEF SendResultsKept
  <1> USE <1>1, <1>2, HandlerIsStep
      DEF TypeInv, OwnerInv, SendInv, Held, OwnerPcs, Finalizing, LedgerTypeOK,
          ProcessorInv, ProcessorTypeOK
  <1>3. CASE SlotDbError(s)
    BY <1>3 DEF SlotDbError, DbError, Raise, Goto, Handler, InTry, ledgerVars, mailVars
  <1>4. CASE Load(s) \/ Limit(s) \/ Defer(s) \/ CountPending(s) \/ CountFailed(s)
             \/ Return(s) \/ Throw(s)
    BY <1>4 DEF Load, Limit, Defer, CountPending, CountFailed, Return, Throw,
                Raise, Goto, Handler, InTry, Forget, ledgerVars, mailVars
  <1>5. CASE Send(s)
    BY <1>5 DEF Send, SmtpAccepts, SmtpRefuses, Saturate, Raise, Goto, Handler,
                InTry, ledgerVars
  <1>6. CASE Claim(s)
    BY <1>6 DEF Claim, UpdateWhere, Written, Raise, Goto, Handler, InTry, mailVars
  <1>7. CASE Release(s) \/ Rollback(s)
    BY <1>7 DEF Release, Rollback, ReleaseRow, UpdateWhere, Written, Raise, Goto,
                Handler, InTry, mailVars
  <1>8. CASE Record(s) \/ Fail(s)
    BY <1>8 DEF Record, Fail, Conclude, Raise, Goto, mailVars
  <1>9. CASE Flip(s) \/ Classify(s)
    BY <1>9 DEF Flip, Classify, Written, Raise, Goto, Handler, InTry, mailVars
  <1> QED BY <1>3, <1>4, <1>5, <1>6, <1>7, <1>8, <1>9 DEF SlotStep, Step

\* The invariant of the sends is inductive while send results are kept.
LEMMA SendNext ==
    ASSUME SendResultsKept, TypeInv, OwnerInv, SendInv, [Next]_vars
    PROVE  SendInv'
  <1>1. ASSUME NEW s \in Slots, SlotStep(s) \/ SlotDbError(s)
        PROVE  SendInv'
    <2>1. AtMostOnce' /\ AcceptedIsAccountedFor'
      BY <1>1, StepIsLocal, MailIsLocal, StepSend
         DEF SendInv, AtMostOnce, AcceptedIsAccountedFor, Held
    <2>2. ASSUME NEW t \in Slots, pc'[t] \in OwnerPcs, t # s
          PROVE  /\ pc'[t] = pc[t] /\ job'[t] = job[t]
                 /\ status'[job[t]] = status[job[t]]
                 /\ accepted'[job[t]] = accepted[job[t]]
      <3>1. pc'[t] = pc[t] /\ job'[t] = job[t] /\ job[t] \in Rows
        BY <1>1, <2>2, StepIsLocal
           DEF TypeInv, ProcessorInv, ProcessorTypeOK, OwnerPcs, Finalizing
      <3>2. CASE job[t] # job[s]
        BY <1>1, <3>1, <3>2, StepIsLocal, MailIsLocal
      <3>3. CASE job[t] = job[s]
        <4>1. status[job[s]] \in Held /\ pc[s] \notin OwnerPcs
          BY <1>1, <2>2, <3>1, <3>3, StepIsLocal DEF OwnerInv, OneOwner, Owns
        <4>2. pc[s] # "send"
          BY <4>1 DEF OwnerPcs
        <4> QED BY <1>1, <3>1, <3>3, <4>1, <4>2, StepOwner, MailIsLocal
      <3> QED BY <3>2, <3>3
    <2>3. ASSUME NEW t \in Slots, pc'[t] \in OwnerPcs
          PROVE  /\ pc'[t] \in { "limit", "release", "send" } =>
                       accepted'[job'[t]] = 0
                 /\ pc'[t] = "rollback" /\ status'[job'[t]] = "PROCESSING" =>
                       accepted'[job'[t]] = 0
                 /\ pc'[t] \in Finalizing => status'[job'[t]] # "PROCESSING"
      <3>1. CASE t = s
        BY <1>1, <2>3, <3>1, StepOwner, StepSend
      <3>2. CASE t # s
        BY <2>2, <2>3, <3>2 DEF SendInv
      <3> QED BY <3>1, <3>2
    <2> QED BY <2>1, <2>3 DEF SendInv, OwnerPcs
  <1>2. ASSUME ~ \E s \in Slots : SlotStep(s) \/ SlotDbError(s)
        PROVE  SendInv'
    <2>1. /\ \A s \in Slots : pc'[s] \in OwnerPcs =>
                pc'[s] = pc[s] /\ job'[s] = job[s] /\ job[s] \in Rows
          /\ \A r \in Rows :
                /\ status[r] \in Held => status'[r] \in Held
                /\ status'[r] = "PROCESSING" => status[r] = "PROCESSING"
          /\ accepted' = accepted
      BY <1>2, Actors, OthersKeepRuns
         DEF mailVars, TypeInv, ProcessorInv, ProcessorTypeOK, OwnerPcs, Finalizing
    <2> QED BY <2>1
            DEF SendInv, AtMostOnce, AcceptedIsAccountedFor, OwnerPcs, Held
  <1> QED BY <1>1, <1>2

\* It holds in every such behaviour.
LEMMA SendAlways ==
    ASSUME SendResultsKept
    PROVE  Spec => []SendInv
  <1>1. Init => OwnerInv /\ SendInv
    BY DEF Init, ProcessorInit, OwnerInv, OneOwner, Owns, OwnerPcs, Finalizing,
           SendInv, AtMostOnce, AcceptedIsAccountedFor
  <1>2. TypeInv /\ OwnerInv /\ SendInv /\ [Next]_vars => SendInv'
    BY SendNext
  <1> QED BY <1>1, <1>2, TypeInit, TypeNext, OwnerNext, PTL DEF Spec

\* SMTP accepts at most one message per row, in every behaviour in which the
\* result of a send is not lost: crashes, stalls, claims older than the stale
\* threshold, failing database and Redis calls, loss of the queue, evictions,
\* re-enqueues and cancellations do not matter.
THEOREM SentAtMostOnce ==
    ASSUME SendResultsKept
    PROVE  Spec => []AtMostOnce
  BY SendAlways, PTL DEF SendInv

\* A row whose message was accepted is in flight, SENT or FAILED: it is not
\* claimable again, and a cancellation never reports it as stopped.
THEOREM AcceptedAccounted ==
    ASSUME SendResultsKept
    PROVE  Spec => []AcceptedIsAccountedFor
  BY SendAlways, PTL DEF SendInv

-------------------------------------------------------------------------------
(* The send path implements RowLifecycle, for all constants and all events *)
(* that keep the results of sends: every step of a slot, a worker, a       *)
(* request or the queue is one step of the abstract rows, or none.         *)

\* What SMTP got of a slot that is about to write SENT.
RecordInv == \A s \in Slots : pc[s] = "record" => accepted[job[s]] > 0

\* A slot comes to write SENT by a send that was accepted, and by nothing else.
LEMMA StepRecord ==
    ASSUME TypeInv, NEW s \in Slots, SlotStep(s) \/ SlotDbError(s),
           pc'[s] = "record"
    PROVE  pc[s] = "send" /\ job'[s] = job[s] /\ accepted'[job[s]] > 0
  <1> USE HandlerIsStep
      DEF TypeInv, ProcessorInv, ProcessorTypeOK, Finalizing, Raise, Goto, Written
  <1>1. CASE SlotDbError(s)
    BY <1>1 DEF SlotDbError, DbError
  <1>2. CASE Load(s) \/ Claim(s) \/ Limit(s) \/ Release(s) \/ Defer(s) \/ Rollback(s)
    BY <1>2 DEF Load, Claim, Limit, Release, Defer, Rollback, Forget
  <1>3. CASE Record(s) \/ Fail(s) \/ CountPending(s) \/ Flip(s) \/ CountFailed(s)
             \/ Classify(s) \/ Return(s) \/ Throw(s)
    BY <1>3 DEF Record, Fail, Conclude, CountPending, Flip, CountFailed, Classify,
                Return, Throw, Forget
  <1>4. CASE Send(s)
    BY <1>4 DEF Send, SmtpAccepts, SmtpRefuses, Saturate
  <1> QED BY <1>1, <1>2, <1>3, <1>4 DEF SlotStep, Step

\* The messages SMTP accepted stay accepted.
LEMMA StepKeepsMail ==
    ASSUME TypeInv, NEW s \in Slots, SlotStep(s) \/ SlotDbError(s)
    PROVE  \A r \in Rows : accepted[r] > 0 => accepted'[r] > 0
  <1>1. CASE pc[s] # "send"
    BY <1>1, MailIsLocal
  <1>2. CASE Send(s)
    BY <1>2 DEF Send, SmtpAccepts, SmtpRefuses, Saturate, TypeInv, ProcessorInv,
                ProcessorTypeOK
  <1>3. CASE SlotDbError(s)
    BY <1>3 DEF SlotDbError, DbError, mailVars
  <1> QED BY <1>1, <1>2, <1>3
          DEF SlotStep, Step, Load, Claim, Limit, Release, Defer, Record, Rollback,
              Fail, CountPending, Flip, CountFailed, Classify, Return, Throw

\* The invariant about the write of SENT is inductive.
LEMMA RecordNext ==
    ASSUME TypeInv, RecordInv, [Next]_vars
    PROVE  RecordInv'
  <1>1. ASSUME NEW s \in Slots, SlotStep(s) \/ SlotDbError(s)
        PROVE  RecordInv'
    <2>1. ASSUME NEW t \in Slots, pc'[t] = "record"
          PROVE  accepted'[job'[t]] > 0
      <3>1. CASE t = s
        BY <1>1, <2>1, <3>1, StepRecord
      <3>2. CASE t # s
        <4>1. pc[t] = "record" /\ job'[t] = job[t] /\ job[t] \in Rows
          BY <1>1, <2>1, <3>2, StepIsLocal DEF TypeInv, ProcessorInv, ProcessorTypeOK
        <4> QED BY <1>1, <4>1, StepKeepsMail DEF RecordInv
      <3> QED BY <3>1, <3>2
    <2> QED BY <2>1 DEF RecordInv
  <1>2. ASSUME ~ \E s \in Slots : SlotStep(s) \/ SlotDbError(s)
        PROVE  RecordInv'
    BY <1>2, Actors, OthersKeepRuns DEF RecordInv, OwnerPcs, mailVars
  <1> QED BY <1>1, <1>2

-------------------------------------------------------------------------------
(* The steps *)

\* A step of the abstract rows, or a stutter.
Abstract == Lifecycle!Next \/ UNCHANGED <<status, accepted>>

\* Moving one row is an abstract move of that row.
LEMMA OneRowMoves ==
    ASSUME TypeInv, NEW r \in Rows, NEW from, NEW to, status[r] \in from,
           status' = [status EXCEPT ![r] = to], accepted' = accepted
    PROVE  Lifecycle!Move({r}, from, to)
  BY DEF Lifecycle!Move, TypeInv, LedgerTypeOK

\* One updateMany is an abstract move of the rows it finds.
LEMMA UpdateMoves ==
    ASSUME TypeInv, NEW R \in SUBSET Rows, NEW from, NEW to, UpdateWhere(R, from, to),
           accepted' = accepted
    PROVE  \E S \in SUBSET R : Lifecycle!Move(S, {from}, to)
  <1> DEFINE S == { r \in R : status[r] = from }
  <1>1. S \in SUBSET R
    OBVIOUS
  <1>2. Lifecycle!Move(S, {from}, to)
    BY DEF Lifecycle!Move, UpdateWhere, TypeInv, LedgerTypeOK
  <1> QED BY <1>1, <1>2

\* A slot's step moves its own row, or mails it, as RowLifecycle allows.
LEMMA SlotIsAbstract ==
    ASSUME SendResultsKept, TypeInv, OwnerInv, SendInv, RecordInv,
           NEW s \in Slots, SlotStep(s) \/ SlotDbError(s)
    PROVE  Abstract
  <1>0. PICK r \in Rows : r = job[s]
    BY StepIsLocal
  <1>1. accepted[r] \in 0 .. 1
    BY DEF SendInv, AtMostOnce, TypeInv, ProcessorInv, ProcessorTypeOK
  <1>2. pc[s] \in OwnerPcs => status[r] \in Lifecycle!TakenOut
    BY <1>0 DEF OwnerInv, Held, Lifecycle!TakenOut
  <1>3. CASE UNCHANGED <<status, accepted>>
    BY <1>3 DEF Abstract
  <1>4. CASE Claim(s)
    <2>1. CASE status[r] = "SCHEDULED"
      <3>1. status' = [status EXCEPT ![r] = "PROCESSING"] /\ accepted' = accepted
        BY <1>0, <1>1, <1>4, <2>1
           DEF Claim, UpdateWhere, mailVars, TypeInv, LedgerTypeOK
      <3>2. Lifecycle!Move({r}, {"SCHEDULED"}, "PROCESSING")
        BY <2>1, <3>1 DEF Lifecycle!Move, TypeInv, LedgerTypeOK
      <3> QED BY <3>2 DEF Abstract, Lifecycle!Next, Lifecycle!Claim
    <2>2. CASE status[r] # "SCHEDULED"
      BY <1>0, <1>3, <1>4, <2>2 DEF Claim, mailVars
    <2> QED BY <2>1, <2>2
  <1>5. CASE Release(s) \/ Rollback(s)
    <2>1. CASE status[r] = "PROCESSING"
      <3>1. status' = [status EXCEPT ![r] = "SCHEDULED"] /\ accepted' = accepted
        BY <1>0, <1>1, <1>5, <2>1
           DEF Release, Rollback, ReleaseRow, UpdateWhere, mailVars, TypeInv,
               LedgerTypeOK
      <3>2. accepted[r] = 0
        BY <1>0, <1>5, <2>1 DEF Release, Rollback, SendInv
      <3>3. Lifecycle!Move({r}, {"PROCESSING"}, "SCHEDULED")
        BY <2>1, <3>1 DEF Lifecycle!Move, TypeInv, LedgerTypeOK
      <3> QED BY <3>2, <3>3 DEF Abstract, Lifecycle!Next, Lifecycle!PutBack
    <2>2. CASE status[r] # "PROCESSING"
      <3>1. UNCHANGED <<status, accepted>>
        BY <1>0, <1>1, <1>5, <2>2
           DEF Release, Rollback, ReleaseRow, UpdateWhere, mailVars, TypeInv,
               LedgerTypeOK
      <3> QED BY <1>3, <3>1
    <2> QED BY <2>1, <2>2
  <1>6. CASE Send(s)
    <2>1. CASE SmtpAccepts(r)
      <3>1. accepted[r] = 0 /\ status[r] \in Lifecycle!TakenOut /\ status' = status
        BY <1>0, <1>2, <1>6 DEF Send, SendInv, OwnerPcs, ledgerVars
      <3>2. accepted' = [accepted EXCEPT ![r] = 1]
        BY <1>0, <1>1, <2>1, <3>1
           DEF SmtpAccepts, Saturate, TypeInv, ProcessorInv, ProcessorTypeOK
      <3>3. Lifecycle!Mail(r)
        BY <1>0, <3>1, <3>2 DEF Lifecycle!Mail
      <3> QED BY <1>0, <1>1, <3>3 DEF Abstract, Lifecycle!Next
    <2>2. CASE ~SmtpAccepts(r)
      BY <1>0, <1>3, <1>6, <2>2 DEF Send, SmtpRefuses, ledgerVars
    <2> QED BY <2>1, <2>2
  <1>7. CASE Record(s)
    <2>1. accepted[r] = 1 /\ status[r] \in Lifecycle!TakenOut
      BY <1>0, <1>1, <1>2, <1>7 DEF Record, RecordInv, OwnerPcs
    <2>2. status' = [status EXCEPT ![r] = "SENT"] /\ accepted' = accepted
      BY <1>0, <1>7 DEF Record, mailVars
    <2>3. Lifecycle!Report(r)
      BY <1>0, <1>1, <2>1, <2>2, OneRowMoves DEF Lifecycle!Report
    <2> QED BY <1>0, <1>1, <2>3 DEF Abstract, Lifecycle!Next
  <1>8. CASE Fail(s)
    <2>1. status[r] \in Lifecycle!TakenOut
      BY <1>0, <1>2, <1>8 DEF Fail, OwnerPcs
    <2>2. status' = [status EXCEPT ![r] = "FAILED"] /\ accepted' = accepted
      BY <1>0, <1>8 DEF Fail, mailVars
    <2>3. Lifecycle!GiveUp({r}) /\ {r} \in SUBSET Rows
      BY <1>0, <1>1, <2>1, <2>2, OneRowMoves DEF Lifecycle!GiveUp
    <2> QED BY <2>3 DEF Abstract, Lifecycle!Next
  <1>9. \/ UNCHANGED <<status, accepted>>
        \/ Claim(s) \/ Release(s) \/ Rollback(s) \/ Send(s) \/ Record(s) \/ Fail(s)
    BY DEF SlotStep, Step, Load, Limit, Defer, CountPending, Flip, CountFailed,
           Classify, Return, Throw, SlotDbError, DbError, ledgerVars, mailVars
  <1> QED BY <1>3, <1>4, <1>5, <1>6, <1>7, <1>8, <1>9

\* Beside the runs only the reconciler's sweep and two transactions of the API
\* write the status of rows.
LEMMA RowWritersBesideRuns ==
    ASSUME [Next]_vars, ~ \E s \in Slots : SlotStep(s) \/ SlotDbError(s)
    PROVE  \/ UNCHANGED status
           \/ \E w \in Workers : FailStaleProcessing(w)
           \/ \E c \in Campaigns : CommitCampaign(c) \/ CommitCancel(c)
  <1>1. CASE UNCHANGED vars
    BY <1>1 DEF vars, ledgerVars
  <1>2. CASE \E s \in Slots, r \in Rows : SlotTake(s, r)
    BY <1>2 DEF SlotTake, Take, ledgerVars
  <1>3. CASE \E w \in Workers : \/ WorkerBoots(w) \/ WorkerCloses(w)
                                \/ WorkerExits(w) \/ WorkerDies(w)
    BY <1>3 DEF WorkerBoots, Boot, Reconcile, ScanScheduled, ProbeJobs,
                RequeueMissing, WorkerCloses, Close, WorkerExits, Exit,
                WorkerDies, Die, ledgerVars
  <1>4. CASE RequestStep
    BY <1>4 DEF RequestStep, RequestsDie, ApiCrash, EnqueueError, RequestArrives,
                CheckCancel, RequestEnqueues, EnqueueChunk, RequestCancels,
                ReadToCancel, RemoveNext, FinishCancel, ledgerVars
  <1>5. CASE BackgroundStep
    BY <1>5 DEF BackgroundStep, RedisLosesQueue, QueueStep, LockExpires,
                StalledJobMoves, JobEvicted, ClaimAges, ledgerVars
  <1> QED BY <1>1, <1>2, <1>3, <1>4, <1>5, Actors

\* Of all the others only the reconciler's sweep and the two transactions of
\* the API move rows, each a set of them at once.
LEMMA OthersAreAbstract ==
    ASSUME TypeInv, [Next]_vars, ~ \E s \in Slots : SlotStep(s) \/ SlotDbError(s)
    PROVE  Abstract
  <1>1. accepted' = accepted
    BY Actors, OthersKeepRuns DEF mailVars
  <1>2. ASSUME NEW w \in Workers, FailStaleProcessing(w)
        PROVE  Abstract
    <2>1. PICK S \in SUBSET { r \in Rows : IsStale(r) } :
              Lifecycle!Move(S, {"PROCESSING"}, "FAILED")
      BY <1>1, <1>2, UpdateMoves DEF FailStaleProcessing
    <2>2. Lifecycle!GiveUp(S) /\ S \in SUBSET Rows
      BY <2>1 DEF Lifecycle!GiveUp, Lifecycle!Move, Lifecycle!TakenOut
    <2> QED BY <2>2 DEF Abstract, Lifecycle!Next
  <1>3. ASSUME NEW c \in Campaigns, CommitCampaign(c)
        PROVE  Abstract
    <2>1. PICK S \in SUBSET RowsOf(c) : Lifecycle!Move(S, {"ABSENT"}, "SCHEDULED")
      BY <1>1, <1>3, UpdateMoves DEF CommitCampaign, RowsOf
    <2>2. Lifecycle!Plan(S) /\ S \in SUBSET Rows
      BY <2>1 DEF Lifecycle!Plan, RowsOf
    <2> QED BY <2>2 DEF Abstract, Lifecycle!Next
  <1>4. ASSUME NEW c \in Campaigns, CommitCancel(c)
        PROVE  Abstract
    <2>1. PICK S \in SUBSET RowsOf(c) :
              Lifecycle!Move(S, {"SCHEDULED"}, "CANCELLED")
      BY <1>1, <1>4, UpdateMoves DEF CommitCancel, RowsOf
    <2>2. Lifecycle!Cancel(S) /\ S \in SUBSET Rows
      BY <2>1 DEF Lifecycle!Cancel, RowsOf
    <2> QED BY <2>2 DEF Abstract, Lifecycle!Next
  <1>5. CASE UNCHANGED status
    BY <1>1, <1>5 DEF Abstract
  <1> QED BY <1>2, <1>3, <1>4, <1>5, RowWritersBesideRuns

\* The send path implements the life of a row, in every behaviour in which the
\* result of a send is not lost: a row is mailed at most once, and once mailed
\* neither scheduled, claimed nor cancelled; SENT is said of mailed rows only.
THEOREM LifecycleImplemented ==
    ASSUME SendResultsKept
    PROVE  Spec => KeepsLifecycle
  <1>1. Init => Lifecycle!Init /\ RecordInv
    BY DEF Init, LedgerInit, ProcessorInit, Lifecycle!Init, RecordInv
  <1>2. TypeInv /\ OwnerInv /\ SendInv /\ RecordInv /\ [Next]_vars
           => [Lifecycle!Next]_<<status, accepted>>
    BY SlotIsAbstract, OthersAreAbstract DEF Abstract
  <1>3. Init => OwnerInv
    BY DEF Init, ProcessorInit, OwnerInv, OneOwner, Owns, OwnerPcs, Finalizing
  <1>4. TypeInv /\ RecordInv /\ [Next]_vars => RecordInv'
    BY RecordNext
  <1>5. Spec => []SendInv
    BY SendAlways
  <1> QED BY <1>1, <1>2, <1>3, <1>4, <1>5, TypeInit, TypeNext, OwnerNext, PTL
          DEF Spec, KeepsLifecycle, Lifecycle!Spec, Lifecycle!lifecycleVars
===============================================================================
