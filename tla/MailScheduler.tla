----------------------------- MODULE MailScheduler -----------------------------
(***************************************************************************)
(* The whole send path: the API's campaign service, the queue, the workers *)
(* with their boot-time reconciler and their processor slots, all over the *)
(* same MySQL rows, and the faults of their environment.                   *)
(***************************************************************************)
EXTENDS EmailProcessor, Reconciler, CampaignService

vars == <<ledgerVars, queueVars, processorVars, mailVars, reconcilerVars,
          serviceVars>>

Init ==
    /\ LedgerInit /\ QueueInit /\ ProcessorInit /\ ReconcilerInit /\ ServiceInit

SlotsOf(w) == { s \in Slots : WorkerOf[s] = w }

\* From a won claim to the end of the run, a slot acts as the row's owner.
OwnerPcs == { "limit", "release", "send", "record", "rollback", "fail" }
                \cup Finalizing
Owns(s, r) == pc[s] \in OwnerPcs /\ job[s] = r

-------------------------------------------------------------------------------
(* The components' steps, each leaving the others' private state alone *)

\* Only a running worker fetches jobs; one that is closing finishes what it has.
SlotTake(s, r) ==
    /\ phase[WorkerOf[s]] = "up"
    /\ Take(s, r)
    /\ UNCHANGED <<reconcilerVars, serviceVars>>

SlotStep(s) == Step(s) /\ UNCHANGED <<reconcilerVars, serviceVars>>
SlotDbError(s) == DbError(s) /\ UNCHANGED <<reconcilerVars, serviceVars>>

WorkerBoots(w) ==
    /\ Boot(w) \/ Reconcile(w)
    /\ UNCHANGED <<processorVars, mailVars, serviceVars>>

WorkerCloses(w) ==
    /\ Close(w)
    /\ UNCHANGED <<processorVars, mailVars, serviceVars>>

\* worker.close() waits for the jobs in flight.
WorkerExits(w) ==
    /\ \A s \in SlotsOf(w) : pc[s] = "idle"
    /\ Exit(w)
    /\ UNCHANGED <<processorVars, mailVars, serviceVars>>

WorkerDies(w) ==
    /\ Die(w)
    /\ Forget(SlotsOf(w))
    /\ UNCHANGED <<mailVars, serviceVars>>

\* A request comes in, or a request being served makes its next call.
RequestArrives(c) ==
    /\ CommitCampaign(c) \/ CheckCancel(c)
    /\ UNCHANGED <<processorVars, mailVars, reconcilerVars>>

RequestEnqueues(c) ==
    /\ EnqueueChunk(c)
    /\ UNCHANGED <<processorVars, mailVars, reconcilerVars>>

RequestCancels(c) ==
    /\ ReadToCancel(c) \/ CommitCancel(c) \/ RemoveNext(c) \/ FinishCancel(c)
    /\ UNCHANGED <<processorVars, mailVars, reconcilerVars>>

RequestsDie ==
    /\ ApiCrash \/ \E c \in Campaigns : EnqueueError(c)
    /\ UNCHANGED <<processorVars, mailVars, reconcilerVars>>

-------------------------------------------------------------------------------
(* Time and the queue's own maintenance *)

\* A claim passes the stale threshold.  A live slot never keeps one that long:
\* env.ts asks for a threshold longer than a legitimate send.
ClaimAges(r) ==
    /\ status[r] = "PROCESSING" /\ claimedAt[r] = "fresh"
    /\ "slow" \in Events \/ \A s \in Slots : ~Owns(s, r)
    /\ claimedAt' = [claimedAt EXCEPT ![r] = "stale"]
    /\ UNCHANGED <<status, campaign, queueVars, processorVars, mailVars,
                   reconcilerVars, serviceVars>>

\* A lock nobody renews any more expires; a live slot's does in a stall only.
LockExpires(r) ==
    /\ \/ "stall" \in Events
       \/ \A s \in Slots : ~(jobLock[r] = s /\ job[s] = r)
    /\ ExpireLock(r)
    /\ UNCHANGED <<ledgerVars, processorVars, mailVars, reconcilerVars, serviceVars>>

StalledJobMoves(r) ==
    /\ \E w \in Workers : phase[w] = "up"
    /\ MoveStalledJob(r)
    /\ UNCHANGED <<ledgerVars, processorVars, mailVars, reconcilerVars, serviceVars>>

JobEvicted(r) ==
    /\ "evict" \in Events
    /\ EvictJob(r)
    /\ UNCHANGED <<ledgerVars, processorVars, mailVars, reconcilerVars, serviceVars>>

RedisLosesQueue ==
    /\ "redisLoss" \in Events
    /\ \E r \in Rows : Exists(r)
    /\ Vanish(Rows)
    /\ UNCHANGED <<ledgerVars, processorVars, mailVars, reconcilerVars, serviceVars>>

QueueStep(r) == LockExpires(r) \/ StalledJobMoves(r) \/ JobEvicted(r)

Next ==
    \/ \E s \in Slots, r \in Rows : SlotTake(s, r)
    \/ \E s \in Slots : SlotStep(s) \/ SlotDbError(s)
    \/ \E w \in Workers : WorkerBoots(w) \/ WorkerCloses(w) \/ WorkerExits(w)
                           \/ WorkerDies(w)
    \/ \E c \in Campaigns :
          RequestArrives(c) \/ RequestEnqueues(c) \/ RequestCancels(c)
    \/ RequestsDie
    \/ \E r \in Rows : QueueStep(r) \/ ClaimAges(r)
    \/ RedisLosesQueue

Spec == Init /\ [][Next]_vars

-------------------------------------------------------------------------------
(* Safety *)

\* Types, and that a slot that is not idle has a job.
TypeOK ==
    /\ LedgerTypeOK /\ QueueTypeOK /\ ProcessorTypeOK /\ ReconcilerTypeOK
    /\ ServiceTypeOK

\* The four gates turn one row into at most one message SMTP accepts, whatever
\* crashes, stalls, slow claims, re-runs, re-enqueues and cancellations happen.
AtMostOnce == \A r \in Rows : accepted[r] <= 1

\* Only the winner of the compare-and-swap goes on past gate 2: quota and SMTP
\* are used by one slot per row, however many slots run the row's job.
OneOwner ==
    \A r \in Rows, s, t \in Slots : Owns(s, r) /\ Owns(t, r) => s = t

\* Once SMTP accepted a row's message the row can be neither claimed again nor
\* reported as cancelled: it is in flight, SENT, or written off as FAILED.
AcceptedIsAccountedFor ==
    \A r \in Rows :
        accepted[r] > 0 => status[r] \in { "PROCESSING", "SENT", "FAILED" }

\* A campaign reads COMPLETED only when each of its rows was sent or cancelled:
\* the counts of maybeFinalizeCampaign are not out of date when it writes.
CompletedMeansDelivered ==
    \A c \in Campaigns :
        campaign[c] = "COMPLETED" =>
            \A r \in RowsOf(c) : status[r] \in { "SENT", "CANCELLED" }

\* When the last row of a campaign is settled and no slot still works on it, the
\* campaign's status is settled too: no interleaving loses the last finalization.
SettledCampaign ==
    \A c \in Campaigns :
        /\ campaign[c] # "ABSENT"
        /\ Pending(c) = {}
        /\ \A s \in Slots, r \in RowsOf(c) : ~Owns(s, r)
        => campaign[c] \in Finished \cup { "CANCELLED" }

\* The processor gives a row up only after EMAIL_JOB_ATTEMPTS refused sends:
\* deferrals and lost claims cost no attempt.
FailedAfterAllAttempts ==
    \A r \in Rows : status[r] = "FAILED" => refused[r] >= Attempts

\* A SCHEDULED row that nobody is working on or about to enqueue has a job that
\* will run: processor and BullMQ agree on when a run is the last one.
ScheduledHasJob ==
    \A r \in Rows :
        /\ status[r] = "SCHEDULED"
        /\ campaign[CampaignOf[r]] # "CANCELLED"
        /\ r \notin toEnqueue[CampaignOf[r]]
        => jobState[r] \in { "queued", "active" }

-------------------------------------------------------------------------------
(* What a step may never do *)

\* SENT, FAILED and CANCELLED are final for a row, although two of the writes
\* that end a run are unconditional.
RowFinality ==
    [][\A r \in Rows : status[r] \in Terminal => status'[r] = status[r]]_vars

\* A finished campaign is never put back in progress by a slot that counted
\* pending rows before another slot finished them.
FinishedNeverReopens ==
    [][\A c \in Campaigns :
         campaign[c] \in Finished \cup { "CANCELLED" } =>
             campaign'[c] \notin { "SCHEDULED", "PROCESSING" }]_vars

\* The promise about each row, taken from its columns and from what SMTP got.
\* It contains AtMostOnce, and that a mailed row is out of everybody's reach.
Lifecycle == INSTANCE RowLifecycle WITH life <- status, mailed <- accepted
KeepsLifecycle == Lifecycle!Spec

\* A cancellation that was checked before the campaign finished and commits
\* after it relabels the campaign (the write is unconditional) but finds no row
\* left to cancel: nothing that was reported as settled is touched.
LateCancelTouchesNoRow ==
    [][\A c \in Campaigns :
         campaign[c] \in Finished /\ campaign'[c] = "CANCELLED" =>
             UNCHANGED status]_vars

-------------------------------------------------------------------------------
(* Fairness: slots, workers and requests already started keep running; time   *)
(* passes; BullMQ hands out due jobs; the limiter, whose windows pass, does    *)
(* not deny a row for ever.  Nothing makes the environment submit, cancel,     *)
(* refuse, close or fail.                                                      *)

LimiterAllows(s) == SlotStep(s) /\ pc[s] = "limit" /\ pc'[s] = "send"

Fairness ==
    /\ \A s \in Slots : WF_vars(SlotStep(s)) /\ SF_vars(LimiterAllows(s))
    /\ \A r \in Rows :
          /\ SF_vars(\E s \in Slots : SlotTake(s, r))
          /\ WF_vars(LockExpires(r)) /\ SF_vars(StalledJobMoves(r))
          /\ WF_vars(ClaimAges(r))
    /\ \A w \in Workers : WF_vars(WorkerBoots(w)) /\ WF_vars(WorkerExits(w))
    /\ \A c \in Campaigns : WF_vars(RequestEnqueues(c)) /\ WF_vars(RequestCancels(c))

FairSpec == Spec /\ Fairness

\* Every row that is committed is sent, given up or cancelled with its campaign.
EveryRowSettles ==
    \A r \in Rows :
        status[r] = "SCHEDULED" ~>
            \/ status[r] \in Terminal
            \/ campaign[CampaignOf[r]] = "CANCELLED"

\* Every campaign ends: the last of its rows to settle takes it along.
EveryCampaignSettles ==
    \A c \in Campaigns :
        campaign[c] = "SCHEDULED" ~> campaign[c] \in Finished \cup { "CANCELLED" }

\* Workers are moreover restarted again and again, each restart reconciling.
RestartSpec == FairSpec /\ \A w \in Workers : WF_vars(WorkerCloses(w))

\* Under recurring restarts no committed row is left behind, whether its job
\* was never enqueued or its worker was killed in the middle of a send.
EveryRowRecovered ==
    \A r \in Rows : status[r] = "SCHEDULED" ~> status[r] \in Terminal
===============================================================================
