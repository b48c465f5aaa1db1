------------------------------ MODULE EmailQueue ------------------------------
(***************************************************************************)
(* The BullMQ queue "email-send" as the repository uses it: one job per    *)
(* EmailJob row under the key email-{id}, with the retry policy and the    *)
(* retention of emailQueue.ts.  A job that waits and a job that is delayed *)
(* are both "queued": delays only order jobs in time.  The library is      *)
(* external; its lock, stalled-job and retry rules are those of the        *)
(* version in the lock file.                                               *)
(***************************************************************************)
EXTENDS Deployment

VARIABLES
    jobState,      \* the job hash: "none", or the set the job is in
    jobLock,       \* the slot whose token holds the job's lock
    attemptsMade,  \* finished attempts
    stalls         \* times the job was found active without a lock

queueVars == <<jobState, jobLock, attemptsMade, stalls>>

JobStates == { "none", "queued", "active", "completed", "failed" }

QueueTypeOK ==
    /\ jobState \in [Rows -> JobStates]
    /\ jobLock \in [Rows -> Slots \cup {NoSlot}]
    /\ attemptsMade \in [Rows -> 0 .. Attempts]
    /\ stalls \in [Rows -> 0 .. MaxStalled + 1]

QueueInit ==
    /\ jobState = [r \in Rows |-> "none"]
    /\ jobLock = [r \in Rows |-> NoSlot]
    /\ attemptsMade = [r \in Rows |-> 0]
    /\ stalls = [r \in Rows |-> 0]

Exists(r) == jobState[r] # "none"

\* The jobs of R have no hash any more.
Vanish(R) ==
    /\ jobState' = [r \in Rows |-> IF r \in R THEN "none" ELSE jobState[r]]
    /\ jobLock' = [r \in Rows |-> IF r \in R THEN NoSlot ELSE jobLock[r]]
    /\ attemptsMade' = [r \in Rows |-> IF r \in R THEN 0 ELSE attemptsMade[r]]
    /\ stalls' = [r \in Rows |-> IF r \in R THEN 0 ELSE stalls[r]]

-------------------------------------------------------------------------------
(* What the repository's queue module does. *)

\* addBulk: a job whose key exists, in whatever set, is left as it is.
EnqueueEmailJobs(R) ==
    /\ jobState' = [r \in Rows |->
                      IF r \in R /\ ~Exists(r) THEN "queued" ELSE jobState[r]]
    /\ UNCHANGED <<jobLock, attemptsMade, stalls>>

\* Cancellation pulls a job out; a locked one throws and is skipped.
RemoveEmailJob(r) ==
    IF jobLock[r] = NoSlot THEN Vanish({r}) ELSE UNCHANGED queueVars

-------------------------------------------------------------------------------
(* What BullMQ does to a job around the processor function. *)

TakeJob(s, r) ==
    /\ jobState[r] = "queued"
    /\ jobState' = [jobState EXCEPT ![r] = "active"]
    /\ jobLock' = [jobLock EXCEPT ![r] = s]
    /\ UNCHANGED <<attemptsMade, stalls>>

\* The job leaves the active set; a finished attempt is counted, a deferral is not.
LeaveActive(r, state, finished) ==
    /\ jobState' = [jobState EXCEPT ![r] = state]
    /\ jobLock' = [jobLock EXCEPT ![r] = NoSlot]
    /\ attemptsMade' = [attemptsMade EXCEPT ![r] = @ + finished]
    /\ UNCHANGED stalls

\* moveToDelayed, called by the processor itself; it throws without the lock.
DelayJob(s, r) == jobLock[r] = s /\ LeaveActive(r, "queued", 0)

\* Every other move of a slot without the lock is refused and changes nothing.
CompleteJob(s, r) ==
    IF jobLock[r] = s THEN LeaveActive(r, "completed", 1)
                      ELSE UNCHANGED queueVars

RetryOrFailJob(s, r) ==
    IF jobLock[r] = s
    THEN LeaveActive(r, IF attemptsMade[r] + 1 < Attempts
                        THEN "queued" ELSE "failed", 1)
    ELSE UNCHANGED queueVars

ExpireLock(r) ==
    /\ jobState[r] = "active" /\ jobLock[r] # NoSlot
    /\ jobLock' = [jobLock EXCEPT ![r] = NoSlot]
    /\ UNCHANGED <<jobState, attemptsMade, stalls>>

\* A live worker's stalled check finds an active job without a lock.
MoveStalledJob(r) ==
    /\ jobState[r] = "active" /\ jobLock[r] = NoSlot
    /\ stalls' = [stalls EXCEPT ![r] = @ + 1]
    /\ jobState' = [jobState EXCEPT ![r] =
                      IF stalls[r] + 1 > MaxStalled THEN "failed" ELSE "queued"]
    /\ UNCHANGED <<jobLock, attemptsMade>>

\* removeOnComplete / removeOnFail: only a recent tail is kept.
EvictJob(r) ==
    /\ jobState[r] \in { "completed", "failed" }
    /\ Vanish({r})
===============================================================================
