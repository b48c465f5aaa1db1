---------------------------- MODULE EmailProcessor ----------------------------
(***************************************************************************)
(* processEmailJob and maybeFinalizeCampaign, run by the concurrency slots *)
(* of the workers.  Every await is a step boundary, so what one step read  *)
(* may be stale when the next one uses it.  A slot's pc names the call it  *)
(* is about to make:                                                       *)
(*                                                                         *)
(*   load, claim, limit, send        the four gates                        *)
(*   release, defer                  a denied send gives its claim back    *)
(*   record                          the write of SENT                     *)
(*   rollback, fail                  the catch block                       *)
(*   pending, flip, failures, classify   maybeFinalizeCampaign             *)
(*   return, throw                   how the run ends, handed to BullMQ    *)
(***************************************************************************)
EXTENDS EmailQueue, Ledger

VARIABLES
    pc,        \* the call a slot is about to make
    job,       \* the row whose job the slot runs
    prior,     \* job.attemptsMade as fetched with the job
    outcome,   \* the ProcessOutcome reached so far
    verdict,   \* the final campaign status about to be written
    accepted,  \* ghost: messages SMTP has accepted for a row; 2 means several
    refused    \* ghost: sends that came back as an error, up to Attempts

processorVars == <<pc, job, prior, outcome, verdict>>
mailVars == <<accepted, refused>>

Gates == { "load", "claim", "limit", "send" }
Finalizing == { "pending", "flip", "failures", "classify" }
Pcs == { "idle", "release", "defer", "record", "rollback", "fail", "return",
         "throw" } \cup Gates \cup Finalizing

ProcessorTypeOK ==
    /\ pc \in [Slots -> Pcs]
    /\ job \in [Slots -> Rows \cup {NoRow}]
    /\ prior \in [Slots -> 0 .. Attempts]
    /\ outcome \in [Slots -> { "none", "sent", "failed" }]
    /\ verdict \in [Slots -> Finished \cup { "none" }]
    /\ accepted \in [Rows -> 0 .. 2]
    /\ refused \in [Rows -> 0 .. Attempts]
    /\ \A s \in Slots : pc[s] # "idle" => job[s] \in Rows

ProcessorInit ==
    /\ pc = [s \in Slots |-> "idle"]
    /\ job = [s \in Slots |-> NoRow]
    /\ prior = [s \in Slots |-> 0]
    /\ outcome = [s \in Slots |-> "none"]
    /\ verdict = [s \in Slots |-> "none"]
    /\ accepted = [r \in Rows |-> 0]
    /\ refused = [r \in Rows |-> 0]

-------------------------------------------------------------------------------
(* Control flow *)

Goto(s, step) ==
    /\ pc' = [pc EXCEPT ![s] = step]
    /\ UNCHANGED <<job, prior, outcome, verdict>>

\* The slots of S forget their runs: a run ended, or its process died.
Forget(S) ==
    /\ pc' = [s \in Slots |-> IF s \in S THEN "idle" ELSE pc[s]]
    /\ job' = [s \in Slots |-> IF s \in S THEN NoRow ELSE job[s]]
    /\ prior' = [s \in Slots |-> IF s \in S THEN 0 ELSE prior[s]]
    /\ outcome' = [s \in Slots |-> IF s \in S THEN "none" ELSE outcome[s]]
    /\ verdict' = [s \in Slots |-> IF s \in S THEN "none" ELSE verdict[s]]

\* Mutant: the run in progress is counted twice, the last attempt is lost.
MutLastAttemptEarly(s) == prior[s] + 2 >= Attempts
\* Mutant: the run in progress is not counted, so the last failure is retried.
MutLastAttemptLate(s) == prior[s] >= Attempts

\* isLastAttempt
IsLastAttempt(s) == prior[s] + 1 >= Attempts

\* The try block: the send, the write of SENT, and the finalization after it.
InTry(s) ==
    \/ pc[s] \in { "send", "record" }
    \/ pc[s] \in Finalizing /\ outcome[s] = "sent"

\* Where an exception raised by the current call leads.
Handler(s) ==
    IF ~InTry(s) THEN "throw"
    ELSE IF IsLastAttempt(s) THEN "fail" ELSE "rollback"

Raise(s) == Goto(s, Handler(s))

\* A write was applied; its reply may still be lost.
Written(s, next) == Goto(s, next) \/ ("db" \in Events /\ Raise(s))

\* The call about to be made fails without an effect.
DbError(s) ==
    /\ \/ /\ "db" \in Events
          /\ pc[s] \in { "load", "claim", "release", "rollback", "fail" }
                         \cup Finalizing
       \/ "unrecorded" \in Events /\ pc[s] = "record"
    /\ Raise(s)
    /\ UNCHANGED <<ledgerVars, queueVars, mailVars>>

-------------------------------------------------------------------------------
(* The steps of a run *)

\* BullMQ hands an idle slot a job and calls the processor.
Take(s, r) ==
    /\ pc[s] = "idle"
    /\ TakeJob(s, r)
    /\ pc' = [pc EXCEPT ![s] = "load"]
    /\ job' = [job EXCEPT ![s] = r]
    /\ prior' = [prior EXCEPT ![s] = attemptsMade[r]]
    /\ UNCHANGED <<outcome, verdict, ledgerVars, mailVars>>

\* Gate 1.
Load(s) ==
    /\ pc[s] = "load"
    /\ Goto(s, IF status[job[s]] \in { "ABSENT", "CANCELLED", "SENT" }
               THEN "return" ELSE "claim")
    /\ UNCHANGED <<ledgerVars, queueVars, mailVars>>

\* Mutant: the where clause asks only that the row is not SENT.
MutClaimAnyRow(s) ==
    LET r == job[s] IN
    /\ pc[s] = "claim"
    /\ status[r] # "SENT"
    /\ status' = [status EXCEPT ![r] = "PROCESSING"]
    /\ claimedAt' = [claimedAt EXCEPT ![r] = "fresh"]
    /\ Goto(s, "limit")
    /\ UNCHANGED <<campaign, queueVars, mailVars>>

\* Gate 2: the compare-and-swap, won or lost.
Claim(s) ==
    LET r == job[s] IN
    /\ pc[s] = "claim"
    /\ \/ /\ status[r] = "SCHEDULED"
          /\ UpdateWhere({r}, "SCHEDULED", "PROCESSING")
          /\ claimedAt' = [claimedAt EXCEPT ![r] = "fresh"]
          /\ Written(s, "limit")
       \/ /\ status[r] # "SCHEDULED"
          /\ Goto(s, "return")
          /\ UNCHANGED <<status, claimedAt>>
    /\ UNCHANGED <<campaign, queueVars, mailVars>>

\* Mutant: a denied send is deferred without giving its claim back.
MutLimitKeepsClaim(s) ==
    /\ pc[s] = "limit"
    /\ Goto(s, "send") \/ Goto(s, "defer")
    /\ UNCHANGED <<ledgerVars, queueVars, mailVars>>

\* Gate 3: the limiter allows, denies, or its Redis call fails.
Limit(s) ==
    /\ pc[s] = "limit"
    /\ \/ Goto(s, "send")
       \/ Goto(s, "release")
       \/ "redis" \in Events /\ Raise(s)
    /\ UNCHANGED <<ledgerVars, queueVars, mailVars>>

\* PROCESSING back to SCHEDULED, for the denied send and for the retry.
ReleaseRow(s) ==
    LET r == job[s] IN
    /\ UpdateWhere({r}, "PROCESSING", "SCHEDULED")
    /\ claimedAt' = [claimedAt EXCEPT ![r] =
                       IF status[r] = "PROCESSING" THEN "null" ELSE @]
    /\ UNCHANGED campaign

Release(s) ==
    /\ pc[s] = "release"
    /\ ReleaseRow(s)
    /\ Written(s, "defer")
    /\ UNCHANGED <<queueVars, mailVars>>

\* moveToDelayed, then DelayedError: BullMQ leaves the job where it is.
Defer(s) ==
    /\ pc[s] = "defer"
    /\ \/ DelayJob(s, job[s]) /\ Forget({s})
       \/ /\ jobLock[job[s]] # s \/ "redis" \in Events
          /\ Raise(s)
          /\ UNCHANGED queueVars
    /\ UNCHANGED <<ledgerVars, mailVars>>

Saturate(n, max) == IF n < max THEN n + 1 ELSE max
SmtpAccepts(r) ==
    /\ accepted' = [accepted EXCEPT ![r] = Saturate(@, 2)]
    /\ UNCHANGED refused
SmtpRefuses(r) ==
    /\ refused' = [refused EXCEPT ![r] = Saturate(@, Attempts)]
    /\ UNCHANGED accepted

\* Gate 4: sendEmail resolves, rejects, or rejects although SMTP accepted.
Send(s) ==
    /\ pc[s] = "send"
    /\ \/ SmtpAccepts(job[s]) /\ Goto(s, "record")
       \/ SmtpRefuses(job[s]) /\ Raise(s)
       \/ "ack" \in Events /\ SmtpAccepts(job[s]) /\ Raise(s)
    /\ UNCHANGED <<ledgerVars, queueVars>>

-------------------------------------------------------------------------------
(* Recording the result, and maybeFinalizeCampaign *)

\* The row's result is written, and maybeFinalizeCampaign is called.
Conclude(s, result) ==
    /\ pc' = [pc EXCEPT ![s] = "pending"]
    /\ outcome' = [outcome EXCEPT ![s] = result]
    /\ UNCHANGED <<job, prior, verdict>>

\* update({where: {id}}): SENT whatever the row's status has become.
Record(s) ==
    /\ pc[s] = "record"
    /\ status' = [status EXCEPT ![job[s]] = "SENT"]
    /\ Conclude(s, "sent") \/ ("db" \in Events /\ Raise(s))
    /\ UNCHANGED <<claimedAt, campaign, queueVars, mailVars>>

\* Retries left: the row goes back, the error is rethrown.
Rollback(s) ==
    /\ pc[s] = "rollback"
    /\ ReleaseRow(s)
    /\ Goto(s, "throw")
    /\ UNCHANGED <<queueVars, mailVars>>

\* Mutant: a permanent failure does not try to finalize the campaign.
MutFailWithoutFinalizing(s) ==
    /\ pc[s] = "fail"
    /\ status' = [status EXCEPT ![job[s]] = "FAILED"]
    /\ Goto(s, "return")
    /\ UNCHANGED <<claimedAt, campaign, queueVars, mailVars>>

\* Out of attempts: FAILED whatever the row's status has become.
Fail(s) ==
    /\ pc[s] = "fail"
    /\ status' = [status EXCEPT ![job[s]] = "FAILED"]
    /\ Conclude(s, "failed") \/ ("db" \in Events /\ Raise(s))
    /\ UNCHANGED <<claimedAt, campaign, queueVars, mailVars>>

\* Mutant: the failed rows are not counted before the campaign is classified.
MutCountPendingOnly(s) ==
    /\ pc[s] = "pending"
    /\ Goto(s, IF Pending(CampaignOf[job[s]]) = {} THEN "classify" ELSE "flip")
    /\ UNCHANGED <<ledgerVars, queueVars, mailVars>>

CountPending(s) ==
    /\ pc[s] = "pending"
    /\ Goto(s, IF Pending(CampaignOf[job[s]]) = {} THEN "failures" ELSE "flip")
    /\ UNCHANGED <<ledgerVars, queueVars, mailVars>>

\* Mutant: the flip is unconditional.
MutFlipAlways(s) ==
    /\ pc[s] = "flip"
    /\ campaign' = [campaign EXCEPT ![CampaignOf[job[s]]] = "PROCESSING"]
    /\ Goto(s, "return")
    /\ UNCHANGED <<status, claimedAt, queueVars, mailVars>>

\* SCHEDULED to PROCESSING, only while the campaign is SCHEDULED.
Flip(s) ==
    LET c == CampaignOf[job[s]] IN
    /\ pc[s] = "flip"
    /\ campaign' = [campaign EXCEPT ![c] =
                      IF @ = "SCHEDULED" THEN "PROCESSING" ELSE @]
    /\ Written(s, "return")
    /\ UNCHANGED <<status, claimedAt, queueVars, mailVars>>

CountFailed(s) ==
    /\ pc[s] = "failures"
    /\ pc' = [pc EXCEPT ![s] = "classify"]
    /\ verdict' = [verdict EXCEPT ![s] =
                     IF FailedOf(CampaignOf[job[s]]) # {}
                     THEN "PARTIALLY_FAILED" ELSE "COMPLETED"]
    /\ UNCHANGED <<job, prior, outcome, ledgerVars, queueVars, mailVars>>

\* update({where: {id}}): the verdict whatever the campaign's status has become.
Classify(s) ==
    /\ pc[s] = "classify"
    /\ campaign' = [campaign EXCEPT ![CampaignOf[job[s]]] = verdict[s]]
    /\ Written(s, "return")
    /\ UNCHANGED <<status, claimedAt, queueVars, mailVars>>

\* The processor returned: BullMQ completes the job, if the lock is still held.
Return(s) ==
    /\ pc[s] = "return"
    /\ CompleteJob(s, job[s])
    /\ Forget({s})
    /\ UNCHANGED <<ledgerVars, mailVars>>

\* The processor threw: BullMQ retries or fails the job, if the lock is held.
Throw(s) ==
    /\ pc[s] = "throw"
    /\ RetryOrFailJob(s, job[s])
    /\ Forget({s})
    /\ UNCHANGED <<ledgerVars, mailVars>>

\* A run's next step, faults of the database aside.
Step(s) ==
    \/ Load(s) \/ Claim(s) \/ Limit(s) \/ Release(s) \/ Defer(s)
    \/ Send(s) \/ Record(s) \/ Rollback(s) \/ Fail(s)
    \/ CountPending(s) \/ Flip(s) \/ CountFailed(s) \/ Classify(s)
    \/ Return(s) \/ Throw(s)
===============================================================================
