---------------------------- MODULE CampaignService ----------------------------
(***************************************************************************)
(* The two operations of campaignService.ts that write: createCampaign     *)
(* from its transaction on, and cancelCampaign.  Both are sequences of     *)
(* database and queue calls run by the API process, which interleave with  *)
(* the workers and with each other.                                        *)
(***************************************************************************)
EXTENDS EmailQueue, Ledger

VARIABLES
    toEnqueue,  \* rows createCampaign committed and has still to enqueue
    canceller,  \* where the cancellation of a campaign is
    toCancel    \* the SCHEDULED rows it read, then those left to remove

serviceVars == <<toEnqueue, canceller, toCancel>>

ServiceTypeOK ==
    /\ toEnqueue \in [Campaigns -> SUBSET Rows]
    /\ canceller \in [Campaigns -> { "idle", "checked", "read", "removing" }]
    /\ toCancel \in [Campaigns -> SUBSET Rows]

ServiceInit ==
    /\ toEnqueue = [c \in Campaigns |-> {}]
    /\ canceller = [c \in Campaigns |-> "idle"]
    /\ toCancel = [c \in Campaigns |-> {}]

\* The transaction commits the campaign with all its rows, or nothing; the
\* rows are then read back, whatever their status.
CommitCampaign(c) ==
    /\ campaign[c] = "ABSENT"
    /\ campaign' = [campaign EXCEPT ![c] = "SCHEDULED"]
    /\ UpdateWhere(RowsOf(c), "ABSENT", "SCHEDULED")
    /\ toEnqueue' = [toEnqueue EXCEPT ![c] = RowsOf(c)]
    /\ UNCHANGED <<claimedAt, canceller, toCancel, queueVars>>

\* One addBulk of enqueueEmailJobs, whatever the chunk size.
EnqueueChunk(c) ==
    \E chunk \in SUBSET toEnqueue[c] \ {{}} :
        /\ EnqueueEmailJobs(chunk)
        /\ toEnqueue' = [toEnqueue EXCEPT ![c] = @ \ chunk]
        /\ UNCHANGED <<canceller, toCancel, ledgerVars>>

\* addBulk throws: the request fails with its rows committed, not enqueued.
EnqueueError(c) ==
    /\ "redis" \in Events
    /\ toEnqueue[c] # {}
    /\ toEnqueue' = [toEnqueue EXCEPT ![c] = {}]
    /\ UNCHANGED <<canceller, toCancel, ledgerVars, queueVars>>

\* The campaign is read; a CANCELLED or a finished one ends the request here.
CheckCancel(c) ==
    /\ "cancel" \in Events
    /\ canceller[c] = "idle"
    /\ campaign[c] \in { "SCHEDULED", "PROCESSING" }
    /\ canceller' = [canceller EXCEPT ![c] = "checked"]
    /\ UNCHANGED <<toEnqueue, toCancel, ledgerVars, queueVars>>

ReadToCancel(c) ==
    /\ canceller[c] = "checked"
    /\ canceller' = [canceller EXCEPT ![c] = "read"]
    /\ toCancel' = [toCancel EXCEPT ![c] =
                     { r \in RowsOf(c) : status[r] = "SCHEDULED" }]
    /\ UNCHANGED <<toEnqueue, ledgerVars, queueVars>>

\* Mutant: rows in flight are cancelled with the scheduled ones.
MutCancelInFlight(c) ==
    /\ canceller[c] = "read"
    /\ status' = [r \in Rows |-> IF r \in Pending(c) THEN "CANCELLED"
                                                    ELSE status[r]]
    /\ campaign' = [campaign EXCEPT ![c] = "CANCELLED"]
    /\ canceller' = [canceller EXCEPT ![c] = "removing"]
    /\ UNCHANGED <<claimedAt, toEnqueue, toCancel, queueVars>>

\* The transaction: the SCHEDULED rows, and the campaign whatever its status.
CommitCancel(c) ==
    /\ canceller[c] = "read"
    /\ UpdateWhere(RowsOf(c), "SCHEDULED", "CANCELLED")
    /\ campaign' = [campaign EXCEPT ![c] = "CANCELLED"]
    /\ canceller' = [canceller EXCEPT ![c] = "removing"]
    /\ UNCHANGED <<claimedAt, toEnqueue, toCancel, queueVars>>

\* removeEmailJobs, one job per call; a call that throws is skipped.
RemoveNext(c) ==
    /\ canceller[c] = "removing"
    /\ \E r \in toCancel[c] :
        /\ toCancel' = [toCancel EXCEPT ![c] = @ \ {r}]
        /\ RemoveEmailJob(r) \/ ("redis" \in Events /\ UNCHANGED queueVars)
    /\ UNCHANGED <<toEnqueue, canceller, ledgerVars>>

FinishCancel(c) ==
    /\ canceller[c] = "removing"
    /\ toCancel[c] = {}
    /\ canceller' = [canceller EXCEPT ![c] = "idle"]
    /\ UNCHANGED <<toEnqueue, toCancel, ledgerVars, queueVars>>

\* The API process is killed, with every request it was serving.
ApiCrash ==
    /\ "apiCrash" \in Events
    /\ \E c \in Campaigns : toEnqueue[c] # {} \/ canceller[c] # "idle"
    /\ toEnqueue' = [c \in Campaigns |-> {}]
    /\ canceller' = [c \in Campaigns |-> "idle"]
    /\ toCancel' = [c \in Campaigns |-> {}]
    /\ UNCHANGED <<ledgerVars, queueVars>>
===============================================================================
