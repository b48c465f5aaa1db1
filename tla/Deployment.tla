------------------------------ MODULE Deployment ------------------------------
(***************************************************************************)
(* The fixed surroundings of one run of the mail scheduler: the EmailJob   *)
(* rows that campaigns will create, the worker processes and their         *)
(* concurrency slots, the retry policy, and the requests, shutdowns and    *)
(* faults the environment may produce.  Every other module of the send     *)
(* path extends this one.                                                  *)
(***************************************************************************)
EXTENDS Naturals, FiniteSets

CONSTANTS
    Rows,        \* EmailJob rows; a row and its BullMQ job share one identity
    Campaigns,   \* campaigns
    CampaignOf,  \* the campaign a row belongs to (EmailJob.campaignId)
    Workers,     \* worker processes (worker.ts)
    Slots,       \* concurrent job executions (WORKER_CONCURRENCY per worker)
    WorkerOf,    \* the worker a slot belongs to
    NoRow,       \* an idle slot's row
    NoSlot,      \* an unlocked job's lock holder
    Attempts,    \* EMAIL_JOB_ATTEMPTS
    MaxStalled,  \* BullMQ's maxStalledCount
    MaxCrashes,  \* bound: hard kills of workers in one behaviour
    Events       \* what the environment may do in this instance

(***************************************************************************)
(* cancel      a user cancels a campaign                                   *)
(* close       a worker is shut down with SIGTERM                          *)
(* crash       a worker process is killed at any point                     *)
(* stall       a live slot's job lock expires (event loop blocked, Redis   *)
(*             unreachable for lockDuration)                               *)
(* slow        a live slot keeps its claim past STALE_PROCESSING_THRESHOLD *)
(* db          any MySQL call may fail, except the write of SENT; the      *)
(*             reply of a write, SENT included, may be lost once applied   *)
(* unrecorded  the write of SENT fails and is not applied                  *)
(* ack         SMTP accepts a message but the reply is lost                *)
(* redis       a Redis call of the processor or of the API fails           *)
(* apiCrash    the API process is killed at any point                      *)
(* redisLoss   Redis loses the queue's data                                *)
(* evict       a finished job leaves the retained tail                     *)
(***************************************************************************)
EventKinds ==
    { "cancel", "close", "crash", "stall", "slow", "db", "unrecorded", "ack",
      "redis", "apiCrash", "redisLoss", "evict" }

ASSUME DeploymentAssumption ==
    /\ CampaignOf \in [Rows -> Campaigns]
    /\ WorkerOf \in [Slots -> Workers]
    /\ NoRow \notin Rows
    /\ NoSlot \notin Slots
    /\ Attempts \in Nat \ {0}
    /\ MaxStalled \in Nat
    /\ MaxCrashes \in Nat
    /\ Events \subseteq EventKinds

RowsOf(c) == { r \in Rows : CampaignOf[r] = c }
===============================================================================
