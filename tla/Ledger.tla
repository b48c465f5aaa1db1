-------------------------------- MODULE Ledger --------------------------------
(***************************************************************************)
(* The MySQL tables of the send path, the repository's source of truth:    *)
(* EmailJob.status and processingStartedAt, and Campaign.status.           *)
(* "ABSENT" is a row or a campaign not inserted yet.  A timestamp is kept  *)
(* as what the reconciler asks of it: unset, recent, or older than         *)
(* STALE_PROCESSING_THRESHOLD_MS.                                          *)
(***************************************************************************)
EXTENDS Deployment

VARIABLES status, claimedAt, campaign

ledgerVars == <<status, claimedAt, campaign>>

EmailStatus ==
    { "ABSENT", "SCHEDULED", "PROCESSING", "SENT", "FAILED", "CANCELLED" }
CampaignStatus ==
    { "ABSENT", "SCHEDULED", "PROCESSING", "COMPLETED", "PARTIALLY_FAILED",
      "CANCELLED" }

\* A row counted by neither the claim nor maybeFinalizeCampaign's pending count.
Terminal == { "SENT", "FAILED", "CANCELLED" }
Finished == { "COMPLETED", "PARTIALLY_FAILED" }

LedgerTypeOK ==
    /\ status \in [Rows -> EmailStatus]
    /\ claimedAt \in [Rows -> { "null", "fresh", "stale" }]
    /\ campaign \in [Campaigns -> CampaignStatus]

LedgerInit ==
    /\ status = [r \in Rows |-> "ABSENT"]
    /\ claimedAt = [r \in Rows |-> "null"]
    /\ campaign = [c \in Campaigns |-> "ABSENT"]

\* updateMany where status = from, on the rows of R.
UpdateWhere(R, from, to) ==
    status' = [r \in Rows |-> IF r \in R /\ status[r] = from
                              THEN to ELSE status[r]]

\* Mutant: only SCHEDULED rows count as pending.
MutPendingScheduledOnly(c) == { r \in RowsOf(c) : status[r] = "SCHEDULED" }

Pending(c) == { r \in RowsOf(c) : status[r] \in { "SCHEDULED", "PROCESSING" } }
FailedOf(c) == { r \in RowsOf(c) : status[r] = "FAILED" }
===============================================================================
