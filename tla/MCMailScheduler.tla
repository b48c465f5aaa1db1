---------------------------- MODULE MCMailScheduler ----------------------------
(***************************************************************************)
(* MailScheduler on small instances.  The rows of a campaign are           *)
(* interchangeable; so are the slots when one worker has them all, and     *)
(* workers together with their slots.                                      *)
(***************************************************************************)
EXTENDS MailScheduler, TLC

\* All rows in one campaign.
OneCampaign == [r \in Rows |-> CHOOSE c \in Campaigns : TRUE]

\* Every worker has a slot.
SlotPlacement ==
    CHOOSE f \in [Slots -> Workers] : \A w \in Workers : \E s \in Slots : f[s] = w

\* Slots change places together with their workers.
DeploymentSymmetry ==
    { f \in Permutations(Slots \cup Workers) :
        \A s \in Slots : f[s] \in Slots /\ WorkerOf[f[s]] = f[WorkerOf[s]] }

RowAndSlotSymmetry == Permutations(Rows) \cup Permutations(Slots)
===============================================================================
