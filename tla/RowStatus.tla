------------------------------- MODULE RowStatus -------------------------------
(***************************************************************************)
(* What the reading side takes the status of an EmailJob row to do between *)
(* two of its reads.                                                       *)
(***************************************************************************)

\* A FAILED row was given up by the sweep while its send was still under way.
MayMove(from, to) ==
    \/ from = "SCHEDULED" /\ to \in { "PROCESSING", "CANCELLED" }
    \/ from = "PROCESSING" /\ to \in { "SCHEDULED", "SENT", "FAILED" }
    \/ from = "FAILED" /\ to = "SENT"
===============================================================================
