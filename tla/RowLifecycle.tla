----------------------------- MODULE RowLifecycle -----------------------------
(***************************************************************************)
(* What the send path promises about an EmailJob row, whoever moves it and *)
(* whatever fails on the way: it is planned once, goes to and fro between  *)
(* SCHEDULED and PROCESSING until it is cancelled or mailed, is mailed at  *)
(* most once, and once mailed never returns to where it could be claimed   *)
(* or cancelled.  SENT is only said of a row that was mailed.              *)
(***************************************************************************)
EXTENDS Naturals

CONSTANT Rows

VARIABLES
    life,    \* a row's status
    mailed   \* messages of the row that SMTP accepted

lifecycleVars == <<life, mailed>>

\* A row somebody took off the schedule and that was not cancelled.
TakenOut == { "PROCESSING", "SENT", "FAILED" }

Init ==
    /\ life = [r \in Rows |-> "ABSENT"]
    /\ mailed = [r \in Rows |-> 0]

\* One statement of the database moves the rows of R together.
Move(R, from, to) ==
    /\ \A r \in R : life[r] \in from
    /\ life' = [r \in Rows |-> IF r \in R THEN to ELSE life[r]]
    /\ UNCHANGED mailed

Plan(R) == Move(R, { "ABSENT" }, "SCHEDULED")
Cancel(R) == Move(R, { "SCHEDULED" }, "CANCELLED")
Claim(r) == Move({r}, { "SCHEDULED" }, "PROCESSING")
PutBack(r) == mailed[r] = 0 /\ Move({r}, { "PROCESSING" }, "SCHEDULED")
Report(r) == mailed[r] = 1 /\ Move({r}, TakenOut, "SENT")

\* The reconciler's sweep, or the last attempt's catch block; the latter may
\* overwrite SENT when the reply to the write of SENT was lost.
GiveUp(R) == Move(R, TakenOut, "FAILED")

\* The sweep may have given up the row of a slot that is about to send it.
Mail(r) ==
    /\ life[r] \in TakenOut
    /\ mailed[r] = 0
    /\ mailed' = [mailed EXCEPT ![r] = 1]
    /\ UNCHANGED life

Next ==
    \/ \E R \in SUBSET Rows : Plan(R) \/ Cancel(R) \/ GiveUp(R)
    \/ \E r \in Rows : Claim(r) \/ PutBack(r) \/ Mail(r) \/ Report(r)

Spec == Init /\ [][Next]_lifecycleVars
===============================================================================
