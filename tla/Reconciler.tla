------------------------------ MODULE Reconciler ------------------------------
(***************************************************************************)
(* The life of a worker process (worker.ts) and the reconciliation it runs *)
(* once at boot (reconciler.ts), before it takes jobs.  Several workers    *)
(* may run: one reconciles while the others process.                       *)
(***************************************************************************)
EXTENDS EmailQueue, Ledger

VARIABLES
    phase,    \* where a worker process is
    scanned,  \* the SCHEDULED rows the scan returned; then those without a job
    crashes   \* bound counter: hard kills so far

reconcilerVars == <<phase, scanned, crashes>>

\* What the reconciler is about to do; then the worker runs, or shuts down.
Booting == { "sweep", "scan", "probe", "requeue" }
Phases == { "down", "up", "closing" } \cup Booting

ReconcilerTypeOK ==
    /\ phase \in [Workers -> Phases]
    /\ scanned \in [Workers -> SUBSET Rows]
    /\ crashes \in 0 .. MaxCrashes

ReconcilerInit ==
    /\ phase = [w \in Workers |-> "down"]
    /\ scanned = [w \in Workers |-> {}]
    /\ crashes = 0

Enter(w, p, rows) ==
    /\ phase' = [phase EXCEPT ![w] = p]
    /\ scanned' = [scanned EXCEPT ![w] = rows]
    /\ UNCHANGED crashes

Boot(w) ==
    /\ phase[w] = "down"
    /\ Enter(w, "sweep", {})
    /\ UNCHANGED <<ledgerVars, queueVars>>

\* failStaleProcessing: the campaigns of the rows are not touched.
IsStale(r) == status[r] = "PROCESSING" /\ claimedAt[r] \in { "stale", "null" }

\* Mutant: a stranded row is put back on the schedule instead of given up.
MutResurrectStale(w) ==
    /\ phase[w] = "sweep"
    /\ UpdateWhere({ r \in Rows : IsStale(r) }, "PROCESSING", "SCHEDULED")
    /\ Enter(w, "scan", {})
    /\ UNCHANGED <<claimedAt, campaign, queueVars>>

FailStaleProcessing(w) ==
    /\ phase[w] = "sweep"
    /\ UpdateWhere({ r \in Rows : IsStale(r) }, "PROCESSING", "FAILED")
    /\ Enter(w, "scan", {})
    /\ UNCHANGED <<claimedAt, campaign, queueVars>>

\* requeueMissingScheduled: read the SCHEDULED rows, probe their job hashes,
\* add the missing jobs.  One chunk stands for the whole keyset scan.
ScanScheduled(w) ==
    /\ phase[w] = "scan"
    /\ LET rows == { r \in Rows : status[r] = "SCHEDULED" }
       IN  Enter(w, IF rows = {} THEN "up" ELSE "probe", rows)
    /\ UNCHANGED <<ledgerVars, queueVars>>

\* Mutant: the replies of EXISTS are read the wrong way round.
MutProbeInverted(w) ==
    /\ phase[w] = "probe"
    /\ LET missing == { r \in scanned[w] : Exists(r) }
       IN  Enter(w, IF missing = {} THEN "up" ELSE "requeue", missing)
    /\ UNCHANGED <<ledgerVars, queueVars>>

ProbeJobs(w) ==
    /\ phase[w] = "probe"
    /\ LET missing == { r \in scanned[w] : ~Exists(r) }
       IN  Enter(w, IF missing = {} THEN "up" ELSE "requeue", missing)
    /\ UNCHANGED <<ledgerVars, queueVars>>

RequeueMissing(w) ==
    /\ phase[w] = "requeue"
    /\ EnqueueEmailJobs(scanned[w])
    /\ Enter(w, "up", {})
    /\ UNCHANGED ledgerVars

Reconcile(w) ==
    \/ FailStaleProcessing(w) \/ ScanScheduled(w)
    \/ ProbeJobs(w) \/ RequeueMissing(w)

\* SIGTERM: the worker takes no more jobs and exits once its slots are idle.
Close(w) ==
    /\ "close" \in Events
    /\ phase[w] = "up"
    /\ Enter(w, "closing", {})
    /\ UNCHANGED <<ledgerVars, queueVars>>

Exit(w) ==
    /\ phase[w] = "closing"
    /\ Enter(w, "down", {})
    /\ UNCHANGED <<ledgerVars, queueVars>>

\* A hard kill; an error while reconciling exits the process the same way.
Die(w) ==
    /\ "crash" \in Events
    /\ phase[w] # "down"
    /\ crashes < MaxCrashes
    /\ phase' = [phase EXCEPT ![w] = "down"]
    /\ scanned' = [scanned EXCEPT ![w] = {}]
    /\ crashes' = crashes + 1
    /\ UNCHANGED <<ledgerVars, queueVars>>
===============================================================================
