------------------------------- MODULE EmailPage -------------------------------
(***************************************************************************)
(* The page of one email, frontend app/(app)/emails/[id]/page.tsx.  Every  *)
(* change of the id in the address starts a fetch and makes the one before *)
(* inactive; a fetch that is no longer active may still be answered.       *)
(***************************************************************************)
EXTENDS CampaignReads

CONSTANT MaxFetches   \* bound: addresses visited

ASSUME DetailAssumption == MaxFetches \in Nat

VARIABLES
    detail,    \* the page: id, job, loading, error
    fetches    \* the fetches so far: their id, whether active, their state

detailVars == <<detail, fetches>>

Fetch(id) == [id |-> id, active |-> TRUE, state |-> "sent", status |-> Null]

DetailTypeOK ==
    /\ detail.id \in Jobs \cup {Null} /\ detail.job \in Jobs \cup {Null}
    /\ detail.loading \in BOOLEAN /\ detail.error \in BOOLEAN
    /\ Len(fetches) \in 0 .. MaxFetches
    /\ \A i \in DOMAIN fetches : fetches[i].id \in Jobs

\* The page before its first effect.
DetailMounts ==
    /\ detail = [id |-> Null, job |-> Null, status |-> Null,
                 loading |-> TRUE, error |-> FALSE]
    /\ fetches = <<>>

\* The effect of a new id, after the cleanup of the last one.
OpenEmail(id) ==
    /\ Len(fetches) < MaxFetches
    /\ id # detail.id
    /\ detail' = [detail EXCEPT !.id = id, !.loading = TRUE, !.error = FALSE]
    /\ fetches' = Append([i \in DOMAIN fetches |->
                            [fetches[i] EXCEPT !.active = FALSE]], Fetch(id))

\* getJobById: the row as it is now, or 404.
ServeJob(i) ==
    /\ fetches[i].state = "sent"
    /\ fetches' = [fetches EXCEPT
            ![i].state = IF fetches[i].id \in Inserted THEN "served" ELSE "failed",
            ![i].status = IF fetches[i].id \in Inserted THEN status[fetches[i].id]
                                                        ELSE Null]
    /\ UNCHANGED detail

FetchIsLost(i) ==
    /\ fetches[i].state \in { "sent", "served" }
    /\ fetches' = [fetches EXCEPT ![i].state = "failed", ![i].status = Null]
    /\ UNCHANGED detail

\* Mutant: no active flag.
MutHeeded(i) == fetches[i].state # "done"

Heeded(i) == fetches[i].active

JobSettles(i) ==
    /\ fetches[i].state \in { "served", "failed" }
    /\ fetches' = [fetches EXCEPT ![i].state = "done", ![i].status = Null]
    /\ detail' =
          IF ~Heeded(i) THEN detail
          ELSE IF fetches[i].state = "failed"
               THEN [detail EXCEPT !.error = TRUE, !.loading = FALSE]
               ELSE [detail EXCEPT !.job = fetches[i].id, !.status = fetches[i].status,
                                   !.loading = FALSE]

DetailNext ==
    \/ \E id \in Jobs : OpenEmail(id)
    \/ \E i \in DOMAIN fetches : ServeJob(i) \/ FetchIsLost(i) \/ JobSettles(i)

\* The page never shows one email under the address of another: neither an
\* answer that is overtaken, nor what is left of the email shown before when
\* the fetch for this address fails.
ShowsItsAddress ==
    ~detail.loading /\ ~detail.error => detail.job = detail.id
===============================================================================
