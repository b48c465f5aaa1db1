--------------------------- MODULE CampaignCreation ---------------------------
(***************************************************************************)
(* createCampaign up to its answer, run by any number of concurrent        *)
(* requests over the Campaign table: the idempotency fast path, the sender *)
(* check, the deduplication of recipients, the transaction with its unique *)
(* indexes, and the recovery of a request that lost the race.  Planning is *)
(* Planner, enqueueing and what follows is MailScheduler.                  *)
(***************************************************************************)
EXTENDS Lists, FiniteSets

CONSTANTS
    Requests,   \* POST /campaigns calls
    Users,
    Keys,       \* idempotency keys
    NoKey,      \* a request without one (NULL in the unique index)
    Senders,
    Addresses,
    Lower,      \* trim and lowercase, on addresses
    Campaigns,  \* ids of campaigns
    NoCampaign,
    Events      \* "db": a transaction fails, or its reply is lost; "redis":
                \* enqueueing fails; "apiCrash"; "senders": they are toggled

VARIABLES
    campaigns,  \* the Campaign rows, each with its EmailJob rows in order
    active,     \* the senders that are active
    stage,      \* the call a request is about to make, or how it ended
    input,      \* its parsed body, and the user it is authenticated as
    result,     \* the campaign it has found or created
    created     \* whether it created it (deduplicated: false)

vars == <<campaigns, active, stage, input, result, created>>

NoRow == [owner |-> NoCampaign, key |-> NoKey, rows |-> <<>>]
NoInput == [user |-> NoCampaign, key |-> NoKey, senders |-> <<>>,
            recipients |-> <<>>]

Answered == { "answered", "rejected", "failed", "conflict" }
Stages == { "idle", "lookup", "check", "commit", "recover", "enqueue", "lost" }
              \cup Answered

ASSUME CreationAssumption ==
    /\ NoKey \notin Keys
    /\ NoCampaign \notin Campaigns /\ NoCampaign \notin Users
    /\ Lower \in [Addresses -> Addresses]

\* What the route hands on: requireAuth's user, and a body that passed
\* CreateCampaignInputSchema.
Bodies == [user : Users, key : Keys \cup {NoKey},
           senders : Seq(Senders) \ {<<>>}, recipients : Seq(Addresses) \ {<<>>}]

Init ==
    /\ campaigns = [c \in Campaigns |-> NoRow]
    /\ active \in SUBSET Senders
    /\ stage = [q \in Requests |-> "idle"]
    /\ input = [q \in Requests |-> NoInput]
    /\ result = [q \in Requests |-> NoCampaign]
    /\ created = [q \in Requests |-> FALSE]

-------------------------------------------------------------------------------

Exists(c) == campaigns[c].owner # NoCampaign
Goto(q, next) == stage' = [stage EXCEPT ![q] = next]

\* The campaigns of the unique index entry (userId, idempotencyKey).
WithKey(u, k) ==
    { c \in Campaigns : k # NoKey /\ campaigns[c].owner = u /\ campaigns[c].key = k }

\* Mutant: the fast path is the only guard.
MutNoUniqueIndex(u, k) == FALSE
\* Mutant: the index is on the key alone.
MutKeyTaken(u, k) ==
    k # NoKey /\ \E c \in Campaigns : Exists(c) /\ campaigns[c].key = k

\* @@unique([userId, idempotencyKey]); NULLs never collide.
KeyTaken(u, k) == WithKey(u, k) # {}

Normalised(list) == Distinct([i \in DOMAIN list |-> Lower[list[i]]])

\* Mutant: a sender for each recipient, the recipients beyond are dropped.
MutPlannedRows(in) ==
    LET to == Normalised(in.recipients)  ids == Distinct(in.senders)
    IN [i \in DOMAIN to \cap DOMAIN ids |-> [to |-> to[i], sender |-> ids[i]]]

\* plannedRows: the senders take turns.
PlannedRows(in) ==
    LET to == Normalised(in.recipients)  ids == Distinct(in.senders)
    IN [i \in DOMAIN to |-> [to |-> to[i],
                             sender |-> ids[((i - 1) % Len(ids)) + 1]]]

\* @@unique([campaignId, toEmail])
Collide(rows) ==
    \E i, j \in DOMAIN rows : i # j /\ rows[i].to = rows[j].to

-------------------------------------------------------------------------------

\* A request comes in; without a key there is no fast path.
Receive(q, in) ==
    /\ stage[q] = "idle"
    /\ input' = [input EXCEPT ![q] = in]
    /\ Goto(q, IF in.key = NoKey THEN "check" ELSE "lookup")
    /\ UNCHANGED <<campaigns, active, result, created>>

\* Mutant: the campaign read is not checked for null.
MutFind(q, otherwise) ==
    LET found == WithKey(input[q].user, input[q].key) IN
    /\ Goto(q, "answered")
    /\ result' \in { [result EXCEPT ![q] = c] :
                        c \in IF found = {} THEN {NoCampaign} ELSE found }
    /\ UNCHANGED <<campaigns, active, input, created>>

\* findByIdempotencyKey: found, the campaign is the answer.
Find(q, otherwise) ==
    LET found == WithKey(input[q].user, input[q].key) IN
    /\ \/ /\ found = {}
          /\ Goto(q, otherwise)
          /\ UNCHANGED result
       \/ \E c \in found :
          /\ Goto(q, "answered")
          /\ result' = [result EXCEPT ![q] = c]
    /\ UNCHANGED <<campaigns, active, input, created>>

\* The fast path.
LookUp(q) == stage[q] = "lookup" /\ Find(q, "check")

\* Mutant: one sender found is enough.
MutSendersActive(q) == ToSet(input[q].senders) \cap active # {}

SendersActive(q) == ToSet(input[q].senders) \subseteq active

CheckSenders(q) ==
    /\ stage[q] = "check"
    /\ Goto(q, IF SendersActive(q) THEN "commit" ELSE "rejected")
    /\ UNCHANGED <<campaigns, active, input, result, created>>

\* The transaction inserts the campaign with all its rows; the reply to its
\* commit may be lost, which ends the request like any error but P2002.
Commit(q) ==
    LET in == input[q]  rows == PlannedRows(in) IN
    /\ stage[q] = "commit"
    /\ ~KeyTaken(in.user, in.key) /\ ~Collide(rows)
    /\ \E c \in Campaigns :
        /\ ~Exists(c)
        /\ campaigns' = [campaigns EXCEPT ![c] =
                           [owner |-> in.user, key |-> in.key, rows |-> rows]]
        /\ \/ /\ Goto(q, "enqueue")
              /\ result' = [result EXCEPT ![q] = c]
              /\ created' = [created EXCEPT ![q] = TRUE]
           \/ /\ "db" \in Events
              /\ Goto(q, "failed")
              /\ UNCHANGED <<result, created>>
    /\ UNCHANGED <<active, input>>

\* P2002: with a key the request looks its campaign up, else it rethrows.
UniqueViolation(q) ==
    /\ stage[q] = "commit"
    /\ \/ KeyTaken(input[q].user, input[q].key)
       \/ Collide(PlannedRows(input[q]))
    /\ Goto(q, IF input[q].key # NoKey THEN "recover" ELSE "conflict")
    /\ UNCHANGED <<campaigns, active, input, result, created>>

\* The catch block: the violation is rethrown only when no campaign is found.
Recover(q) == stage[q] = "recover" /\ Find(q, "conflict")

\* The rows are read back and enqueued, then the request is answered.
Enqueue(q) ==
    /\ stage[q] = "enqueue"
    /\ Goto(q, "answered") \/ ("redis" \in Events /\ Goto(q, "failed"))
    /\ UNCHANGED <<campaigns, active, input, result, created>>

TransactionFails(q) ==
    /\ "db" \in Events
    /\ stage[q] = "commit"
    /\ Goto(q, "failed")
    /\ UNCHANGED <<campaigns, active, input, result, created>>

\* The API process is killed with all the requests it is serving.
InService(q) == stage[q] \notin Answered \cup { "idle", "lost" }
ApiCrash ==
    /\ "apiCrash" \in Events
    /\ \E q \in Requests : InService(q)
    /\ stage' = [q \in Requests |-> IF InService(q) THEN "lost" ELSE stage[q]]
    /\ UNCHANGED <<campaigns, active, input, result, created>>

\* A sender is deactivated, or activated again, by its owner.
ToggleSender(s) ==
    /\ "senders" \in Events
    /\ active' = (active \ {s}) \cup ({s} \ active)
    /\ UNCHANGED <<campaigns, stage, input, result, created>>

Serve(q) ==
    \/ LookUp(q) \/ CheckSenders(q) \/ Commit(q) \/ UniqueViolation(q)
    \/ Recover(q) \/ Enqueue(q)

Next ==
    \/ \E q \in Requests, in \in Bodies : Receive(q, in)
    \/ \E q \in Requests : Serve(q) \/ TransactionFails(q)
    \/ ApiCrash
    \/ \E s \in Senders : ToggleSender(s)

Spec == Init /\ [][Next]_vars

-------------------------------------------------------------------------------
(* Safety *)

\* A client that repeats a key, at once or after an answer was lost, is always
\* answered with the same campaign, which one answer at most reports as new;
\* the same key of another user is another campaign.
IdempotentReplies ==
    \A p, q \in Requests :
        /\ stage[p] = "answered" /\ stage[q] = "answered"
        /\ input[p].key # NoKey /\ input[p].key = input[q].key
        => /\ input[p].user = input[q].user <=> result[p] = result[q]
           /\ created[p] /\ created[q] /\ input[p].user = input[q].user => p = q

\* Whatever violated a unique index was the request's own key: the loser of a
\* race finds the winner's campaign, and recipients never collide.
NoConflict == \A q \in Requests : stage[q] # "conflict"
===============================================================================
