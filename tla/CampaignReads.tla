---------------------------- MODULE CampaignReads ----------------------------
(***************************************************************************)
(* The read side of campaignService.ts: keyset pages over the EmailJob and *)
(* Campaign rows of one user, and the tallies by status, each read in one  *)
(* statement while workers, cancellations and new campaigns change the     *)
(* rows.  An anchor is looked up first, in a statement of its own; what it *)
(* reads of a row of this listing never changes, so the two are one step.  *)
(***************************************************************************)
EXTENDS Lists, FiniteSetsExt, RowStatus

CONSTANTS
    Jobs,         \* EmailJob ids, numbers as their order breaks ties
    CampaignOf,   \* the campaign of a job; campaigns are numbers too
    CreatedAt,    \* Campaign.createdAt
    ScheduledAt,  \* EmailJob.scheduledAt
    Matches,      \* the jobs a search text matches
    Start,        \* the tables a behaviour may begin with
    Limit,        \* the page size
    MaxChanges,   \* bound: changes of rows in one behaviour
    Null          \* no cursor, no filter

VARIABLES
    status,   \* EmailJob.status; "ABSENT" is not inserted yet
    sentAt,   \* EmailJob.sentAt; 0 is NULL
    changes   \* bound: changes so far

tableVars == <<status, sentAt, changes>>

Searches == DOMAIN Matches
Campaigns == { CampaignOf[j] : j \in Jobs }
EmailStatuses == { "SCHEDULED", "PROCESSING", "SENT", "FAILED", "CANCELLED" }

ASSUME ReadsAssumption ==
    /\ Jobs \subseteq Nat \ {0} /\ IsFiniteSet(Jobs)
    /\ Null \notin Jobs /\ Null \notin Campaigns /\ Null \notin EmailStatuses
    /\ Limit \in Nat \ {0} /\ MaxChanges \in Nat
    /\ Campaigns \subseteq Nat
    /\ ScheduledAt \in [Jobs -> Nat] /\ CreatedAt \in [Campaigns -> Nat]
    /\ Matches \in [Searches -> SUBSET Jobs]
    /\ \A t \in Start : /\ t.status \in [Jobs -> EmailStatuses \cup { "ABSENT" }]
                        /\ t.sentAt \in [Jobs -> Nat]
                        /\ \A j \in Jobs : t.sentAt[j] # 0 <=> t.status[j] = "SENT"

TableTypeOK ==
    /\ status \in [Jobs -> EmailStatuses \cup { "ABSENT" }]
    /\ sentAt \in [Jobs -> Nat]
    /\ \A j \in Jobs : sentAt[j] # 0 <=> status[j] = "SENT"
    /\ changes \in 0 .. MaxChanges

TableInit ==
    /\ \E t \in Start : status = t.status /\ sentAt = t.sentAt
    /\ changes = 0

Inserted == { j \in Jobs : status[j] # "ABSENT" }

-------------------------------------------------------------------------------
(* The rows change *)

\* The transaction of createCampaign.
CampaignAppears(c) ==
    /\ \A j \in Jobs : CampaignOf[j] = c => status[j] = "ABSENT"
    /\ status' = [j \in Jobs |-> IF CampaignOf[j] = c THEN "SCHEDULED" ELSE status[j]]
    /\ UNCHANGED sentAt

Latest == Max({ sentAt[j] : j \in Jobs })

\* A worker reads its clock before it writes SENT, and workers finish in any
\* order: two sends may get the same time, and a later write an earlier one.
RowMoves(j) ==
    \E next \in EmailStatuses :
        /\ MayMove(status[j], next)
        /\ status' = [status EXCEPT ![j] = next]
        /\ IF next # "SENT" THEN UNCHANGED sentAt
           ELSE \E t \in 1 .. Latest + 1 : sentAt' = [sentAt EXCEPT ![j] = t]

TableChanges ==
    /\ changes < MaxChanges
    /\ changes' = changes + 1
    /\ \/ \E c \in Campaigns : CampaignAppears(c)
       \/ \E j \in Jobs : RowMoves(j)

-------------------------------------------------------------------------------
(* Pages *)

\* Of the sorted rows that follow the anchor, at most Limit; the row taken
\* beyond the limit tells whether there is another page.
Page(sorted) ==
    LET hasMore == Len(sorted) > Limit
        page == IF hasMore THEN SubSeq(sorted, 1, Limit) ELSE sorted
    IN [items |-> page, nextCursor |-> IF hasMore THEN Last(page) ELSE Null]

\* orderBy [sentAt desc, id desc] and [scheduledAt asc, id asc].
SentLater(j, k) == sentAt[j] > sentAt[k] \/ (sentAt[j] = sentAt[k] /\ j > k)
DueEarlier(j, k) ==
    \/ ScheduledAt[j] < ScheduledAt[k]
    \/ ScheduledAt[j] = ScheduledAt[k] /\ j < k
Earlier(filter, j, k) == IF filter = "SENT" THEN SentLater(j, k) ELSE DueEarlier(j, k)
Arranged(filter, rows) == Sorted(rows, LAMBDA j, k : Earlier(filter, j, k))

\* Mutant: ties with the anchor are left out.
MutFollows(filter, anchor, j) ==
    IF filter = "SENT" /\ sentAt[anchor] # 0 THEN sentAt[j] < sentAt[anchor]
                                             ELSE ScheduledAt[j] > ScheduledAt[anchor]

\* cursorWhere: by sentAt only when the anchor has one.
Follows(filter, anchor, j) ==
    IF filter = "SENT" /\ sentAt[anchor] # 0 THEN SentLater(anchor, j)
                                             ELSE DueEarlier(anchor, j)

\* Mutant: the anchor is looked up with the filter of the list.
MutAnchorFound(filter, cursor) == cursor # Null /\ status[cursor] = filter

\* The anchor is looked up by its id alone; unknown, it yields a first page.
AnchorFound(filter, cursor) == cursor # Null /\ status[cursor] # "ABSENT"

\* baseWhere: the rows of a tab that match the search.
InTab(filter) == { j \in Inserted : filter # Null => status[j] = filter }
Listed(filter, search) == InTab(filter) \cap Matches[search]

\* listAllJobs.  The search and the cursor are both spread into the where clause
\* under the key OR: with an anchor the search is not part of it any more.
ListAllJobs(filter, search, cursor) ==
    LET rows == IF AnchorFound(filter, cursor)
                THEN { j \in InTab(filter) : Follows(filter, cursor, j) }
                ELSE Listed(filter, search)
    IN Page(Arranged(filter, rows))

\* groupBy status over all the user's rows.
Counts == [s \in EmailStatuses |-> Cardinality({ j \in Inserted : status[j] = s })]

\* listCampaigns: newest first; a campaign is there with its rows.
Newer(c, d) == CreatedAt[c] > CreatedAt[d] \/ (CreatedAt[c] = CreatedAt[d] /\ c > d)
ByCreatedAt(cs) == Sorted(cs, Newer)

\* Mutant: the tie-breaker is left out.
MutOlder(anchor, c) == CreatedAt[c] < CreatedAt[anchor]

Older(anchor, c) == Newer(anchor, c)

Created == { CampaignOf[j] : j \in Inserted }
ListCampaigns(cursor) ==
    Page(ByCreatedAt({ c \in Created : cursor \in Created => Older(cursor, c) }))

\* getCampaignJobs: by sequence number, here the order of ids in a campaign.
RowsOf(c, filter) ==
    { j \in Inserted : CampaignOf[j] = c /\ (filter # Null => status[j] = filter) }
GetCampaignJobs(c, filter, cursor) ==
    Page(Ascending({ j \in RowsOf(c, filter) :
             cursor # Null /\ cursor \in RowsOf(c, Null) => j > cursor }))

-------------------------------------------------------------------------------
(* Properties *)

\* What a client gets that follows the cursors of a listing, given as a function
\* of the cursor, to the end.
Walk(list) ==
    LET pages[n \in 0 .. Cardinality(Jobs)] ==
            IF n = 0 THEN list[Null]
            ELSE LET prev == pages[n - 1] IN
                 IF prev.nextCursor = Null THEN prev
                 ELSE LET next == list[prev.nextCursor]
                      IN [items |-> prev.items \o next.items,
                          nextCursor |-> next.nextCursor]
    IN pages[Cardinality(Jobs)].items

AddsUp(walk, S) == Len(walk) = Cardinality(S) /\ ToSet(walk) = S

\* Each listing, read to its end while nothing changes, has every row once.
CampaignPages == [cursor \in Created \cup {Null} |-> ListCampaigns(cursor)]
JobPages(c, filter) ==
    [cursor \in Inserted \cup {Null} |-> GetCampaignJobs(c, filter, cursor)]

PagesAddUp ==
    /\ AddsUp(Walk(CampaignPages), Created)
    /\ \A c \in Created, filter \in EmailStatuses \cup {Null} :
          AddsUp(Walk(JobPages(c, filter)), RowsOf(c, filter))
===============================================================================
