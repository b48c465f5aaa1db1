------------------------------- MODULE Dashboard -------------------------------
(***************************************************************************)
(* The list of emails, frontend app/(app)/campaigns/page.tsx.  Every       *)
(* change of the tab or the search text and every press of Refresh sends   *)
(* a load; "Load more" sends a request for the page after the cursor.  The *)
(* requests carry the state of the page when they are sent, are served     *)
(* against the rows of that moment, and come back in any order.            *)
(***************************************************************************)
EXTENDS CampaignReads

CONSTANT MaxRequests   \* bound: requests of one visit to the page

ASSUME ListAssumption == MaxRequests \in Nat

VARIABLES
    query,        \* the tab and the search text
    items,        \* the rows of the list
    cursor,
    loading,
    loadingMore,
    failed,       \* error
    requests,     \* every request of this visit, in the order they were sent
    base,         \* the load whose reply the list begins with; 0 is none
    mixed         \* a page was added to another list than it was asked for

listVars == <<query, items, cursor, loading, loadingMore, failed, requests, base,
              mixed>>

Queries == [tab : { "SCHEDULED", "SENT" }, search : Searches]
NoPage == [items |-> <<>>, nextCursor |-> Null]

\* steady: the rows that have been on the list all the time since it was read.
Request(kind, q, c) ==
    [kind |-> kind, query |-> q, cursor |-> c, on |-> base, state |-> "sent",
     page |-> NoPage, steady |-> {}]

ListTypeOK ==
    /\ query \in Queries
    /\ items \in Seq(Jobs)
    /\ cursor \in Jobs \cup {Null}
    /\ loading \in BOOLEAN /\ loadingMore \in BOOLEAN
    /\ failed \in BOOLEAN /\ mixed \in BOOLEAN
    /\ Len(requests) \in 0 .. MaxRequests
    /\ base \in 0 .. Len(requests)
    /\ \A i \in DOMAIN requests :
          /\ requests[i].kind \in { "load", "more" }
          /\ requests[i].state \in { "sent", "served", "done" }
          /\ requests[i].kind = "more" <=> requests[i].cursor # Null

\* The page before its first effect.
ListMounts ==
    /\ query \in { q \in Queries : q.search = "" }
    /\ items = <<>> /\ cursor = Null
    /\ loading = TRUE /\ loadingMore = FALSE /\ failed = FALSE
    /\ base = 0 /\ mixed = FALSE
    /\ requests = <<>>

-------------------------------------------------------------------------------
(* What the user does *)

MayAsk == Len(requests) < MaxRequests

\* loadJobs, up to the request.
LoadJobs(q) ==
    /\ MayAsk
    /\ loading' = TRUE
    /\ failed' = FALSE
    /\ requests' = Append(requests, Request("load", q, Null))
    /\ UNCHANGED <<items, cursor, loadingMore, base, mixed>>

\* A click on a tab or a key in the search box; the effect then loads.
SetQuery(q) ==
    /\ requests # <<>>
    /\ q # query /\ (q.tab = query.tab \/ q.search = query.search)
    /\ query' = q
    /\ LoadJobs(q)

\* The first effect, and the buttons Refresh and Filter.
Refresh == LoadJobs(query) /\ UNCHANGED query

\* The button is there while there is a cursor, whatever else is under way.
LoadMore ==
    /\ MayAsk
    /\ cursor # Null
    /\ ~loadingMore
    /\ loadingMore' = TRUE
    /\ requests' = Append(requests, Request("more", query, cursor))
    /\ UNCHANGED <<query, items, cursor, loading, failed, base, mixed>>

-------------------------------------------------------------------------------
(* What comes back *)

\* The API runs listAllJobs for the request.
Serve(i) ==
    /\ requests[i].state = "sent"
    /\ LET q == requests[i].query IN
       requests' = [requests EXCEPT
           ![i].state = "served",
           ![i].page = ListAllJobs(q.tab, q.search, requests[i].cursor),
           ![i].steady = IF requests[i].kind = "load" THEN Listed(q.tab, q.search)
                                                      ELSE {}]
    /\ UNCHANGED <<query, items, cursor, loading, loadingMore, failed, base, mixed>>

Settled(i) ==
    requests' = [requests EXCEPT ![i].state = "done", ![i].page = NoPage]

LoadArrives(i) ==
    /\ requests[i].kind = "load" /\ requests[i].state = "served"
    /\ Settled(i)
    /\ items' = requests[i].page.items
    /\ cursor' = requests[i].page.nextCursor
    /\ loading' = FALSE
    /\ base' = i /\ mixed' = FALSE
    /\ UNCHANGED <<query, loadingMore, failed>>

MoreArrives(i) ==
    /\ requests[i].kind = "more" /\ requests[i].state = "served"
    /\ Settled(i)
    /\ items' = items \o requests[i].page.items
    /\ cursor' = requests[i].page.nextCursor
    /\ loadingMore' = FALSE
    /\ mixed' = (mixed \/ requests[i].on # base)
    /\ UNCHANGED <<query, loading, failed, base>>

\* Mutant: no finally, the spinner stays.
MutLoadFails(i) ==
    /\ requests[i].kind = "load" /\ requests[i].state = "sent"
    /\ Settled(i)
    /\ failed' = TRUE
    /\ UNCHANGED <<query, items, cursor, loading, loadingMore, base, mixed>>

\* A read changes nothing: a reply that is lost is a request that is lost.
LoadFails(i) ==
    /\ requests[i].kind = "load" /\ requests[i].state = "sent"
    /\ Settled(i)
    /\ failed' = TRUE
    /\ loading' = FALSE
    /\ UNCHANGED <<query, items, cursor, loadingMore, base, mixed>>

MoreFails(i) ==
    /\ requests[i].kind = "more" /\ requests[i].state = "sent"
    /\ Settled(i)
    /\ loadingMore' = FALSE
    /\ UNCHANGED <<query, items, cursor, loading, failed, base, mixed>>

Reply(i) == LoadArrives(i) \/ MoreArrives(i) \/ LoadFails(i) \/ MoreFails(i)

ListNext ==
    \/ \E q \in Queries : SetQuery(q)
    \/ Refresh \/ LoadMore
    \/ \E i \in DOMAIN requests : Serve(i) \/ Reply(i)

\* A row that changes its status is no longer steady on any list.
SteadyOnly ==
    requests' = [i \in DOMAIN requests |->
                    [requests[i] EXCEPT !.steady = { j \in @ : status'[j] = status[j] }]]

-------------------------------------------------------------------------------
(* Properties *)

Newest == Max({0} \cup { i \in DOMAIN requests : requests[i].kind = "load" })

\* The list is shown, its first page answers the newest load, and its other
\* pages were asked for from this list.
InOrder == ~loading /\ ~failed /\ base = Newest /\ ~mixed

Precedes(j, k) == Earlier(query.tab, j, k)

\* While replies come back in order, the rows on the list are in strict order:
\* none is listed twice, whatever happens to the rows between the pages, and
\* although a further page of a search is read from other rows than the first.
ListIsSorted ==
    InOrder => \A m, n \in DOMAIN items : m < n => Precedes(items[m], items[n])

\* While replies come back in order, a row that has been in the tab and has
\* matched the search since the first page was read is on the list, or after the
\* cursor: pages that are read at different times skip nothing, although rows
\* leave and join between them.
NothingIsSkipped ==
    InOrder =>
        \A j \in requests[base].steady :
            \/ j \in ToSet(items)
            \/ cursor # Null /\ Precedes(cursor, j)

\* What listAllJobs says of itself, a search across recipient and subject beside
\* keyset pagination: every row on the list matches the text in the search box.
SearchIsKept == InOrder => ToSet(items) \subseteq Matches[query.search]
===============================================================================
