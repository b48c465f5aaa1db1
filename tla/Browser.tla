-------------------------------- MODULE Browser --------------------------------
(***************************************************************************)
(* The frontend's reading side against the listings of the API: one part   *)
(* of it is watched in a behaviour, the list of emails, the page of one,   *)
(* the badges or the session.  They share nothing but the rows, which      *)
(* change all along.                                                       *)
(***************************************************************************)
EXTENDS Dashboard, EmailPage, AppShell, Session

VARIABLE watched

browserVars == <<listVars, detailVars, shellVars, sessionVars, tableVars, watched>>

Init ==
    /\ watched \in { "list", "email", "badges", "session" }
    /\ ListMounts /\ DetailMounts /\ ShellMounts
    /\ TableInit /\ SessionInit
    /\ watched # "session" => ~blocked /\ token = Nobody /\ cookie = Nobody

ListStep ==
    /\ watched = "list"
    /\ ListNext
    /\ UNCHANGED <<detailVars, shellVars, sessionVars, tableVars, watched>>

EmailStep ==
    /\ watched = "email"
    /\ DetailNext
    /\ UNCHANGED <<listVars, shellVars, sessionVars, tableVars, watched>>

BadgesStep ==
    /\ watched = "badges"
    /\ ShellNext
    /\ UNCHANGED <<listVars, detailVars, sessionVars, tableVars, watched>>

SessionStep ==
    /\ watched = "session"
    /\ SessionNext
    /\ UNCHANGED <<listVars, detailVars, shellVars, tableVars, watched>>

RowStep ==
    /\ watched # "session"
    /\ TableChanges /\ SteadyOnly
    /\ UNCHANGED <<query, items, cursor, loading, loadingMore, failed, base, mixed>>
    /\ UNCHANGED <<detailVars, shellVars, sessionVars, watched>>

Next == ListStep \/ EmailStep \/ BadgesStep \/ SessionStep \/ RowStep

\* The interval keeps firing, not every poll fails, and replies arrive.
Fairness ==
    /\ WF_browserVars(BadgesStep /\ Poll)
    /\ SF_browserVars(BadgesStep /\ \E i \in DOMAIN polls : ServePoll(i))
    /\ WF_browserVars(BadgesStep /\ \E i \in DOMAIN polls : PollArrives(i))

Spec == Init /\ [][Next]_browserVars /\ Fairness

-------------------------------------------------------------------------------
(* Properties *)

\* Types of the four parts and of the rows; a signed-in user is known.
TypeOK ==
    /\ TableTypeOK /\ ListTypeOK /\ DetailTypeOK /\ ShellTypeOK /\ SessionTypeOK
    /\ watched \in { "list", "email", "badges", "session" }

\* The campaigns, and the rows of one, read page by page to the end while
\* nothing changes, come out complete and once each: ties in the creation time
\* and pages that end at the last row included.  (The rows take the same values
\* whatever part is watched.)
ListingsAddUp == watched = "badges" => PagesAddUp

\* Whatever says that it is loading has a request of its own under way: no
\* spinner and no disabled button is left behind by a call that was answered,
\* refused, lost, overtaken by another or abandoned with its page.
SpinnersAreBacked ==
    /\ loading /\ requests # <<>> =>
          \E i \in DOMAIN requests :
             requests[i].kind = "load" /\ requests[i].state # "done"
    /\ loadingMore =>
          \E i \in DOMAIN requests :
             requests[i].kind = "more" /\ requests[i].state # "done"
    /\ detail.loading /\ fetches # <<>> =>
          \E i \in DOMAIN fetches : fetches[i].active /\ fetches[i].state # "done"
    /\ authStatus = "loading" => Pending("me") # {}
    /\ busy => \E c \in Pending("login") : c.n = logins

\* Once the rows stop changing the badges come to show their counts and keep
\* showing them, although replies overtake each other and polls fail.
BadgesCatchUp ==
    watched = "badges" /\ <>[][FALSE]_tableVars => <>[]BadgesRight
===============================================================================
