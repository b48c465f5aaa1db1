----------------------------- MODULE BrowserProofs -----------------------------
(***************************************************************************)
(* The reading side for any rows, users, searches and page size, and any   *)
(* number of requests.  Each part has an invariant of its own, which the   *)
(* steps of the others keep because the parts share nothing but the rows.  *)
(***************************************************************************)
EXTENDS Browser, DataLemmas

-------------------------------------------------------------------------------
(* The session.  A /me under way carries what is stored now, unless it was    *)
(* overtaken; an answered sign-out leaves nothing stored, overtaken or not.   *)

SessionInv ==
    /\ SessionTypeOK
    /\ \A c \in calls :
          /\ c.kind = "login" => c.who \in Users
          /\ c.kind = "me" /\ ~late => c.cookie = cookie /\ c.token = token
    /\ ShownUserIsServed
    /\ ~late => (signedOut => ~InApp)
    /\ signedOut => cookie = Nobody /\ token = Nobody
    /\ authStatus = "loading" => Pending("me") # {}
    /\ busy => \E c \in Pending("login") : c.n = logins

\* What a call carries does not change when it is joined by another.
LEMMA CallIs ==
    ASSUME NEW kind, NEW who, NEW n
    PROVE  LET c == Call(kind, who, n) IN
           /\ c.kind = kind /\ c.who = who /\ c.n = n
           /\ c.cookie = cookie /\ c.token = token
BY DEF Call

\* Every step of the session keeps what is known of it.
LEMMA SessionSteps ==
    ASSUME SessionInv, SessionNext
    PROVE  SessionInv'
<1> USE SessionAssumption
    DEF SessionInv, SessionTypeOK, ShownUserIsServed, InApp, Identified, Accounts, SetUser
<1>1. CASE Reload
  <2>1. PICK me : /\ calls' = {me} /\ me.kind = "me" /\ me.who = Nobody
                  /\ me.cookie = cookie /\ me.token = token
    BY <1>1, CallIs DEF Reload
  <2>2. SessionTypeOK'
    <3>1. reloads' \in 0 .. MaxReloads
      BY <1>1 DEF Reload
    <3>2. \A c \in calls' : /\ c.kind \in { "me", "login", "logout" }
                            /\ { c.cookie, c.token, c.who } \subseteq Accounts
      BY <2>1
    <3> QED BY <1>1, <3>1, <3>2 DEF Reload
  <2> QED BY <1>1, <2>1, <2>2 DEF Reload, Pending
<1>2. CASE Logout
  <2>1. PICK d : /\ calls' = calls \cup {d} /\ d.kind = "logout" /\ d.who = Nobody
                 /\ d.cookie = cookie /\ d.token = token
    BY <1>2, CallIs DEF Logout
  <2> QED BY <1>2, <2>1 DEF Logout, Pending
<1>3. ASSUME NEW who \in Users, Login(who)
      PROVE  SessionInv'
  <2>1. PICK d : /\ calls' = calls \cup {d} /\ d.kind = "login" /\ d.who = who
                 /\ d.n = logins' /\ d.cookie = cookie /\ d.token = token
    BY <1>3, CallIs DEF Login
  <2>2. SessionTypeOK'
    BY <1>3, <2>1 DEF Login
  <2> QED BY <1>3, <2>1, <2>2 DEF Login, Pending
<1>4. ASSUME NEW c \in calls, MeArrives(c)
      PROVE  SessionInv'
  BY <1>4 DEF MeArrives, Pending
<1>5. ASSUME NEW c \in calls, MeFails(c)
      PROVE  SessionInv'
  BY <1>5 DEF MeFails, Pending
<1>6. ASSUME NEW c \in calls, LoginArrives(c)
      PROVE  SessionInv'
  BY <1>6 DEF LoginArrives, Stored, Pending
<1>7. ASSUME NEW c \in calls, LoginFails(c)
      PROVE  SessionInv'
  BY <1>7 DEF LoginFails, Pending
<1>8. ASSUME NEW c \in calls, LogoutArrives(c)
      PROVE  SessionInv'
  BY <1>8 DEF LogoutArrives, Forgotten, Pending
<1>9. ASSUME NEW c \in calls, LogoutFails(c)
      PROVE  SessionInv'
  BY <1>9 DEF LogoutFails, Forgotten, Pending
<1> QED BY <1>1, <1>2, <1>3, <1>4, <1>5, <1>6, <1>7, <1>8, <1>9 DEF SessionNext

-------------------------------------------------------------------------------
(* The page of one email.  At most one fetch is active, the one for the       *)
(* address.                                                                   *)

Details == [id : Jobs \cup {Null}, job : Jobs \cup {Null},
            status : EmailStatuses \cup { "ABSENT", Null },
            loading : BOOLEAN, error : BOOLEAN]
Fetches == [id : Jobs, active : BOOLEAN,
            state : { "sent", "served", "failed", "done" },
            status : EmailStatuses \cup { "ABSENT", Null }]

EmailInv ==
    /\ detail \in Details
    /\ fetches \in Seq(Fetches) /\ Len(fetches) <= MaxFetches
    /\ \A i \in DOMAIN fetches : fetches[i].active => fetches[i].id = detail.id
    /\ \A i, k \in DOMAIN fetches : fetches[i].active /\ fetches[k].active => i = k
    /\ ShowsItsAddress
    /\ detail.loading /\ fetches # <<>> =>
          \E i \in DOMAIN fetches : fetches[i].active /\ fetches[i].state # "done"

\* A new address leaves the fetch for it as the only active one.
LEMMA OpenEmailKeeps ==
    ASSUME EmailInv, NEW id \in Jobs, OpenEmail(id)
    PROVE  EmailInv'
<1> DEFINE n == Len(fetches)
<1>1. /\ n \in Nat /\ n + 1 <= MaxFetches
      /\ \A i \in 1 .. n : fetches[i] \in Fetches
      /\ DOMAIN fetches = 1 .. n
  BY DetailAssumption DEF EmailInv, OpenEmail
<1>2. Fetch(id) \in Fetches
  BY DEF Fetch, Fetches
<1>3. /\ DOMAIN fetches' = 1 .. n + 1 /\ Len(fetches') = n + 1
      /\ fetches' \in Seq(Fetches)
      /\ \A i \in 1 .. n : ~fetches'[i].active
      /\ fetches'[n + 1] = Fetch(id)
  <2> DEFINE old == [i \in DOMAIN fetches |-> [fetches[i] EXCEPT !.active = FALSE]]
  <2>1. /\ old \in Seq(Fetches) /\ Len(old) = n
        /\ \A i \in 1 .. n : ~old[i].active
    <3>1. \A i \in 1 .. n : /\ [fetches[i] EXCEPT !.active = FALSE] \in Fetches
                            /\ ~[fetches[i] EXCEPT !.active = FALSE].active
      BY <1>1 DEF Fetches
    <3>2. /\ DOMAIN old = 1 .. n
          /\ \A i \in 1 .. n : old[i] = [fetches[i] EXCEPT !.active = FALSE]
      BY <1>1
    <3>3. old \in [1 .. n -> Fetches] /\ \A i \in 1 .. n : ~old[i].active
      BY <3>1, <3>2
    <3> HIDE DEF old
    <3> QED BY <1>1, <3>3, FunctionIsList
  <2>2. fetches' = Append(old, Fetch(id))
    BY DEF OpenEmail
  <2> HIDE DEF old
  <2> QED BY <1>1, <1>2, <2>1, <2>2
<1>4. detail' = [detail EXCEPT !.id = id, !.loading = TRUE, !.error = FALSE]
  BY DEF OpenEmail
<1>5. detail' \in Details /\ detail'.id = id /\ detail'.loading
  BY <1>4 DEF EmailInv, Details
<1>6. Fetch(id).active /\ Fetch(id).id = id /\ Fetch(id).state = "sent"
  BY DEF Fetch
<1>7. \A i \in DOMAIN fetches' : fetches'[i].active => i = n + 1
  BY <1>1, <1>3
<1> QED BY <1>1, <1>3, <1>5, <1>6, <1>7 DEF EmailInv, ShowsItsAddress

\* A fetch goes on, and keeps its address and its flag.
LEMMA FetchMoves ==
    ASSUME EmailInv, NEW i \in DOMAIN fetches, NEW s \in { "served", "failed", "done" },
           NEW st \in EmailStatuses \cup { "ABSENT", Null },
           fetches' = [fetches EXCEPT ![i].state = s, ![i].status = st]
    PROVE  /\ fetches' \in Seq(Fetches) /\ Len(fetches') = Len(fetches)
           /\ fetches'[i].state = s
           /\ \A k \in DOMAIN fetches :
                 /\ fetches'[k].id = fetches[k].id
                 /\ fetches'[k].active = fetches[k].active
                 /\ k # i => fetches'[k] = fetches[k]
<1> DEFINE next == [fetches[i] EXCEPT !.state = s, !.status = st]
<1>1. fetches[i] \in Fetches
  BY DEF EmailInv
<1>2. /\ next \in Fetches /\ next.state = s /\ next.id = fetches[i].id
      /\ next.active = fetches[i].active
  BY <1>1 DEF Fetches
<1>3. fetches' = [fetches EXCEPT ![i] = next]
  BY DEF EmailInv
<1>4. /\ fetches \in Seq(Fetches) /\ DOMAIN fetches = 1 .. Len(fetches)
      /\ Len(fetches) \in Nat
  BY LenProperties DEF EmailInv
<1> HIDE DEF next
<1>5. /\ fetches' \in Seq(Fetches) /\ Len(fetches') = Len(fetches)
      /\ fetches'[i] = next
      /\ \A k \in DOMAIN fetches : k # i => fetches'[k] = fetches[k]
  <2>1. next \in Fetches /\ i \in 1 .. Len(fetches)
    BY <1>2, <1>4
  <2>2. /\ [fetches EXCEPT ![i] = next] \in Seq(Fetches)
        /\ Len([fetches EXCEPT ![i] = next]) = Len(fetches)
        /\ \A j \in 1 .. Len(fetches) :
              [fetches EXCEPT ![i] = next][j] = IF j = i THEN next ELSE fetches[j]
    BY <1>4, <2>1, ExceptSeq
  <2> QED BY <1>3, <1>4, <2>1, <2>2
<1> QED BY <1>2, <1>5

\* What a fetch does that is not heeded, or not answered yet, changes nothing.
LEMMA MoveKeeps ==
    ASSUME EmailInv, NEW i \in DOMAIN fetches, NEW s \in { "served", "failed", "done" },
           NEW st \in EmailStatuses \cup { "ABSENT", Null },
           fetches' = [fetches EXCEPT ![i].state = s, ![i].status = st],
           UNCHANGED detail, s = "done" => ~fetches[i].active
    PROVE  EmailInv'
<1>1. /\ fetches' \in Seq(Fetches) /\ Len(fetches') = Len(fetches)
      /\ DOMAIN fetches' = DOMAIN fetches
      /\ fetches'[i].state = s
      /\ \A k \in DOMAIN fetches :
            /\ fetches'[k].id = fetches[k].id
            /\ fetches'[k].active = fetches[k].active
            /\ k # i => fetches'[k] = fetches[k]
  BY FetchMoves DEF EmailInv
<1>2. detail.loading =>
         \E k \in DOMAIN fetches' : fetches'[k].active /\ fetches'[k].state # "done"
  <2> SUFFICES ASSUME detail.loading
               PROVE  \E k \in DOMAIN fetches' :
                         fetches'[k].active /\ fetches'[k].state # "done"
    OBVIOUS
  <2>1. PICK k \in DOMAIN fetches : fetches[k].active /\ fetches[k].state # "done"
    BY DEF EmailInv
  <2> QED BY <1>1, <2>1
<1> QED BY <1>1, <1>2 DEF EmailInv, ShowsItsAddress

\* Every step of the page keeps what is known of it.
LEMMA EmailSteps ==
    ASSUME TableTypeOK, EmailInv, DetailNext
    PROVE  EmailInv'
<1>1. ASSUME NEW i \in DOMAIN fetches, ServeJob(i) \/ FetchIsLost(i)
      PROVE  EmailInv'
  <2>1. PICK s \in { "served", "failed" }, st \in EmailStatuses \cup { "ABSENT", Null } :
           fetches' = [fetches EXCEPT ![i].state = s, ![i].status = st]
    <3>1. CASE FetchIsLost(i)
      BY <3>1 DEF FetchIsLost
    <3>2. CASE ServeJob(i)
      <4>1. status[fetches[i].id] \in EmailStatuses \cup { "ABSENT", Null }
        <5>1. fetches[i].id \in Jobs
          <6>1. fetches[i] \in Fetches
            BY DEF EmailInv
          <6> QED BY <6>1 DEF Fetches
        <5> QED BY <5>1 DEF TableTypeOK
      <4> QED BY <3>2, <4>1 DEF ServeJob
    <3> QED BY <1>1, <3>1, <3>2
  <2>2. UNCHANGED detail
    BY <1>1 DEF ServeJob, FetchIsLost
  <2>3. s # "done"
    OBVIOUS
  <2> QED BY <2>1, <2>2, <2>3, MoveKeeps
<1>2. ASSUME NEW i \in DOMAIN fetches, JobSettles(i)
      PROVE  EmailInv'
  <2>1. fetches' = [fetches EXCEPT ![i].state = "done", ![i].status = Null]
    BY <1>2 DEF JobSettles
  <2>2. CASE ~fetches[i].active
    <3>1. UNCHANGED detail
      BY <1>2, <2>2 DEF JobSettles, Heeded
    <3> QED BY <2>1, <2>2, <3>1, MoveKeeps
  <2>3. CASE fetches[i].active
    <3>1. detail \in Details /\ fetches[i] \in Fetches
      BY DEF EmailInv
    <3>2. \/ detail' = [detail EXCEPT !.error = TRUE, !.loading = FALSE]
          \/ detail' = [detail EXCEPT !.job = fetches[i].id, !.status = fetches[i].status,
                                      !.loading = FALSE]
      BY <1>2, <2>3 DEF JobSettles, Heeded
    <3>3. /\ detail' \in Details /\ detail'.id = detail.id /\ ~detail'.loading
          /\ detail'.error \/ detail'.job = fetches[i].id
      BY <3>1, <3>2 DEF Details, Fetches
    <3>4. /\ fetches' \in Seq(Fetches) /\ Len(fetches') = Len(fetches)
          /\ DOMAIN fetches' = DOMAIN fetches
          /\ \A k \in DOMAIN fetches : /\ fetches'[k].id = fetches[k].id
                                      /\ fetches'[k].active = fetches[k].active
      BY <2>1, FetchMoves DEF EmailInv
    <3>5. fetches[i].id = detail.id
      BY <2>3 DEF EmailInv
    <3> QED BY <3>3, <3>4, <3>5 DEF EmailInv, ShowsItsAddress
  <2> QED BY <2>2, <2>3
<1> QED BY <1>1, <1>2, OpenEmailKeeps DEF DetailNext

-------------------------------------------------------------------------------
(* The badges *)

ShellInv ==
    /\ badges \in [scheduled : Nat, sent : Nat]
    /\ polls \in Seq({Null} \cup [scheduled : Nat, sent : Nat])
    /\ Len(polls) <= MaxPolls

\* Dropping one element of a sequence leaves a sequence that is shorter by one.
LEMMA RemoveAtShortens ==
    ASSUME NEW S, NEW seq \in Seq(S), NEW i \in DOMAIN seq
    PROVE  RemoveAt(seq, i) \in Seq(S) /\ Len(RemoveAt(seq, i)) = Len(seq) - 1
BY DEF RemoveAt

\* The counts are numbers.
LEMMA CountsAreNumbers ==
    Counts \in [EmailStatuses -> Nat] /\ Badges(Counts) \in [scheduled : Nat, sent : Nat]
<1>1. ASSUME NEW s \in EmailStatuses
      PROVE  Cardinality({ j \in Inserted : status[j] = s }) \in Nat
  BY ReadsAssumption, FS_CardinalityType, FS_Subset DEF Inserted
<1>2. Counts \in [EmailStatuses -> Nat]
  BY <1>1 DEF Counts
<1> QED BY <1>2 DEF Badges, EmailStatuses

\* Every step of the badges keeps their types.
LEMMA ShellSteps ==
    ASSUME ShellInv, ShellNext
    PROVE  ShellInv'
<1>1. CASE Poll
  BY <1>1, ShellAssumption DEF Poll, ShellInv
<1>2. ASSUME NEW i \in DOMAIN polls, ServePoll(i)
      PROVE  ShellInv'
  BY <1>2, CountsAreNumbers DEF ServePoll, ShellInv
<1>3. ASSUME NEW i \in DOMAIN polls, PollArrives(i) \/ PollFails(i)
      PROVE  ShellInv'
  <2>1. polls' = RemoveAt(polls, i) /\ (badges' = badges \/ badges' = polls[i])
    BY <1>3 DEF PollArrives, PollFails
  <2>2. badges' \in [scheduled : Nat, sent : Nat]
    BY <1>3 DEF PollArrives, PollFails, ShellInv
  <2> QED BY <2>1, <2>2, RemoveAtShortens, ShellAssumption DEF ShellInv
<1> QED BY <1>1, <1>2, <1>3 DEF ShellNext

-------------------------------------------------------------------------------
(* The rows *)

\* The latest time is a time.
LEMMA LatestIsATime ==
    ASSUME TableTypeOK, Jobs # {}
    PROVE  Latest \in Nat
<1> DEFINE S == { sentAt[j] : j \in Jobs }
<1>1. S \in SUBSET Int /\ S # {} /\ S \subseteq Nat
  BY DEF TableTypeOK
<1>2. IsFiniteSet(S)
  <2>1. sentAt \in Surjection(Jobs, S)
    <3>1. sentAt \in [Jobs -> S] /\ \A t \in S : \E j \in Jobs : sentAt[j] = t
      BY DEF TableTypeOK
    <3> QED BY <3>1 DEF Surjection
  <2> HIDE DEF S
  <2> QED BY <2>1, ReadsAssumption, FS_Surjection
<1>3. Latest = CHOOSE x \in S : \A y \in S : x >= y
  BY DEF Latest, Max
<1> HIDE DEF S
<1>4. PICK m \in S : \A x \in S : x <= m
  BY <1>1, <1>2, LeastAndGreatest
<1> QED BY <1>1, <1>3, <1>4

\* A row that was inserted stays, and a sent one stays as it is.
LEMMA RowsAdvance ==
    ASSUME TableTypeOK, TableChanges
    PROVE  /\ TableTypeOK'
           /\ \A j \in Jobs : status[j] # "ABSENT" => status'[j] # "ABSENT"
           /\ \A j \in Jobs : status[j] = "SENT" =>
                 status'[j] = "SENT" /\ sentAt'[j] = sentAt[j]
<1>1. changes' \in 0 .. MaxChanges
  BY ReadsAssumption DEF TableTypeOK, TableChanges
<1>2. CASE \E c \in Campaigns : CampaignAppears(c)
  BY <1>1, <1>2 DEF TableTypeOK, CampaignAppears, EmailStatuses
<1>3. ASSUME NEW j \in Jobs, NEW next \in EmailStatuses,
             MayMove(status[j], next),
             status' = [status EXCEPT ![j] = next],
             IF next # "SENT" THEN UNCHANGED sentAt
             ELSE \E t \in 1 .. Latest + 1 : sentAt' = [sentAt EXCEPT ![j] = t]
      PROVE  /\ TableTypeOK'
             /\ \A k \in Jobs : status[k] # "ABSENT" => status'[k] # "ABSENT"
             /\ \A k \in Jobs : status[k] = "SENT" =>
                   status'[k] = "SENT" /\ sentAt'[k] = sentAt[k]
  <2>1. status[j] # "SENT" /\ status[j] # "ABSENT" /\ next # "ABSENT"
    BY <1>3 DEF MayMove, EmailStatuses
  <2>2. CASE next # "SENT"
    BY <1>1, <1>3, <2>1, <2>2 DEF TableTypeOK
  <2>3. CASE next = "SENT"
    <3>1. PICK t \in 1 .. Latest + 1 : sentAt' = [sentAt EXCEPT ![j] = t]
      BY <1>3, <2>3
    <3>2. t \in Nat /\ t # 0
      BY LatestIsATime
    <3> QED BY <1>1, <1>3, <2>1, <2>3, <3>1, <3>2 DEF TableTypeOK
  <2> QED BY <2>2, <2>3
<1> QED BY <1>2, <1>3 DEF TableChanges, RowMoves

-------------------------------------------------------------------------------
(* Pages *)

Pages == [items : Seq(Jobs), nextCursor : Jobs \cup {Null}]

\* Both orders of the emails are strict and total.
LEMMA RowsAreOrdered ==
    ASSUME TableTypeOK, NEW filter
    PROVE  /\ \A j \in Jobs : ~Earlier(filter, j, j)
           /\ \A j, k \in Jobs : j # k => Earlier(filter, j, k) \/ Earlier(filter, k, j)
           /\ \A j, k, l \in Jobs :
                 Earlier(filter, j, k) /\ Earlier(filter, k, l) => Earlier(filter, j, l)
<1>1. \A j \in Jobs : j \in Nat /\ ScheduledAt[j] \in Nat /\ sentAt[j] \in Nat
  BY ReadsAssumption DEF TableTypeOK
<1>2. CASE filter = "SENT"
  BY <1>1, <1>2 DEF Earlier, SentLater
<1>3. CASE filter # "SENT"
  BY <1>1, <1>3 DEF Earlier, DueEarlier
<1> QED BY <1>2, <1>3

\* The rows of a list come out in their order, all of them.
LEMMA ArrangedSorts ==
    ASSUME TableTypeOK, NEW filter, NEW rows \in SUBSET Jobs
    PROVE  /\ Arranged(filter, rows) \in Seq(rows)
           /\ \A m, n \in DOMAIN Arranged(filter, rows) : m < n =>
                 Earlier(filter, Arranged(filter, rows)[m], Arranged(filter, rows)[n])
           /\ \A x \in rows : \E m \in DOMAIN Arranged(filter, rows) :
                 Arranged(filter, rows)[m] = x
<1> DEFINE n == Cardinality(rows)
           sorted == Arranged(filter, rows)
           before == [x \in rows |-> { y \in rows : Earlier(filter, y, x) }]
<1>1. IsFiniteSet(rows) /\ n \in Nat
  BY ReadsAssumption, FS_Subset, FS_CardinalityType
<1>2. /\ before \in [rows -> SUBSET rows]
      /\ \A x, y \in rows : x \in before[y] <=> Earlier(filter, x, y)
  OBVIOUS
<1>3. /\ \A x \in rows : x \notin before[x]
      /\ \A x, y \in rows : x # y => x \in before[y] \/ y \in before[x]
      /\ \A x, y \in rows : x \in before[y] => before[x] \subseteq before[y]
  <2> HIDE DEF before
  <2>1. /\ \A x \in rows : x \notin before[x]
        /\ \A x, y \in rows : x # y => x \in before[y] \/ y \in before[x]
    BY <1>2, RowsAreOrdered
  <2>2. ASSUME NEW x \in rows, NEW y \in rows, x \in before[y], NEW z \in before[x]
        PROVE  z \in before[y]
    BY <1>2, <2>2, RowsAreOrdered
  <2> QED BY <2>1, <2>2
<1>4. \A i \in 1 .. n : \E x \in rows : Cardinality(before[x]) = i - 1
  <2> HIDE DEF before
  <2>1. IsOrder(rows, before)
    BY <1>2, <1>3 DEF IsOrder
  <2> QED BY <1>1, <2>1, RanksFill
<1>5. DOMAIN sorted = 1 .. n
  BY DEF Arranged, Sorted
<1>6. ASSUME NEW i \in 1 .. n
      PROVE  sorted[i] \in rows /\ Cardinality(before[sorted[i]]) = i - 1
  BY <1>4 DEF Arranged, Sorted
<1>7. sorted \in [1 .. n -> rows]
  BY <1>5, <1>6 DEF Arranged, Sorted
<1> HIDE DEF before, sorted
<1>8. /\ \A i, j \in 1 .. n : i < j => sorted[i] \in before[sorted[j]]
      /\ \A x \in rows : \E i \in 1 .. n : sorted[i] = x
  <2>1. IsOrder(rows, before) /\ IsByRank(sorted, rows, before)
    BY <1>2, <1>3, <1>6, <1>7 DEF IsOrder, IsByRank
  <2>2. /\ \A i, j \in 1 .. Cardinality(rows) : i < j => sorted[i] \in before[sorted[j]]
        /\ \A x \in rows : \E i \in 1 .. Cardinality(rows) : sorted[i] = x
    BY <1>1, <2>1, RanksSort
  <2> QED BY <2>2
<1>9. sorted \in Seq(rows)
  BY <1>1, <1>7, FunctionIsList
<1>10. \A i, j \in 1 .. n : i < j => Earlier(filter, sorted[i], sorted[j])
  BY <1>2, <1>7, <1>8
<1>11. /\ sorted \in Seq(rows)
       /\ \A i, j \in DOMAIN sorted : i < j => Earlier(filter, sorted[i], sorted[j])
       /\ \A x \in rows : \E i \in DOMAIN sorted : sorted[i] = x
  BY <1>5, <1>8, <1>9, <1>10
<1> QED BY <1>11 DEF sorted
\* A page is the head of the sorted rows, and its cursor the last row of it
\* exactly when rows are left.
LEMMA PageIsHead ==
    ASSUME NEW S, Null \notin S, NEW sorted \in Seq(S)
    PROVE  LET p == Page(sorted) IN
           /\ p.items \in Seq(S)
           /\ Len(p.items) <= Len(sorted)
           /\ \A m \in 1 .. Len(p.items) : p.items[m] = sorted[m]
           /\ p.nextCursor = Null => Len(p.items) = Len(sorted)
           /\ p.nextCursor # Null =>
                 /\ p.items # <<>> /\ Len(p.items) \in 1 .. Len(sorted)
                 /\ p.nextCursor = p.items[Len(p.items)]
           /\ p = [items |-> p.items, nextCursor |-> p.nextCursor]
<1> DEFINE p == Page(sorted)
<1>1. /\ Len(sorted) \in Nat /\ DOMAIN sorted = 1 .. Len(sorted)
      /\ Limit \in Nat /\ Limit # 0
  BY LenProperties, ReadsAssumption
<1>2. CASE Len(sorted) <= Limit
  <2>1. p = [items |-> sorted, nextCursor |-> Null]
    BY <1>1, <1>2 DEF Page
  <2> QED BY <1>1, <2>1
<1>3. CASE Len(sorted) > Limit
  <2> DEFINE head == SubSeq(sorted, 1, Limit)
  <2>1. /\ head \in Seq(S) /\ Len(head) = Limit
        /\ \A m \in 1 .. Limit : head[m] = sorted[m]
    BY <1>1, <1>3, SubSeqProperties
  <2>2. p = [items |-> head, nextCursor |-> head[Len(head)]]
    BY <1>1, <1>3 DEF Page, Last
  <2> HIDE DEF head
  <2>3. head[Len(head)] \in S /\ head # <<>>
    BY <1>1, <2>1, LenProperties, EmptySeq
  <2> QED BY <1>1, <1>3, <2>1, <2>2, <2>3
<1> QED BY <1>1, <1>2, <1>3

-------------------------------------------------------------------------------
(* Listings read to their end.  A walk is a recursive function of the number   *)
(* of pages; it is the function that gives the rows up to that page, which     *)
(* satisfies the same equation, as the least number at which the two would     *)
(* differ shows.                                                               *)

\* Where a page ends that begins after m elements, and where it leads.
PageEnd(s, m) == IF m + Limit < Len(s) THEN m + Limit ELSE Len(s)
CursorAt(s, m) == IF m < Len(s) THEN s[m] ELSE Null

\* What is left of a list after m elements, as a page.
LEMMA PageOfRest ==
    ASSUME NEW S, NEW s \in Seq(S), NEW m \in 0 .. Len(s)
    PROVE  Page(SubSeq(s, m + 1, Len(s)))
             = [items |-> SubSeq(s, m + 1, PageEnd(s, m)),
                nextCursor |-> CursorAt(s, PageEnd(s, m))]
<1> DEFINE rest == SubSeq(s, m + 1, Len(s))
<1>1. /\ Len(s) \in Nat /\ DOMAIN s = 1 .. Len(s)
      /\ Limit \in Nat /\ Limit # 0
  BY LenProperties, ReadsAssumption
<1>2. \A i \in m + 1 .. Len(s) : s[i] \in S
  BY <1>1, ElementOfSeq
<1>3. /\ rest \in Seq(S) /\ Len(rest) = Len(s) - m
      /\ \A i \in 1 .. Len(s) - m : rest[i] = s[m + i]
  BY <1>1, <1>2, SubSeqProperties
<1>4. CASE m + Limit < Len(s)
  <2>1. /\ m + 1 \in 1 .. Len(s) /\ Len(s) \in 1 .. Len(s)
        /\ 1 \in 1 .. Len(s) - (m + 1) + 1 /\ Limit \in 1 .. Len(s) - (m + 1) + 1
    BY <1>1, <1>4
  <2>2. SubSeq(rest, 1, Limit) = SubSeq(s, m + 1, m + Limit)
    BY <1>1, <2>1, SubSeqOfSubSeq
  <2>3. /\ Len(SubSeq(s, m + 1, m + Limit)) = Limit
        /\ SubSeq(s, m + 1, m + Limit)[Limit] = s[m + Limit]
    <3>1. \A i \in m + 1 .. m + Limit : s[i] \in S
      BY <1>1, <1>2, <1>4
    <3> QED BY <1>1, <3>1, SubSeqProperties
  <2> HIDE DEF rest
  <2>4. Len(rest) > Limit
    BY <1>1, <1>3, <1>4
  <2>5. Page(rest) = [items |-> SubSeq(s, m + 1, m + Limit),
                      nextCursor |-> s[m + Limit]]
    BY <2>2, <2>3, <2>4 DEF Page, Last
  <2>6. PageEnd(s, m) = m + Limit /\ CursorAt(s, m + Limit) = s[m + Limit]
    BY <1>1, <1>4 DEF PageEnd, CursorAt
  <2> QED BY <2>5, <2>6 DEF rest
<1>5. CASE ~(m + Limit < Len(s))
  <2> HIDE DEF rest
  <2>1. ~(Len(rest) > Limit)
    BY <1>1, <1>3, <1>5
  <2>2. Page(rest) = [items |-> rest, nextCursor |-> Null]
    BY <2>1 DEF Page
  <2>3. PageEnd(s, m) = Len(s) /\ CursorAt(s, Len(s)) = Null
    BY <1>1, <1>5 DEF PageEnd, CursorAt
  <2> QED BY <2>2, <2>3 DEF rest
<1> QED BY <1>4, <1>5

\* Following the cursors of a listing gives the whole list once.
LEMMA WalkReads ==
    ASSUME NEW S, Null \notin S, NEW s \in Seq(S), Len(s) <= Cardinality(Jobs),
           NEW list, list[Null] = Page(s),
           \A m \in 1 .. Len(s) : list[s[m]] = Page(SubSeq(s, m + 1, Len(s)))
    PROVE  Walk(list) = s
<1> DEFINE N == Cardinality(Jobs)
           n == Len(s)
           Read(m) == [items |-> SubSeq(s, 1, m), nextCursor |-> CursorAt(s, m)]
           Step(prev) == IF prev.nextCursor = Null THEN prev
                         ELSE LET next == list[prev.nextCursor]
                              IN [items |-> prev.items \o next.items,
                                  nextCursor |-> next.nextCursor]
           F(g) == [k \in 0 .. N |-> IF k = 0 THEN list[Null] ELSE Step(g[k - 1])]
           pages == CHOOSE g : g = F(g)
           closed == [k \in 0 .. N |-> Read(PageEnd(s, k * Limit))]
<1>1. /\ N \in Nat /\ n \in Nat /\ n <= N /\ DOMAIN s = 1 .. n
      /\ Limit \in Nat /\ Limit # 0
  BY LenProperties, ReadsAssumption, FS_CardinalityType
<1>2. \A i \in 1 .. n : s[i] \in S /\ s[i] # Null
  BY <1>1, ElementOfSeq
<1>3. list[Null] = Read(PageEnd(s, 0))
  <2>1. SubSeq(s, 0 + 1, n) = s /\ 0 \in 0 .. n
    BY <1>1, SubSeqFull
  <2>2. Page(SubSeq(s, 0 + 1, Len(s)))
          = [items |-> SubSeq(s, 0 + 1, PageEnd(s, 0)),
             nextCursor |-> CursorAt(s, PageEnd(s, 0))]
    BY <2>1, PageOfRest
  <2>3. 0 + 1 = 1
    OBVIOUS
  <2> QED BY ONLY list[Null] = Page(s), <2>1, <2>2, <2>3
<1>4. ASSUME NEW m \in 1 .. n
      PROVE  Step(Read(m)) = Read(PageEnd(s, m))
  <2> DEFINE end == PageEnd(s, m)
  <2>1. end \in m .. n /\ (m = n => end = n)
    <3>1. end = IF m + Limit < n THEN m + Limit ELSE n
      BY DEF PageEnd
    <3>2. m \in 1 .. n /\ n \in Nat /\ Limit \in Nat /\ Limit # 0
      BY <1>1
    <3> HIDE DEF end, n
    <3> QED BY ONLY <3>1, <3>2
  <2>2. CASE m = n
    <3>1. CursorAt(s, m) = Null /\ end = m
      BY <1>1, <2>1, <2>2 DEF CursorAt
    <3>2. Read(m).nextCursor = Null
      BY <3>1
    <3> QED BY <3>1, <3>2
  <2>3. CASE m < n
    <3>1. list[s[m]] = [items |-> SubSeq(s, m + 1, end), nextCursor |-> CursorAt(s, end)]
      <4>1. list[s[m]] = Page(SubSeq(s, m + 1, Len(s)))
        OBVIOUS
      <4>2. m \in 0 .. Len(s)
        BY <1>1
      <4>3. Page(SubSeq(s, m + 1, Len(s)))
              = [items |-> SubSeq(s, m + 1, PageEnd(s, m)),
                 nextCursor |-> CursorAt(s, PageEnd(s, m))]
        BY <4>2, PageOfRest
      <4> QED BY ONLY <4>1, <4>3
    <3>2. SubSeq(s, 1, m) \o SubSeq(s, m + 1, end) = SubSeq(s, 1, end)
      <4> HIDE DEF end
      <4>1. end \in m .. n
        BY <2>1
      <4>2. 1 \in 1 .. n + 1
        BY <1>1
      <4>3. m \in 1 - 1 .. n
        BY <1>1
      <4> QED BY <4>1, <4>2, <4>3, ConcatAdjacentSubSeq
    <3>3. CursorAt(s, m) = s[m] /\ s[m] # Null
      BY <1>1, <1>2, <2>3 DEF CursorAt
    <3> HIDE DEF end
    <3>4. Step(Read(m)) = [items |-> SubSeq(s, 1, m) \o SubSeq(s, m + 1, end),
                           nextCursor |-> CursorAt(s, end)]
      <4> DEFINE read == Read(m)
      <4>1. read.items = SubSeq(s, 1, m) /\ read.nextCursor = s[m]
        BY <3>3
      <4> HIDE DEF read
      <4>2. Step(read) = [items |-> SubSeq(s, 1, m) \o list[s[m]].items,
                          nextCursor |-> list[s[m]].nextCursor]
        BY <3>3, <4>1
      <4> HIDE DEF Step
      <4> QED BY <3>1, <4>2 DEF read
    <3> QED BY <3>2, <3>4 DEF end
  <2>4. m \in 1 .. n /\ n \in Nat
    BY <1>1
  <2> HIDE DEF Read, Step, end
  <2>5. m = n \/ m < n
    BY ONLY <2>4
  <2> QED BY ONLY <2>2, <2>3, <2>5 DEF end
<1>5. ASSUME NEW k \in 0 .. N
      PROVE  /\ PageEnd(s, k * Limit) \in 0 .. n
             /\ k > 0 => Step(Read(PageEnd(s, (k - 1) * Limit)))
                           = Read(PageEnd(s, k * Limit))
             /\ k = N => PageEnd(s, k * Limit) = n
  <2>1. /\ k * Limit \in Nat /\ k * Limit >= k
        /\ k > 0 => (k - 1) * Limit = k * Limit - Limit /\ (k - 1) * Limit \in Nat
    BY <1>1
  <2>2. PageEnd(s, k * Limit) \in 0 .. n /\ (k = N => PageEnd(s, k * Limit) = n)
    <3> DEFINE from == k * Limit
    <3>1. from \in Nat /\ (k = N => from >= n)
      BY <1>1, <2>1
    <3> HIDE DEF from
    <3>2. PageEnd(s, from) \in 0 .. n /\ (from >= n => PageEnd(s, from) = n)
      BY <1>1, <3>1 DEF PageEnd
    <3> QED BY <3>1, <3>2 DEF from
  <2>3. ASSUME k > 0
        PROVE  Step(Read(PageEnd(s, (k - 1) * Limit))) = Read(PageEnd(s, k * Limit))
    <3> DEFINE m == PageEnd(s, (k - 1) * Limit)
    <3>1. /\ m = IF k * Limit < n THEN k * Limit ELSE n
          /\ m \in 0 .. n
      BY <1>1, <2>1, <2>3 DEF PageEnd
    <3>2. PageEnd(s, m) = PageEnd(s, k * Limit)
      BY <1>1, <2>1, <3>1 DEF PageEnd
    <3> HIDE DEF m
    <3>3. CASE m \in 1 .. n
      BY <1>4, <3>2, <3>3 DEF m
    <3>4. CASE m = 0
      <4>1. n = 0 /\ PageEnd(s, k * Limit) = 0
        BY <1>1, <2>1, <2>3, <3>1, <3>4 DEF PageEnd
      <4>2. Read(0).nextCursor = Null
        BY <4>1 DEF CursorAt
      <4>3. Step(Read(0)) = Read(0)
        BY <4>2
      <4>4. PageEnd(s, (k - 1) * Limit) = 0
        BY <3>4 DEF m
      <4> HIDE DEF Read, Step
      <4> QED BY ONLY <4>1, <4>3, <4>4
    <3>5. m \in 0 .. n /\ n \in Nat
      BY <1>1, <3>1
    <3>6. m = 0 \/ m \in 1 .. n
      BY ONLY <3>5
    <3> HIDE DEF Read, Step
    <3> QED BY ONLY <3>3, <3>4, <3>6
  <2> QED BY <2>2, <2>3
<1> HIDE DEF Read, Step
<1>6. closed = F(closed)
  <2>1. ASSUME NEW k \in 0 .. N
        PROVE  closed[k] = IF k = 0 THEN list[Null] ELSE Step(closed[k - 1])
    <3>1. CASE k = 0
      BY <1>1, <1>3, <3>1
    <3>2. CASE k # 0
      <4>1. k - 1 \in 0 .. N /\ k > 0
        BY <1>1, <3>2
      <4> QED BY <1>5, <3>2, <4>1
    <3> QED BY <3>1, <3>2
  <2> HIDE DEF closed
  <2>2. closed = [k \in 0 .. N |-> closed[k]]
    BY DEF closed
  <2> QED BY <2>1, <2>2
<1>7. pages = F(pages)
  <2> HIDE DEF closed, F
  <2>1. \E g : g = F(g)
    BY <1>6
  <2> QED BY <2>1
<1>8. Walk(list) = pages[N].items
  BY DEF Walk, Step
<1> HIDE DEF pages
<1>9. \A k \in 0 .. N : pages[k] = closed[k]
  <2> DEFINE differ == { k \in 0 .. N : pages[k] # closed[k] }
  <2> SUFFICES ASSUME differ # {} PROVE FALSE
    OBVIOUS
  <2>1. PICK k \in differ : \A x \in differ : k <= x
    <3>1. differ \in SUBSET (0 .. N) /\ IsFiniteSet(0 .. N)
      BY <1>1, FS_Interval
    <3> HIDE DEF differ
    <3>2. IsFiniteSet(differ)
      BY <3>1, FS_Subset
    <3>3. differ \in SUBSET Int
      BY <1>1, <3>1
    <3> QED BY <3>2, <3>3, LeastAndGreatest
  <2>2. k \in 0 .. N /\ pages[k] # closed[k]
    OBVIOUS
  <2>3. /\ pages[k] = IF k = 0 THEN list[Null] ELSE Step(pages[k - 1])
        /\ closed[k] = IF k = 0 THEN list[Null] ELSE Step(closed[k - 1])
    <3> HIDE DEF closed
    <3> QED BY <1>6, <1>7, <2>2
  <2>4. k # 0 /\ k - 1 \in 0 .. N /\ k - 1 \notin differ
    BY <1>1, <2>1, <2>2, <2>3
  <2> QED BY <2>2, <2>3, <2>4
<1>10. closed[N] = [items |-> s, nextCursor |-> CursorAt(s, n)]
  <2>1. closed[N] = Read(n)
    BY <1>1, <1>5
  <2>2. SubSeq(s, 1, n) = s
    BY SubSeqFull
  <2> QED BY <2>1, <2>2 DEF Read
<1> HIDE DEF closed
<1> QED BY <1>1, <1>8, <1>9, <1>10

\* A list that gives the elements of T by their rank among those of T.
IsRanked(list, T, before) ==
    /\ list = [k \in 1 .. Cardinality(T) |-> list[k]]
    /\ \A k \in 1 .. Cardinality(T) :
          (\E x \in T : Cardinality(before[x] \cap T) = k - 1)
             => list[k] \in T /\ Cardinality(before[list[k]] \cap T) = k - 1

\* A listing of S: without a cursor its pages begin at the first row, with one
\* at the first row after it.
IsListing(list, S, before, all, rest) ==
    /\ list[Null] = Page(all) /\ IsRanked(all, S, before)
    /\ \A x \in S : /\ list[x] = Page(rest[x])
                   /\ IsRanked(rest[x], { y \in S : x \in before[y] }, before)

\* Such a listing has, read to its end, every row once.
LEMMA ListingReads ==
    ASSUME NEW S, IsFiniteSet(S), Null \notin S, Cardinality(S) <= Cardinality(Jobs),
           NEW before, IsOrder(S, before),
           NEW list, NEW all, NEW rest, IsListing(list, S, before, all, rest)
    PROVE  AddsUp(Walk(list), S)
<1> DEFINE n == Cardinality(S)
           After(x) == { y \in S : x \in before[y] }
<1>0. before \in [S -> SUBSET S]
  BY DEF IsOrder
<1>1. /\ n \in Nat
      /\ \A k \in 1 .. n : \E x \in S : Cardinality(before[x]) = k - 1
  BY RanksFill
<1>2. ASSUME NEW k \in 1 .. n
      PROVE  all[k] \in S /\ Cardinality(before[all[k]]) = k - 1
  <2>1. \A x \in S : before[x] \cap S = before[x]
    BY <1>0
  <2>2. \E x \in S : Cardinality(before[x] \cap S) = k - 1
    BY <1>1, <2>1
  <2> QED BY <2>1, <2>2 DEF IsRanked, IsListing
<1>3. all \in [1 .. n -> S]
  <2>1. all = [k \in 1 .. n |-> all[k]]
    BY DEF IsRanked, IsListing
  <2> QED BY <1>2, <2>1
<1>ranks. IsByRank(all, S, before)
  BY <1>2, <1>3 DEF IsByRank
<1>4. all \in Seq(S) /\ Len(all) = n /\ DOMAIN all = 1 .. n
  BY <1>1, <1>3, FunctionIsList
<1>5. /\ \A i, j \in 1 .. n : i < j => all[i] \in before[all[j]]
      /\ \A x \in S : \E i \in 1 .. n : all[i] = x
  BY <1>ranks, RanksSort
<1>6. ASSUME NEW m \in 1 .. n
      PROVE  list[all[m]] = Page(SubSeq(all, m + 1, n))
  <2> DEFINE tail == After(all[m])
             next == rest[all[m]]
  <2>1. /\ Cardinality(tail) = n - m
        /\ \A k \in 1 .. n - m :
              /\ all[m + k] \in tail
              /\ \A x \in tail : Cardinality(before[x] \cap tail) = k - 1
                                    <=> x = all[m + k]
    <3>1. m \in 1 .. Cardinality(S) /\ tail \in SUBSET S
          /\ \A x \in S : x \in tail <=> all[m] \in before[x]
      OBVIOUS
    <3> HIDE DEF tail
    <3>2. /\ Cardinality(tail) = Cardinality(S) - m
          /\ \A k \in 1 .. Cardinality(S) - m :
                /\ all[m + k] \in tail
                /\ \A x \in tail : Cardinality(before[x] \cap tail) = k - 1
                                      <=> x = all[m + k]
      BY <1>ranks, <3>1, RanksOfTail
    <3> QED BY <3>2
  <2>2. IsRanked(next, tail, before) /\ list[all[m]] = Page(next)
    BY <1>2 DEF IsListing
  <2> HIDE DEF tail, next
  <2>3. ASSUME NEW k \in 1 .. n - m PROVE next[k] = all[m + k]
    <3>1. all[m + k] \in tail /\ Cardinality(before[all[m + k]] \cap tail) = k - 1
      BY <2>1
    <3>2. next[k] \in tail /\ Cardinality(before[next[k]] \cap tail) = k - 1
      BY <2>1, <2>2, <3>1 DEF IsRanked
    <3> QED BY <2>1, <3>2
  <2>4. next = [k \in 1 .. n - m |-> all[m + k]]
    BY <2>1, <2>2, <2>3 DEF IsRanked
  <2>5. SubSeq(all, m + 1, n) = [k \in 1 .. n - m |-> all[m + k]]
    <3> DEFINE left == SubSeq(all, m + 1, n)
    <3>1. \A i \in m + 1 .. n : all[i] \in S
      BY <1>1, <1>2
    <3>2. /\ left \in Seq(S) /\ Len(left) = n - m
          /\ \A k \in 1 .. n - m : left[k] = all[m + k]
      BY <1>1, <1>4, <3>1, SubSeqProperties
    <3> HIDE DEF left
    <3>3. left = [k \in 1 .. n - m |-> left[k]]
      BY <3>2, LenProperties
    <3>4. left = [k \in 1 .. n - m |-> all[m + k]]
      BY <3>2, <3>3
    <3> QED BY <3>4 DEF left
  <2> QED BY <2>2, <2>4, <2>5
<1>7. Walk(list) = all
  <2>1. list[Null] = Page(all)
    BY DEF IsListing
  <2> QED BY <1>4, <1>6, <2>1, WalkReads
<1>8. ToSet(all) = S
  BY <1>2, <1>4, <1>5 DEF ToSet
<1> QED BY <1>4, <1>7, <1>8 DEF AddsUp

\* The campaigns by their time of creation, newest first, for any set of them.
LEMMA CampaignsAreRanked ==
    ASSUME NEW S \in SUBSET Campaigns, NEW T \in SUBSET S, NEW before,
           before = [x \in S |-> { y \in S : Newer(y, x) }]
    PROVE  /\ IsOrder(S, before)
           /\ IsRanked(ByCreatedAt(T), T, before)
<1>1. \A c \in S : c \in Nat /\ CreatedAt[c] \in Nat
  BY ReadsAssumption
<1>2. /\ \A c \in S : ~Newer(c, c)
      /\ \A c, d \in S : c # d => Newer(c, d) \/ Newer(d, c)
      /\ \A c, d, e \in S : Newer(c, d) /\ Newer(d, e) => Newer(c, e)
  BY <1>1 DEF Newer
<1>3. before \in [S -> SUBSET S] /\ \A x, y \in S : x \in before[y] <=> Newer(x, y)
  OBVIOUS
<1>4. ASSUME NEW x \in S, NEW y \in S, x \in before[y], NEW z \in before[x]
      PROVE  z \in before[y]
  BY <1>2, <1>3, <1>4
<1>5. ASSUME NEW x \in T
      PROVE  { y \in T : Newer(y, x) } = before[x] \cap T
  BY <1>3
<1>6. /\ ByCreatedAt(T) = [k \in 1 .. Cardinality(T) |-> ByCreatedAt(T)[k]]
      /\ \A k \in 1 .. Cardinality(T) : ByCreatedAt(T)[k] =
            CHOOSE x \in T : Cardinality({ y \in T : Newer(y, x) }) = k - 1
  <2> DEFINE Nth(k) == CHOOSE x \in T : Cardinality({ y \in T : Newer(y, x) }) = k - 1
  <2>1. ByCreatedAt(T) = [k \in 1 .. Cardinality(T) |-> Nth(k)]
    BY DEF ByCreatedAt, Sorted
  <2> HIDE DEF Nth
  <2>2. /\ ByCreatedAt(T) = [k \in 1 .. Cardinality(T) |-> ByCreatedAt(T)[k]]
        /\ \A k \in 1 .. Cardinality(T) : ByCreatedAt(T)[k] = Nth(k)
    BY <2>1
  <2> QED BY <2>2 DEF Nth
<1>7. ASSUME NEW k \in 1 .. Cardinality(T),
             \E x \in T : Cardinality(before[x] \cap T) = k - 1
      PROVE  /\ ByCreatedAt(T)[k] \in T
             /\ Cardinality(before[ByCreatedAt(T)[k]] \cap T) = k - 1
  <2>1. \E x \in T : Cardinality({ y \in T : Newer(y, x) }) = k - 1
    BY <1>5, <1>7
  <2>2. /\ ByCreatedAt(T)[k] \in T
        /\ Cardinality({ y \in T : Newer(y, ByCreatedAt(T)[k]) }) = k - 1
    BY <1>6, <2>1
  <2> QED BY <1>5, <2>2
<1>8. IsRanked(ByCreatedAt(T), T, before)
  BY <1>6, <1>7 DEF IsRanked
<1>9. \A x, y \in S : x \in before[y] => before[x] \subseteq before[y]
  BY <1>4
<1>10. /\ \A x \in S : x \notin before[x]
       /\ \A x, y \in S : x # y => x \in before[y] \/ y \in before[x]
  BY <1>2, <1>3
<1> QED BY <1>3, <1>8, <1>9, <1>10 DEF IsOrder

\* The rows of a campaign by their sequence number, for any set of them.
LEMMA NumbersAreRanked ==
    ASSUME NEW S \in SUBSET Nat, NEW T \in SUBSET S, NEW before,
           before = [x \in S |-> { y \in S : y < x }]
    PROVE  /\ IsOrder(S, before)
           /\ IsRanked(Ascending(T), T, before)
<1>1. before \in [S -> SUBSET S] /\ \A x, y \in S : x \in before[y] <=> y > x
  OBVIOUS
<1>2. ASSUME NEW x \in S, NEW y \in S, x \in before[y], NEW z \in before[x]
      PROVE  z \in before[y]
  <2>1. z \in S /\ z < x /\ x < y
    BY <1>2
  <2> QED BY <1>1, <2>1
<1>3. ASSUME NEW x \in T
      PROVE  { y \in T : y < x } = before[x] \cap T
  BY <1>1
<1>4. /\ Ascending(T) = [k \in 1 .. Cardinality(T) |-> Ascending(T)[k]]
      /\ \A k \in 1 .. Cardinality(T) : Ascending(T)[k] =
            CHOOSE x \in T : Cardinality({ y \in T : y < x }) = k - 1
  <2> DEFINE Nth(k) == CHOOSE x \in T : Cardinality({ y \in T : y < x }) = k - 1
  <2>1. Ascending(T) = [k \in 1 .. Cardinality(T) |-> Nth(k)]
    BY DEF Ascending, Sorted
  <2> HIDE DEF Nth
  <2>2. /\ Ascending(T) = [k \in 1 .. Cardinality(T) |-> Ascending(T)[k]]
        /\ \A k \in 1 .. Cardinality(T) : Ascending(T)[k] = Nth(k)
    BY <2>1
  <2> QED BY <2>2 DEF Nth
<1>5. ASSUME NEW k \in 1 .. Cardinality(T),
             \E x \in T : Cardinality(before[x] \cap T) = k - 1
      PROVE  /\ Ascending(T)[k] \in T
             /\ Cardinality(before[Ascending(T)[k]] \cap T) = k - 1
  <2>1. \E x \in T : Cardinality({ y \in T : y < x }) = k - 1
    BY <1>3, <1>5
  <2>2. /\ Ascending(T)[k] \in T
        /\ Cardinality({ y \in T : y < Ascending(T)[k] }) = k - 1
    BY <1>4, <2>1
  <2> QED BY <1>3, <2>2
<1>6. IsRanked(Ascending(T), T, before)
  BY <1>4, <1>5 DEF IsRanked
<1>7. \A x, y \in S : x \in before[y] => before[x] \subseteq before[y]
  BY <1>2
<1>8. /\ \A x \in S : x \notin before[x]
      /\ \A x, y \in S : x # y => x \in before[y] \/ y \in before[x]
  BY <1>1
<1> QED BY <1>1, <1>6, <1>7, <1>8 DEF IsOrder

\* The campaigns that have rows are no more than the rows.
LEMMA CampaignsHaveRows ==
    /\ Created \in SUBSET Campaigns /\ IsFiniteSet(Created)
    /\ Cardinality(Created) <= Cardinality(Jobs)
<1>1. IsFiniteSet(Inserted) /\ Cardinality(Inserted) <= Cardinality(Jobs)
  <2>1. Inserted \in SUBSET Jobs
    BY DEF Inserted
  <2> QED BY <2>1, ReadsAssumption, FS_Subset
<1>2. [j \in Inserted |-> CampaignOf[j]] \in Surjection(Inserted, Created)
  BY DEF Surjection, Created
<1>3. IsFiniteSet(Created) /\ Cardinality(Created) <= Cardinality(Inserted)
  BY <1>1, <1>2, FS_Surjection
<1>4. /\ Cardinality(Created) \in Nat /\ Cardinality(Inserted) \in Nat
      /\ Cardinality(Jobs) \in Nat
  BY <1>1, <1>3, ReadsAssumption, FS_CardinalityType
<1>5. Created \in SUBSET Campaigns
  BY DEF Created, Campaigns, Inserted
<1> QED BY <1>1, <1>3, <1>4, <1>5

\* The list of campaigns has, read to its end, every campaign once.
LEMMA CampaignsAddUp == AddsUp(Walk(CampaignPages), Created)
<1> DEFINE before == [x \in Created |-> { y \in Created : Newer(y, x) }]
           After(x) == { y \in Created : x \in before[y] }
           all == ByCreatedAt(Created)
           rest == [x \in Created |-> ByCreatedAt(After(x))]
<1>1. /\ Created \in SUBSET Campaigns /\ IsFiniteSet(Created)
      /\ Cardinality(Created) <= Cardinality(Jobs) /\ Null \notin Created
  BY CampaignsHaveRows, ReadsAssumption
<1>2. \A T \in SUBSET Created :
        /\ IsOrder(Created, before)
        /\ IsRanked(ByCreatedAt(T), T, before)
  BY <1>1, CampaignsAreRanked
<1>3. CampaignPages[Null] = Page(all)
  <2>1. { c \in Created : Null \in Created => Older(Null, c) } = Created
    BY <1>1
  <2>2. CampaignPages[Null] = ListCampaigns(Null)
    BY DEF CampaignPages
  <2> QED BY <2>1, <2>2 DEF ListCampaigns
<1>4. ASSUME NEW x \in Created
      PROVE  /\ CampaignPages[x] = Page(rest[x])
             /\ IsRanked(rest[x], After(x), before)
  <2>1. { c \in Created : x \in Created => Older(x, c) } = After(x)
    BY DEF Older
  <2>2. CampaignPages[x] = ListCampaigns(x)
    BY DEF CampaignPages
  <2>3. rest[x] = ByCreatedAt(After(x)) /\ After(x) \in SUBSET Created
    OBVIOUS
  <2> HIDE DEF After, rest, before
  <2> QED BY <1>2, <2>1, <2>2, <2>3 DEF ListCampaigns
<1>5. IsRanked(all, Created, before) /\ IsOrder(Created, before)
  <2> HIDE DEF before
  <2> QED BY <1>2
<1>6. IsListing(CampaignPages, Created, before, all, rest)
  <2> HIDE DEF before, all, rest
  <2> QED BY <1>3, <1>4, <1>5 DEF IsListing
<1> HIDE DEF before, all, rest
<1> QED BY <1>1, <1>5, <1>6, ListingReads

\* The list of the rows of a campaign has, read to its end, every row once.
LEMMA JobsAddUp ==
    ASSUME NEW c, NEW filter
    PROVE  AddsUp(Walk(JobPages(c, filter)), RowsOf(c, filter))
<1> DEFINE S == RowsOf(c, filter)
           before == [x \in S |-> { y \in S : y < x }]
           After(x) == { y \in S : x \in before[y] }
           all == Ascending(S)
           rest == [x \in S |-> Ascending(After(x))]
           pages == JobPages(c, filter)
<1>1. /\ S \in SUBSET Inserted /\ S \in SUBSET Jobs /\ S \in SUBSET Nat
      /\ S \subseteq RowsOf(c, Null)
      /\ IsFiniteSet(S) /\ Cardinality(S) <= Cardinality(Jobs)
      /\ Null \notin S /\ Null \notin RowsOf(c, Null)
  <2>1. /\ S \in SUBSET Inserted /\ S \in SUBSET Jobs /\ S \in SUBSET Nat
        /\ S \subseteq RowsOf(c, Null) /\ Null \notin S /\ Null \notin RowsOf(c, Null)
    BY ReadsAssumption DEF RowsOf, Inserted
  <2> HIDE DEF S
  <2> QED BY <2>1, ReadsAssumption, FS_Subset
<1> HIDE DEF S
<1>2. \A T \in SUBSET S :
        /\ IsOrder(S, before)
        /\ IsRanked(Ascending(T), T, before)
  BY <1>1, NumbersAreRanked
<1>3. pages[Null] = Page(all)
  <2>1. pages[Null] = GetCampaignJobs(c, filter, Null)
    BY DEF JobPages
  <2>2. { j \in RowsOf(c, filter) : Null # Null /\ Null \in RowsOf(c, Null) => j > Null } = S
    BY DEF S
  <2> QED BY <2>1, <2>2 DEF GetCampaignJobs
<1>4. ASSUME NEW x \in S
      PROVE  /\ pages[x] = Page(rest[x])
             /\ IsRanked(rest[x], After(x), before)
  <2>1. pages[x] = GetCampaignJobs(c, filter, x)
    BY <1>1 DEF JobPages
  <2>2. { j \in RowsOf(c, filter) : x # Null /\ x \in RowsOf(c, Null) => j > x } = After(x)
    <3>1. x # Null /\ x \in RowsOf(c, Null) /\ x \in Nat
      BY <1>1
    <3>2. \A j \in S : j > x <=> x \in before[j]
      BY <1>1
    <3> QED BY <3>1, <3>2 DEF S
  <2>3. rest[x] = Ascending(After(x)) /\ After(x) \in SUBSET S
    OBVIOUS
  <2> HIDE DEF After, rest, before
  <2> QED BY <1>2, <2>1, <2>2, <2>3 DEF GetCampaignJobs
<1>5. IsRanked(all, S, before) /\ IsOrder(S, before)
  <2> HIDE DEF before
  <2> QED BY <1>2
<1>6. IsListing(pages, S, before, all, rest)
  <2> HIDE DEF before, all, rest, pages
  <2> QED BY <1>3, <1>4, <1>5 DEF IsListing
<1> HIDE DEF before, all, rest, pages
<1>7. AddsUp(Walk(pages), S)
  BY <1>1, <1>5, <1>6, ListingReads
<1> QED BY <1>7 DEF pages, S

-------------------------------------------------------------------------------
(* Pages of the emails *)

\* The rows listAllJobs chooses from.
Candidates(filter, search, after) ==
    IF AnchorFound(filter, after)
    THEN { j \in InTab(filter) : Follows(filter, after, j) }
    ELSE Listed(filter, search)

\* A page of the emails is in order, holds only rows it was to choose from, and
\* leaves for later exactly those after its cursor.
LEMMA EmailsInPages ==
    ASSUME TableTypeOK, NEW filter, NEW search, NEW after
    PROVE  LET page == ListAllJobs(filter, search, after)
               rows == Candidates(filter, search, after) IN
           /\ page \in Pages
           /\ \A m \in DOMAIN page.items : page.items[m] \in rows
           /\ \A m, n \in DOMAIN page.items :
                 m < n => Earlier(filter, page.items[m], page.items[n])
           /\ page.nextCursor # Null =>
                 page.items # <<>> /\ page.nextCursor = page.items[Len(page.items)]
           /\ \A j \in rows :
                 \/ j \in ToSet(page.items)
                 \/ page.nextCursor # Null /\ Earlier(filter, page.nextCursor, j)
<1> DEFINE rows == Candidates(filter, search, after)
           sorted == Arranged(filter, rows)
           page == Page(sorted)
<1>1. ListAllJobs(filter, search, after) = page
  BY DEF ListAllJobs, Candidates
<1>2. rows \in SUBSET Jobs
  BY DEF Candidates, Listed, InTab, Inserted
<1> HIDE DEF rows
<1>3. /\ sorted \in Seq(rows)
      /\ \A m, n \in DOMAIN sorted : m < n => Earlier(filter, sorted[m], sorted[n])
      /\ \A x \in rows : \E m \in DOMAIN sorted : sorted[m] = x
  BY <1>2, ArrangedSorts
<1>4. Null \notin rows
  BY <1>2, ReadsAssumption
<1> HIDE DEF sorted
<1>5. /\ page.items \in Seq(rows)
      /\ Len(page.items) <= Len(sorted)
      /\ \A m \in 1 .. Len(page.items) : page.items[m] = sorted[m]
      /\ page.nextCursor = Null => Len(page.items) = Len(sorted)
      /\ page.nextCursor # Null =>
            /\ page.items # <<>> /\ Len(page.items) \in 1 .. Len(sorted)
            /\ page.nextCursor = page.items[Len(page.items)]
      /\ page = [items |-> page.items, nextCursor |-> page.nextCursor]
  BY <1>3, <1>4, PageIsHead
<1> HIDE DEF page
<1>6. /\ DOMAIN sorted = 1 .. Len(sorted) /\ Len(sorted) \in Nat
      /\ DOMAIN page.items = 1 .. Len(page.items) /\ Len(page.items) \in Nat
  BY <1>3, <1>5, LenProperties
<1>7. \A m \in DOMAIN page.items : page.items[m] \in rows
  BY <1>5, <1>6
<1>8. page \in Pages
  <2>1. page.items \in Seq(Jobs)
    BY <1>2, <1>5, SeqMonotonic
  <2>2. page.nextCursor \in Jobs \cup {Null}
    BY <1>2, <1>5, <1>6, <1>7
  <2> QED BY <1>5, <2>1, <2>2 DEF Pages
<1>9. \A m, n \in DOMAIN page.items :
         m < n => Earlier(filter, page.items[m], page.items[n])
  BY <1>3, <1>5, <1>6
<1>10. ASSUME NEW j \in rows, j \notin ToSet(page.items)
       PROVE  page.nextCursor # Null /\ Earlier(filter, page.nextCursor, j)
  <2>1. PICK k \in 1 .. Len(sorted) : sorted[k] = j
    BY <1>3, <1>6
  <2>2. k \notin 1 .. Len(page.items)
    BY <1>5, <1>6, <1>10, <2>1 DEF ToSet
  <2>3. page.nextCursor # Null
    BY <1>5, <1>6, <2>1, <2>2
  <2>4. /\ Len(page.items) \in 1 .. Len(sorted) /\ Len(page.items) < k
        /\ page.nextCursor = sorted[Len(page.items)]
    BY <1>5, <1>6, <2>1, <2>2, <2>3
  <2> QED BY <1>3, <1>6, <2>1, <2>3, <2>4
<1>11. /\ page \in Pages
       /\ \A m \in DOMAIN page.items : page.items[m] \in rows
       /\ \A m, n \in DOMAIN page.items :
             m < n => Earlier(filter, page.items[m], page.items[n])
       /\ page.nextCursor # Null =>
             page.items # <<>> /\ page.nextCursor = page.items[Len(page.items)]
       /\ \A j \in rows :
             \/ j \in ToSet(page.items)
             \/ page.nextCursor # Null /\ Earlier(filter, page.nextCursor, j)
  BY <1>5, <1>7, <1>8, <1>9, <1>10
<1>12. page = ListAllJobs(filter, search, after) /\ rows = Candidates(filter, search, after)
  BY <1>1 DEF page, rows
<1> QED BY <1>11, <1>12

-------------------------------------------------------------------------------
(* The list of emails.  A reply under way is a page of the rows as they were; *)
(* what is kept of it is what later changes of rows cannot take back.         *)

Tabs == { "SCHEDULED", "SENT" }
Sent(i, kind) ==
    i \in DOMAIN requests /\ requests[i].kind = kind /\ requests[i].state # "done"

\* A row that a list for q may show: it stays one, whatever happens to it.
Fits(q, j) ==
    j \in Inserted /\ (q.tab = "SENT" => status[j] = "SENT")

\* A list for q, in order, which goes on after the cursor.
InQuery(q, list, after) ==
    /\ \A m \in DOMAIN list : Fits(q, list[m])
    /\ \A m, n \in DOMAIN list : m < n => Earlier(q.tab, list[m], list[n])
    /\ after # Null => list # <<>> /\ after = list[Len(list)]

\* A row is on a list or comes after its cursor.
Reached(q, list, after, j) ==
    j \in ToSet(list) \/ (after # Null /\ Earlier(q.tab, after, j))

Requested ==
    [kind : { "load", "more" }, query : Queries, cursor : Jobs \cup {Null}, on : Nat,
     state : { "sent", "served", "done" }, page : Pages, steady : SUBSET Jobs]

RequestsOK ==
    /\ requests \in Seq(Requested)
    /\ \A i \in DOMAIN requests :
          \A j \in requests[i].steady :
             status[j] = requests[i].query.tab /\ j \in Matches[requests[i].query.search]

\* The page shows what the newest load asked for, and a load that was answered.
LoadsOK ==
    /\ requests # <<>> => Newest # 0 /\ query = requests[Newest].query
    /\ requests = <<>> => loading
    /\ base # 0 => requests[base].kind = "load" /\ requests[base].state = "done"
    /\ base = 0 => items = <<>> /\ cursor = Null

\* One "Load more" at a time, for the cursor of the list it was pressed on.
MoreOK ==
    /\ \A i, k \in DOMAIN requests : Sent(i, "more") /\ Sent(k, "more") => i = k
    /\ \A i \in DOMAIN requests : Sent(i, "more") =>
          /\ loadingMore /\ base # 0
          /\ requests[i].on \in DOMAIN requests
          /\ requests[requests[i].on].state = "done"
          /\ requests[i].on = base => requests[i].cursor = cursor
          /\ requests[i].on = Newest => requests[i].query = query

\* The list belongs to the newest load alone.
Current == base # 0 /\ base = Newest /\ ~mixed

\* Every row that has stayed in the tab since the list was read is reached.
ListHolds ==
    Current =>
        /\ InQuery(query, items, cursor)
        /\ \A j \in requests[base].steady : Reached(query, items, cursor, j)

\* A first page under way holds and reaches what it should, for its own query.
LoadPage(i) ==
    requests[i].kind = "load" /\ requests[i].state = "served" =>
        LET page == requests[i].page  q == requests[i].query IN
        /\ InQuery(q, page.items, page.nextCursor)
        /\ \A j \in requests[i].steady : Reached(q, page.items, page.nextCursor, j)

\* A further page under way continues the list, if the list is still the one.
MorePage(i) ==
    /\ requests[i].kind = "more" /\ requests[i].state = "served"
    /\ requests[i].on = base /\ Current
    => LET page == requests[i].page IN
       /\ InQuery(query, page.items, page.nextCursor)
       /\ \A m \in DOMAIN page.items : Earlier(query.tab, cursor, page.items[m])
       /\ \A j \in requests[base].steady :
             j \in ToSet(items) \/ Reached(query, page.items, page.nextCursor, j)

Spinners ==
    /\ loading /\ requests # <<>> => \E i \in DOMAIN requests : Sent(i, "load")
    /\ loadingMore => \E i \in DOMAIN requests : Sent(i, "more")

ListInv ==
    /\ ListTypeOK /\ RequestsOK /\ LoadsOK /\ MoreOK
    /\ ListHolds /\ Spinners
    /\ \A i \in DOMAIN requests : LoadPage(i) /\ MorePage(i)

\* The newest load, by what it is.
LEMMA NewestIs ==
    ASSUME NEW R, NEW list \in Seq(R)
    PROVE  LET m == Max({0} \cup { i \in DOMAIN list : list[i].kind = "load" }) IN
           /\ m \in 0 .. Len(list)
           /\ m # 0 => list[m].kind = "load"
           /\ \A i \in DOMAIN list : list[i].kind = "load" => i <= m
<1> DEFINE S == {0} \cup { i \in DOMAIN list : list[i].kind = "load" }
<1>1. Len(list) \in Nat /\ DOMAIN list = 1 .. Len(list)
  BY LenProperties
<1>2. S \in SUBSET (0 .. Len(list)) /\ 0 \in S
  BY <1>1
<1>3. IsFiniteSet(S)
  <2>1. IsFiniteSet(0 .. Len(list))
    BY <1>1, FS_Interval
  <2> HIDE DEF S
  <2> QED BY <1>2, <2>1, FS_Subset
<1>4. Max(S) = CHOOSE x \in S : \A y \in S : x >= y
  BY DEF Max
<1>5. \A i \in S : i # 0 => i \in DOMAIN list /\ list[i].kind = "load"
  OBVIOUS
<1>6. \A i \in DOMAIN list : list[i].kind = "load" => i \in S
  OBVIOUS
<1> HIDE DEF S
<1>7. PICK m \in S : \A x \in S : x <= m
  BY <1>2, <1>3, LeastAndGreatest
<1>8. Max(S) \in S /\ \A x \in S : x <= Max(S)
  BY <1>2, <1>4, <1>7
<1>9. /\ Max(S) \in 0 .. Len(list)
      /\ Max(S) # 0 => list[Max(S)].kind = "load"
      /\ \A i \in DOMAIN list : list[i].kind = "load" => i <= Max(S)
  BY <1>2, <1>5, <1>6, <1>8
<1> QED BY <1>9 DEF S

\* A request that goes on stays what was asked.
LEMMA RequestMoves ==
    ASSUME RequestsOK, NEW i \in DOMAIN requests, NEW r \in Requested,
           requests' = [requests EXCEPT ![i] = r], r.kind = requests[i].kind
    PROVE  /\ requests' \in Seq(Requested)
           /\ Len(requests') = Len(requests) /\ DOMAIN requests' = DOMAIN requests
           /\ requests'[i] = r
           /\ \A k \in DOMAIN requests : k # i => requests'[k] = requests[k]
           /\ Newest' = Newest
           /\ (requests' = <<>>) = (requests = <<>>)
<1>1. /\ requests \in Seq(Requested) /\ DOMAIN requests = 1 .. Len(requests)
      /\ Len(requests) \in Nat
  BY LenProperties DEF RequestsOK
<1>2. /\ [requests EXCEPT ![i] = r] \in Seq(Requested)
      /\ Len([requests EXCEPT ![i] = r]) = Len(requests)
      /\ \A k \in 1 .. Len(requests) :
            [requests EXCEPT ![i] = r][k] = IF k = i THEN r ELSE requests[k]
  BY <1>1, ExceptSeq
<1>3. /\ requests' \in Seq(Requested)
      /\ Len(requests') = Len(requests) /\ DOMAIN requests' = DOMAIN requests
      /\ requests'[i] = r
      /\ \A k \in DOMAIN requests : k # i => requests'[k] = requests[k]
  BY <1>1, <1>2, LenProperties
<1>4. { k \in DOMAIN requests' : requests'[k].kind = "load" }
         = { k \in DOMAIN requests : requests[k].kind = "load" }
  BY <1>3
<1>5. Newest' = Newest
  BY <1>4 DEF Newest
<1>6. requests' # <<>> /\ requests # <<>>
  BY <1>1, <1>3, EmptySeq
<1> QED BY <1>3, <1>5, <1>6

\* A request that is added is the last one.
LEMMA RequestAdded ==
    ASSUME RequestsOK, NEW r \in Requested, requests' = Append(requests, r)
    PROVE  /\ requests' \in Seq(Requested)
           /\ Len(requests') = Len(requests) + 1 /\ Len(requests) \in Nat
           /\ DOMAIN requests = 1 .. Len(requests)
           /\ DOMAIN requests' = 1 .. Len(requests) + 1
           /\ requests'[Len(requests) + 1] = r
           /\ \A k \in DOMAIN requests : requests'[k] = requests[k]
           /\ Newest \in 0 .. Len(requests)
           /\ r.kind = "load" => Newest' = Len(requests) + 1
           /\ r.kind # "load" => Newest' = Newest
           /\ requests' # <<>>
<1>1. /\ requests \in Seq(Requested) /\ DOMAIN requests = 1 .. Len(requests)
      /\ Len(requests) \in Nat
  BY LenProperties DEF RequestsOK
<1>2. /\ requests' \in Seq(Requested)
      /\ Len(requests') = Len(requests) + 1
      /\ requests'[Len(requests) + 1] = r
      /\ \A k \in 1 .. Len(requests) : requests'[k] = requests[k]
  BY <1>1, AppendProperties
<1>3. DOMAIN requests' = 1 .. Len(requests) + 1
  BY <1>2, LenProperties
<1>4. /\ Newest \in 0 .. Len(requests)
      /\ Newest' \in 0 .. Len(requests) + 1
      /\ Newest' # 0 => requests'[Newest'].kind = "load"
      /\ \A i \in DOMAIN requests' : requests'[i].kind = "load" => i <= Newest'
  <2>1. \A list \in Seq(Requested) :
           LET m == Max({0} \cup { i \in DOMAIN list : list[i].kind = "load" }) IN
           /\ m \in 0 .. Len(list)
           /\ m # 0 => list[m].kind = "load"
           /\ \A i \in DOMAIN list : list[i].kind = "load" => i <= m
    BY NewestIs
  <2> QED BY <1>1, <1>2, <2>1 DEF Newest
<1>5. r.kind = "load" => Newest' = Len(requests) + 1
  BY <1>1, <1>2, <1>3, <1>4
<1>6. ASSUME r.kind # "load" PROVE Newest' = Newest
  <2>1. \A k \in DOMAIN requests : k \in DOMAIN requests' /\ requests'[k] = requests[k]
    BY <1>1, <1>2, <1>3
  <2>2. \A k \in DOMAIN requests' :
           k \in DOMAIN requests \/ requests'[k].kind # "load"
    BY <1>1, <1>2, <1>3, <1>6
  <2>3. { k \in DOMAIN requests' : requests'[k].kind = "load" }
           = { k \in DOMAIN requests : requests[k].kind = "load" }
    BY <2>1, <2>2
  <2> QED BY <2>3 DEF Newest
<1>7. requests' # <<>>
  BY <1>1, <1>2, EmptySeq
<1> QED BY <1>1, <1>2, <1>3, <1>4, <1>5, <1>6, <1>7
\* What is known of a list outlives every change of the rows.
LEMMA ListsOutlive ==
    ASSUME TableTypeOK, TableChanges \/ UNCHANGED tableVars
    PROVE  /\ \A j \in Jobs : status[j] = "SENT" => status'[j] = "SENT"
           /\ \A q \in Queries, j \in Jobs : Fits(q, j) => Fits(q, j)'
           /\ \A q \in Queries, j, k \in Jobs :
                 Earlier(q.tab, j, k) /\ (q.tab = "SENT" => status[j] = "SENT" /\ status[k] = "SENT")
                    => Earlier(q.tab, j, k)'
           /\ \A q \in Queries, list \in Seq(Jobs), after \in Jobs \cup {Null} :
                 InQuery(q, list, after) =>
                    /\ InQuery(q, list, after)'
                    /\ \A j \in Jobs :
                          Reached(q, list, after, j) /\ (q.tab = "SENT" => status[j] = "SENT")
                             => Reached(q, list, after, j)'
<1>1. /\ \A j \in Jobs : status[j] # "ABSENT" => status'[j] # "ABSENT"
      /\ \A j \in Jobs : status[j] = "SENT" =>
            status'[j] = "SENT" /\ sentAt'[j] = sentAt[j]
  BY RowsAdvance DEF tableVars
<1>2. \A q \in Queries, j \in Jobs : Fits(q, j) => Fits(q, j)'
  BY <1>1 DEF Fits, Inserted
<1>3. ASSUME NEW tab, NEW j \in Jobs, NEW k \in Jobs, Earlier(tab, j, k),
             tab = "SENT" => status[j] = "SENT" /\ status[k] = "SENT"
      PROVE  Earlier(tab, j, k)'
  <2>1. CASE tab = "SENT"
    BY <1>1, <1>3, <2>1 DEF Earlier, SentLater
  <2>2. CASE tab # "SENT"
    BY <1>3, <2>2 DEF Earlier, DueEarlier
  <2> QED BY <2>1, <2>2
<1>4. ASSUME NEW q \in Queries, NEW list \in Seq(Jobs), NEW after \in Jobs \cup {Null},
             InQuery(q, list, after)
      PROVE  /\ InQuery(q, list, after)'
             /\ \A j \in Jobs :
                   Reached(q, list, after, j) /\ (q.tab = "SENT" => status[j] = "SENT")
                      => Reached(q, list, after, j)'
  <2>1. /\ \A m \in DOMAIN list : list[m] \in Jobs
        /\ list # <<>> => Len(list) \in DOMAIN list
    BY LenProperties, EmptySeq
  <2>2. \A m \in DOMAIN list : Fits(q, list[m]) /\ (q.tab = "SENT" => status[list[m]] = "SENT")
    BY <1>4 DEF InQuery, Fits
  <2>3. InQuery(q, list, after)'
    BY <1>2, <1>3, <1>4, <2>1, <2>2 DEF InQuery
  <2>4. after # Null => after \in Jobs /\ (q.tab = "SENT" => status[after] = "SENT")
    BY <1>4, <2>1, <2>2 DEF InQuery
  <2>5. \A j \in Jobs :
           Reached(q, list, after, j) /\ (q.tab = "SENT" => status[j] = "SENT")
              => Reached(q, list, after, j)'
    BY <1>3, <2>4 DEF Reached
  <2> QED BY <2>3, <2>5
<1> QED BY <1>1, <1>2, <1>3, <1>4
\* So a request keeps what is known of it while its rows on a list stay few.
LEMMA SteadyRows ==
    ASSUME RequestsOK, NEW i \in DOMAIN requests
    PROVE  /\ requests[i] \in Requested
           /\ requests[i].query \in Queries /\ requests[i].page \in Pages
           /\ requests[i].page.items \in Seq(Jobs)
           /\ requests[i].page.nextCursor \in Jobs \cup {Null}
           /\ \A j \in requests[i].steady :
                 /\ j \in Jobs
                 /\ requests[i].query.tab = "SENT" => status[j] = "SENT"
<1>1. requests[i] \in Requested
  BY DEF RequestsOK
<1>2. requests[i].steady \subseteq Jobs
  BY <1>1 DEF Requested
<1>3. \A j \in requests[i].steady : status[j] = requests[i].query.tab
  BY DEF RequestsOK
<1> QED BY <1>1, <1>2, <1>3 DEF Requested, Pages

\* A first page under way stays what it is.
LEMMA LoadPageStays ==
    ASSUME TableTypeOK, TableChanges \/ UNCHANGED tableVars, RequestsOK,
           NEW i \in DOMAIN requests, LoadPage(i),
           requests'[i].kind = requests[i].kind, requests'[i].query = requests[i].query,
           requests'[i].state = "served" =>
              requests[i].state = "served" /\ requests'[i].page = requests[i].page,
           requests'[i].steady \subseteq requests[i].steady
    PROVE  LoadPage(i)'
<1> SUFFICES ASSUME requests'[i].kind = "load", requests'[i].state = "served"
             PROVE  LoadPage(i)'
  BY DEF LoadPage
<1> DEFINE page == requests[i].page
           q == requests[i].query
<1>1. /\ InQuery(q, page.items, page.nextCursor)
      /\ \A j \in requests[i].steady : Reached(q, page.items, page.nextCursor, j)
  BY DEF LoadPage
<1>2. /\ q \in Queries /\ page.items \in Seq(Jobs) /\ page.nextCursor \in Jobs \cup {Null}
      /\ \A j \in requests[i].steady : j \in Jobs /\ (q.tab = "SENT" => status[j] = "SENT")
  BY SteadyRows
<1>3. requests'[i].page = page /\ requests'[i].query = q
  OBVIOUS
<1> HIDE DEF page, q
<1> DEFINE list == page.items
           after == page.nextCursor
<1>4. PICK l, a : l = list /\ a = after
  OBVIOUS
<1>5. PICK p : p = q
  OBVIOUS
<1>6. /\ InQuery(p, l, a)'
      /\ \A j \in requests[i].steady : Reached(p, l, a, j)'
  BY <1>1, <1>2, <1>4, <1>5, ListsOutlive
<1>7. requests'[i].page.items = l /\ requests'[i].page.nextCursor = a
      /\ requests'[i].query = p
  BY <1>3, <1>4, <1>5
<1> QED BY <1>6, <1>7 DEF LoadPage
\* The list on the page, while it is the newest load's.
LEMMA CurrentIs ==
    ASSUME ListTypeOK, RequestsOK, LoadsOK, Current
    PROVE  /\ base \in DOMAIN requests /\ query \in Queries
           /\ query = requests[base].query
           /\ items \in Seq(Jobs) /\ cursor \in Jobs \cup {Null}
           /\ \A j \in requests[base].steady :
                 /\ j \in Jobs /\ (query.tab = "SENT" => status[j] = "SENT")
                 /\ status[j] = query.tab /\ j \in Matches[query.search]
<1>1. base \in DOMAIN requests /\ requests # <<>>
  BY LenProperties, EmptySeq DEF ListTypeOK, RequestsOK, Current
<1>2. query = requests[base].query
  BY <1>1 DEF LoadsOK, Current
<1>3. \A j \in requests[base].steady :
         j \in Jobs /\ (requests[base].query.tab = "SENT" => status[j] = "SENT")
  BY <1>1, SteadyRows
<1> QED BY <1>1, <1>2, <1>3 DEF ListTypeOK, RequestsOK

\* The list on the page stays what it is, and so does a further page under way.
LEMMA ListStays ==
    ASSUME TableTypeOK, TableChanges \/ UNCHANGED tableVars,
           ListTypeOK, RequestsOK, LoadsOK, MoreOK, ListHolds,
           UNCHANGED <<query, items, cursor, base, mixed>>, Newest' = Newest,
           requests'[base].steady \subseteq requests[base].steady
    PROVE  /\ ListHolds'
           /\ \A i \in DOMAIN requests :
                 /\ MorePage(i)
                 /\ requests'[i].kind = requests[i].kind /\ requests'[i].on = requests[i].on
                 /\ requests'[i].state = "served" =>
                       requests[i].state = "served" /\ requests'[i].page = requests[i].page
                 => MorePage(i)'
<1>1. Current' => Current
  BY DEF Current
<1> SUFFICES ASSUME Current, Current'
             PROVE  /\ ListHolds'
                    /\ \A i \in DOMAIN requests :
                          /\ MorePage(i)
                          /\ requests'[i].kind = requests[i].kind
                          /\ requests'[i].on = requests[i].on
                          /\ requests'[i].state = "served" =>
                                /\ requests[i].state = "served"
                                /\ requests'[i].page = requests[i].page
                          => MorePage(i)'
  BY <1>1 DEF ListHolds, MorePage
<1>2. PICK q, list, after, b : q = query /\ list = items /\ after = cursor /\ b = base
  OBVIOUS
<1>3. /\ q \in Queries /\ list \in Seq(Jobs) /\ after \in Jobs \cup {Null}
      /\ \A j \in requests[b].steady : j \in Jobs /\ (q.tab = "SENT" => status[j] = "SENT")
  BY <1>2, CurrentIs
<1>4. /\ InQuery(q, list, after)
      /\ \A j \in requests[b].steady : Reached(q, list, after, j)
  BY <1>2 DEF ListHolds
<1>5. query' = q /\ items' = list /\ cursor' = after /\ base' = b
      /\ requests'[b].steady \subseteq requests[b].steady
  BY <1>2
<1>6. ListHolds'
  <2>1. /\ InQuery(q, list, after)'
        /\ \A j \in requests[b].steady : Reached(q, list, after, j)'
    BY <1>3, <1>4, ListsOutlive
  <2> QED BY <1>5, <2>1 DEF ListHolds
<1>7. ASSUME NEW i \in DOMAIN requests, MorePage(i),
             requests'[i].kind = requests[i].kind, requests'[i].on = requests[i].on,
             requests'[i].state = "served" =>
                requests[i].state = "served" /\ requests'[i].page = requests[i].page
      PROVE  MorePage(i)'
  <2> SUFFICES ASSUME requests'[i].kind = "more", requests'[i].state = "served",
                      requests'[i].on = base'
               PROVE  MorePage(i)'
    BY DEF MorePage
  <2>1. PICK l, a : l = requests[i].page.items /\ a = requests[i].page.nextCursor
    OBVIOUS
  <2>2. l \in Seq(Jobs) /\ a \in Jobs \cup {Null}
    BY <2>1, SteadyRows
  <2>3. /\ InQuery(q, l, a)
        /\ \A m \in DOMAIN l : Earlier(q.tab, after, l[m])
        /\ \A j \in requests[b].steady : j \in ToSet(list) \/ Reached(q, l, a, j)
    BY <1>2, <1>7, <2>1 DEF MorePage
  <2>4. /\ InQuery(q, l, a)'
        /\ \A j \in requests[b].steady : j \in ToSet(list) \/ Reached(q, l, a, j)'
    BY <1>3, <2>2, <2>3, ListsOutlive
  <2>5. \A m \in DOMAIN l : Earlier(q.tab, after, l[m])'
    <3>1. \A m \in DOMAIN l : l[m] \in Jobs /\ (q.tab = "SENT" => status[l[m]] = "SENT")
      BY <2>2, <2>3, LenProperties DEF InQuery, Fits
    <3>2. after \in Jobs /\ (q.tab = "SENT" => status[after] = "SENT")
      <4>1. after # Null
        <5>1. Sent(i, "more") /\ requests[i].on = base
          BY <1>2, <1>5, <1>7 DEF Sent
        <5>2. requests[i].cursor = cursor /\ requests[i].cursor # Null
          BY <5>1 DEF MoreOK, ListTypeOK, Sent
        <5> QED BY <1>2, <5>2
      <4>2. list # <<>> /\ Len(list) \in DOMAIN list /\ after = list[Len(list)]
        BY <1>3, <1>4, <4>1, LenProperties, EmptySeq DEF InQuery
      <4> QED BY <1>3, <1>4, <4>1, <4>2 DEF InQuery, Fits
    <3> QED BY <1>3, <2>3, <3>1, <3>2, ListsOutlive
  <2>6. requests'[i].page.items = l /\ requests'[i].page.nextCursor = a
    BY <1>7, <2>1
  <2> QED BY <1>5, <2>4, <2>5, <2>6 DEF MorePage
<1> QED BY <1>6, <1>7
\* A request goes on: it is served a page of which what is needed is known, or
\* it changes in no other way than to lose its page or some of its steady rows.
GoesOn(i) ==
    /\ requests'[i].kind = requests[i].kind /\ requests'[i].query = requests[i].query
    /\ requests'[i].cursor = requests[i].cursor /\ requests'[i].on = requests[i].on
    /\ requests[i].state = "done" => requests'[i].state = "done"
    /\ \/ /\ requests'[i].steady
                \subseteq { j \in requests[i].steady : status'[j] = status[j] }
          /\ requests'[i].state = "served" =>
                requests[i].state = "served" /\ requests'[i].page = requests[i].page
       \/ /\ requests[i].state = "sent" /\ UNCHANGED status
          /\ \A j \in requests'[i].steady :
                status[j] = requests[i].query.tab /\ j \in Matches[requests[i].query.search]
          /\ LoadPage(i)' /\ MorePage(i)'

\* Requests that go on, with the list as it is, keep what is known.
LEMMA GoingOnKeeps ==
    ASSUME TableTypeOK, TableChanges \/ UNCHANGED tableVars, ListInv,
           requests' \in Seq(Requested), Len(requests') = Len(requests),
           DOMAIN requests' = DOMAIN requests, Newest' = Newest,
           (requests' = <<>>) = (requests = <<>>),
           \A i \in DOMAIN requests : GoesOn(i),
           UNCHANGED <<query, items, cursor, base, mixed>>,
           loading' \in BOOLEAN, loadingMore' \in BOOLEAN, failed' \in BOOLEAN,
           requests = <<>> => loading',
           \A i \in DOMAIN requests : Sent(i, "more")' => loadingMore', Spinners'
    PROVE  ListInv'
<1>1. ListTypeOK'
  <2>1. ASSUME NEW i \in DOMAIN requests
        PROVE  /\ requests'[i].kind \in { "load", "more" }
               /\ requests'[i].state \in { "sent", "served", "done" }
               /\ requests'[i].kind = "more" <=> requests'[i].cursor # Null
    <3>1. requests'[i] \in Requested
      OBVIOUS
    <3>2. requests[i].kind = "more" <=> requests[i].cursor # Null
      BY DEF ListInv, ListTypeOK
    <3> QED BY <3>1, <3>2 DEF GoesOn, Requested
  <2>2. ListTypeOK
    BY DEF ListInv
  <2> QED BY <2>1, <2>2 DEF ListTypeOK
<1>2. RequestsOK'
  <2> SUFFICES ASSUME NEW i \in DOMAIN requests, NEW j \in requests'[i].steady
               PROVE  /\ status'[j] = requests'[i].query.tab
                      /\ j \in Matches[requests'[i].query.search]
    BY DEF RequestsOK
  <2> QED BY DEF ListInv, RequestsOK, GoesOn
<1>3. LoadsOK'
  <2>1. base # 0 => base \in DOMAIN requests
    BY LenProperties DEF ListInv, ListTypeOK, RequestsOK
  <2>2. requests # <<>> => Newest \in DOMAIN requests
    <3>1. requests \in Seq(Requested)
      BY DEF ListInv, RequestsOK
    <3>2. Newest \in 0 .. Len(requests)
      BY <3>1, NewestIs DEF Newest
    <3> QED BY <3>1, <3>2, LenProperties DEF ListInv, LoadsOK
  <2> QED BY <2>1, <2>2 DEF ListInv, LoadsOK, GoesOn
<1>4. \A i \in DOMAIN requests, kind \in { "load", "more" } :
         Sent(i, kind)' => Sent(i, kind)
  BY DEF Sent, GoesOn
<1>5. MoreOK'
  BY <1>4 DEF ListInv, MoreOK, GoesOn, Sent
<1>6. /\ ListHolds'
      /\ \A i \in DOMAIN requests :
            /\ MorePage(i)
            /\ requests'[i].kind = requests[i].kind /\ requests'[i].on = requests[i].on
            /\ requests'[i].state = "served" =>
                  requests[i].state = "served" /\ requests'[i].page = requests[i].page
            => MorePage(i)'
  <2>1. CASE base = 0
    BY <2>1 DEF ListHolds, MorePage, Current
  <2>2. CASE base # 0
    <3>1. base \in DOMAIN requests /\ requests[base].state = "done"
      BY <2>2, LenProperties DEF ListInv, ListTypeOK, RequestsOK, LoadsOK
    <3>2. requests'[base].steady \subseteq requests[base].steady
      BY <3>1 DEF GoesOn
    <3> QED BY <3>2, ListStays DEF ListInv
  <2> QED BY <2>1, <2>2
<1>7. ASSUME NEW i \in DOMAIN requests
      PROVE  LoadPage(i)' /\ MorePage(i)'
  <2>1. CASE LoadPage(i)' /\ MorePage(i)'
    BY <2>1
  <2>2. CASE /\ requests'[i].steady \subseteq requests[i].steady
             /\ requests'[i].state = "served" =>
                   requests[i].state = "served" /\ requests'[i].page = requests[i].page
    BY <1>6, <2>2, LoadPageStays DEF ListInv, GoesOn
  <2> QED BY <2>1, <2>2 DEF GoesOn
<1> QED BY <1>1, <1>2, <1>3, <1>5, <1>6, <1>7 DEF ListInv
\* A change of the rows.
LEMMA RowsMoveOn ==
    ASSUME TableTypeOK, ListInv, TableChanges, SteadyOnly,
           UNCHANGED <<query, items, cursor, loading, loadingMore, failed, base, mixed>>
    PROVE  ListInv'
<1>1. /\ requests \in Seq(Requested) /\ DOMAIN requests = 1 .. Len(requests)
      /\ Len(requests) \in Nat
  BY LenProperties DEF ListInv, RequestsOK
<1> DEFINE kept(i) == { j \in requests[i].steady : status'[j] = status[j] }
<1>2. ASSUME NEW i \in DOMAIN requests
      PROVE  /\ requests'[i] \in Requested
             /\ requests'[i].steady = kept(i)
             /\ requests'[i].kind = requests[i].kind /\ requests'[i].query = requests[i].query
             /\ requests'[i].cursor = requests[i].cursor /\ requests'[i].on = requests[i].on
             /\ requests'[i].state = requests[i].state /\ requests'[i].page = requests[i].page
  <2>1. requests'[i] = [requests[i] EXCEPT !.steady = kept(i)]
    BY DEF SteadyOnly
  <2>2. requests[i] \in Requested /\ kept(i) \subseteq requests[i].steady
    BY <1>1
  <2> HIDE DEF kept
  <2> QED BY <2>1, <2>2 DEF Requested
<1>3. DOMAIN requests' = DOMAIN requests
  BY DEF SteadyOnly
<1>4. requests' \in [1 .. Len(requests) -> Requested]
  <2>1. requests' = [i \in DOMAIN requests |-> requests'[i]]
    BY DEF SteadyOnly
  <2> QED BY <1>1, <1>2, <2>1
<1>5. requests' \in Seq(Requested) /\ Len(requests') = Len(requests)
  BY <1>1, <1>4, FunctionIsList
<1>6. (requests' = <<>>) = (requests = <<>>)
  BY <1>1, <1>5, EmptySeq
<1>7. Newest' = Newest
  <2>1. { k \in DOMAIN requests' : requests'[k].kind = "load" }
           = { k \in DOMAIN requests : requests[k].kind = "load" }
    BY <1>2, <1>3
  <2> QED BY <2>1 DEF Newest
<1>8. \A i \in DOMAIN requests : GoesOn(i)
  BY <1>2 DEF GoesOn
<1>9. \A i \in DOMAIN requests, kind \in { "load", "more" } :
         Sent(i, kind)' <=> Sent(i, kind)
  BY <1>2, <1>3 DEF Sent
<1>10. /\ Spinners' /\ \A i \in DOMAIN requests : Sent(i, "more")' => loadingMore'
  BY <1>3, <1>6, <1>9 DEF ListInv, Spinners, MoreOK
<1>11. /\ loading' \in BOOLEAN /\ loadingMore' \in BOOLEAN /\ failed' \in BOOLEAN
       /\ requests = <<>> => loading'
  BY DEF ListInv, ListTypeOK, LoadsOK
<1> QED BY <1>3, <1>5, <1>6, <1>7, <1>8, <1>10, <1>11, GoingOnKeeps

\* A request that fails.
LEMMA FailuresKeep ==
    ASSUME TableTypeOK, UNCHANGED tableVars, ListInv, NEW i \in DOMAIN requests,
           LoadFails(i) \/ MoreFails(i)
    PROVE  ListInv'
<1> DEFINE r == [requests[i] EXCEPT !.state = "done", !.page = NoPage]
<1>1. requests[i] \in Requested
  BY DEF ListInv, RequestsOK
<1>2. NoPage \in Pages
  BY EmptySeq DEF NoPage, Pages
<1>3. /\ r \in Requested /\ r.kind = requests[i].kind /\ r.query = requests[i].query
      /\ r.cursor = requests[i].cursor /\ r.on = requests[i].on /\ r.state = "done"
      /\ r.steady = requests[i].steady
  BY <1>1, <1>2 DEF Requested
<1>4. requests' = [requests EXCEPT ![i] = r]
  BY DEF LoadFails, MoreFails, Settled
<1> HIDE DEF r
<1>5. /\ requests' \in Seq(Requested)
      /\ Len(requests') = Len(requests) /\ DOMAIN requests' = DOMAIN requests
      /\ requests'[i] = r
      /\ \A k \in DOMAIN requests : k # i => requests'[k] = requests[k]
      /\ Newest' = Newest
      /\ (requests' = <<>>) = (requests = <<>>)
  BY <1>3, <1>4, RequestMoves DEF ListInv
<1>6. \A k \in DOMAIN requests : GoesOn(k)
  BY <1>3, <1>5 DEF GoesOn, tableVars
<1>7. \A k \in DOMAIN requests, kind \in { "load", "more" } :
         Sent(k, kind)' <=> Sent(k, kind) /\ k # i
  BY <1>3, <1>5 DEF Sent
<1>8. requests # <<>>
  BY <1>5, EmptySeq DEF ListInv, RequestsOK
<1>9. UNCHANGED <<query, items, cursor, base, mixed>>
  BY DEF LoadFails, MoreFails
<1>10. /\ loading' \in BOOLEAN /\ loadingMore' \in BOOLEAN /\ failed' \in BOOLEAN
       /\ Spinners' /\ \A k \in DOMAIN requests : Sent(k, "more")' => loadingMore'
  <2>1. CASE LoadFails(i)
    <3>1. /\ ~Sent(i, "more")
          /\ loading' = FALSE /\ loadingMore' = loadingMore /\ failed' = TRUE
      BY <2>1 DEF LoadFails, Sent
    <3>2. loading' \in BOOLEAN /\ loadingMore' \in BOOLEAN /\ failed' \in BOOLEAN
      BY <3>1 DEF ListInv, ListTypeOK
    <3>3. Spinners' /\ \A k \in DOMAIN requests : Sent(k, "more")' => loadingMore'
      BY <1>5, <1>7, <3>1 DEF ListInv, Spinners, MoreOK
    <3> QED BY <3>2, <3>3
  <2>2. CASE MoreFails(i)
    <3>1. /\ Sent(i, "more") /\ ~Sent(i, "load")
          /\ loading' = loading /\ loadingMore' = FALSE /\ failed' = failed
      BY <2>2 DEF MoreFails, Sent
    <3>2. loading' \in BOOLEAN /\ loadingMore' \in BOOLEAN /\ failed' \in BOOLEAN
      BY <3>1 DEF ListInv, ListTypeOK
    <3>3. Spinners' /\ \A k \in DOMAIN requests : Sent(k, "more")' => loadingMore'
      BY <1>5, <1>7, <3>1 DEF ListInv, Spinners, MoreOK
    <3> QED BY <3>2, <3>3
  <2> QED BY <2>1, <2>2
<1> QED BY <1>5, <1>6, <1>8, <1>9, <1>10, GoingOnKeeps
\* What a page of a query is, for an anchor that is on the query's list or none.
LEMMA PageAnswers ==
    ASSUME TableTypeOK, NEW q \in Queries, NEW after \in Jobs \cup {Null},
           after # Null => Fits(q, after)
    PROVE  LET page == ListAllJobs(q.tab, q.search, after) IN
           /\ page \in Pages
           /\ InQuery(q, page.items, page.nextCursor)
           /\ after # Null => \A m \in DOMAIN page.items : Earlier(q.tab, after, page.items[m])
           /\ \A j \in Listed(q.tab, q.search) :
                 \/ after # Null /\ ~Earlier(q.tab, after, j)
                 \/ Reached(q, page.items, page.nextCursor, j)
<1>1. PICK tab, search : tab = q.tab /\ search = q.search
  OBVIOUS
<1>2. /\ tab \in Tabs /\ tab # Null /\ search \in Searches
      /\ Matches[search] \subseteq Jobs
  BY <1>1, ReadsAssumption DEF Queries, Tabs, EmailStatuses
<1>3. PICK page : page = ListAllJobs(tab, search, after)
  OBVIOUS
<1>4. /\ page \in Pages
      /\ \A m \in DOMAIN page.items : page.items[m] \in Candidates(tab, search, after)
      /\ \A m, n \in DOMAIN page.items : m < n => Earlier(tab, page.items[m], page.items[n])
      /\ page.nextCursor # Null =>
            page.items # <<>> /\ page.nextCursor = page.items[Len(page.items)]
      /\ \A j \in Candidates(tab, search, after) :
            \/ j \in ToSet(page.items)
            \/ page.nextCursor # Null /\ Earlier(tab, page.nextCursor, j)
  BY <1>3, EmailsInPages
<1>5. /\ Listed(tab, search) \subseteq InTab(tab) /\ InTab(tab) \subseteq Jobs
      /\ \A j \in InTab(tab) : Fits(q, j)
  BY <1>1, <1>2 DEF Listed, InTab, Inserted, Fits
<1>6. /\ \A j \in Candidates(tab, search, after) :
            j \in InTab(tab) /\ (after # Null => Earlier(tab, after, j))
      /\ \A j \in Listed(tab, search) :
            (after # Null => Earlier(tab, after, j)) => j \in Candidates(tab, search, after)
  <2>1. after # Null =>
           /\ AnchorFound(tab, after)
           /\ \A j \in Jobs : Follows(tab, after, j) <=> Earlier(tab, after, j)
    <3> SUFFICES ASSUME after # Null
                 PROVE  /\ AnchorFound(tab, after)
                        /\ \A j \in Jobs : Follows(tab, after, j) <=> Earlier(tab, after, j)
      OBVIOUS
    <3>1. after \in Jobs /\ status[after] # "ABSENT"
          /\ (tab = "SENT" => sentAt[after] # 0)
      BY <1>1 DEF Fits, Inserted, TableTypeOK
    <3> QED BY <3>1 DEF AnchorFound, Follows, Earlier
  <2>2. after = Null => ~AnchorFound(tab, after)
    BY DEF AnchorFound
  <2> QED BY <1>5, <2>1, <2>2 DEF Candidates
<1>8. InQuery(q, page.items, page.nextCursor)
  BY <1>1, <1>4, <1>5, <1>6 DEF InQuery
<1>9. after # Null => \A m \in DOMAIN page.items : Earlier(tab, after, page.items[m])
  BY <1>4, <1>6
<1>10. \A j \in Listed(tab, search) :
          \/ after # Null /\ ~Earlier(tab, after, j)
          \/ Reached(q, page.items, page.nextCursor, j)
  BY <1>1, <1>4, <1>6 DEF Reached
<1> QED BY <1>1, <1>3, <1>4, <1>8, <1>9, <1>10
\* A further page is asked for after a row of the list.
LEMMA CursorFits ==
    ASSUME ListTypeOK, RequestsOK, LoadsOK, ListHolds, Current, cursor # Null
    PROVE  /\ Fits(query, cursor) /\ Len(items) \in DOMAIN items
           /\ cursor = items[Len(items)]
<1>1. items # <<>> /\ cursor = items[Len(items)] /\ InQuery(query, items, cursor)
  BY DEF ListHolds, InQuery
<1>2. Len(items) \in DOMAIN items
  BY <1>1, LenProperties, EmptySeq DEF ListTypeOK
<1> QED BY <1>1, <1>2 DEF InQuery

\* A request that is served.
LEMMA ServingKeeps ==
    ASSUME TableTypeOK, UNCHANGED tableVars, ListInv, NEW i \in DOMAIN requests, Serve(i)
    PROVE  ListInv'
<1>1. PICK q, c, page, steady :
         /\ q = requests[i].query /\ c = requests[i].cursor
         /\ page = ListAllJobs(q.tab, q.search, c)
         /\ steady = IF requests[i].kind = "load" THEN Listed(q.tab, q.search) ELSE {}
  OBVIOUS
<1>2. /\ requests[i] \in Requested /\ requests[i].state = "sent"
      /\ q \in Queries /\ c \in Jobs \cup {Null}
      /\ (requests[i].kind = "more") <=> c # Null
  <2>1. requests[i] \in Requested
    BY SteadyRows DEF ListInv
  <2>2. (requests[i].kind = "more") <=> requests[i].cursor # Null
    BY DEF ListInv, ListTypeOK
  <2>3. requests[i].state = "sent"
    BY DEF Serve
  <2> QED BY <1>1, <2>1, <2>2, <2>3 DEF Requested
<1>3. page \in Pages
  BY <1>1, EmailsInPages
<1>4. /\ steady \in SUBSET Jobs
      /\ \A j \in steady : status[j] = q.tab /\ j \in Matches[q.search]
  <2>1. q.tab # Null
    BY <1>2, ReadsAssumption DEF Queries, EmailStatuses
  <2> QED BY <1>1, <2>1 DEF Listed, InTab, Inserted
<1> DEFINE r == [requests[i] EXCEPT !.state = "served", !.page = page, !.steady = steady]
<1>5. /\ r \in Requested /\ r.kind = requests[i].kind /\ r.query = q /\ r.cursor = c
      /\ r.on = requests[i].on /\ r.state = "served" /\ r.page = page /\ r.steady = steady
  BY <1>1, <1>2, <1>3, <1>4 DEF Requested
<1>6. requests' = [requests EXCEPT ![i] = r]
  BY <1>1 DEF Serve
<1> HIDE DEF r
<1>7. /\ requests' \in Seq(Requested)
      /\ Len(requests') = Len(requests) /\ DOMAIN requests' = DOMAIN requests
      /\ requests'[i] = r
      /\ \A k \in DOMAIN requests : k # i => requests'[k] = requests[k]
      /\ Newest' = Newest
      /\ (requests' = <<>>) = (requests = <<>>)
  BY <1>5, <1>6, RequestMoves DEF ListInv
<1>8. UNCHANGED <<query, items, cursor, base, mixed, loading, loadingMore, failed>>
  BY DEF Serve
<1>9. /\ page.items \in Seq(Jobs) /\ page.nextCursor \in Jobs \cup {Null}
  BY <1>3 DEF Pages
<1>10. LoadPage(i)'
  <2> SUFFICES ASSUME requests[i].kind = "load" PROVE LoadPage(i)'
    BY <1>5, <1>7 DEF LoadPage
  <2>1. c = Null
    BY <1>2
  <2>2. /\ InQuery(q, page.items, page.nextCursor)
        /\ \A j \in Listed(q.tab, q.search) : Reached(q, page.items, page.nextCursor, j)
    BY <1>1, <1>2, <2>1, PageAnswers
  <2>3. \A j \in steady : j \in Jobs /\ (q.tab = "SENT" => status[j] = "SENT")
    BY <1>4
  <2>4. steady = Listed(q.tab, q.search)
    BY <1>1
  <2>5. /\ InQuery(q, page.items, page.nextCursor)'
        /\ \A j \in steady : Reached(q, page.items, page.nextCursor, j)'
    BY <1>2, <1>9, <2>2, <2>3, <2>4, ListsOutlive
  <2> QED BY <1>5, <1>7, <2>5 DEF LoadPage
<1>11. MorePage(i)'
  <2>1. Current' => Current
    BY <1>7, <1>8 DEF Current
  <2> SUFFICES ASSUME requests[i].kind = "more", requests[i].on = base, Current
               PROVE  MorePage(i)'
    BY <1>5, <1>7, <1>8, <2>1 DEF MorePage
  <2>2. /\ q = query /\ c = cursor /\ c # Null
    BY <1>1, <1>2 DEF ListInv, MoreOK, Sent, Current
  <2>3. Fits(q, c)
    BY <2>2, CursorFits DEF ListInv
  <2>4. /\ InQuery(q, page.items, page.nextCursor)
        /\ \A m \in DOMAIN page.items : Earlier(q.tab, c, page.items[m])
        /\ \A j \in Listed(q.tab, q.search) :
              \/ ~Earlier(q.tab, c, j)
              \/ Reached(q, page.items, page.nextCursor, j)
    BY <1>1, <1>2, <2>2, <2>3, PageAnswers
  <2>5. /\ base \in DOMAIN requests
        /\ \A j \in requests[base].steady :
              /\ j \in Jobs /\ (q.tab = "SENT" => status[j] = "SENT")
              /\ status[j] = q.tab /\ j \in Matches[q.search]
    BY <2>2, CurrentIs DEF ListInv
  <2>6. \A j \in requests[base].steady : j \in Listed(q.tab, q.search)
    BY <1>2, <2>5 DEF Listed, InTab, Inserted, Queries
  <2>7. \A j \in requests[base].steady : j \in ToSet(items) \/ Earlier(q.tab, c, j)
    BY <2>2 DEF ListInv, ListHolds, Reached
  <2>8. /\ InQuery(q, page.items, page.nextCursor)'
        /\ \A j \in requests[base].steady :
              j \in ToSet(items) \/ Reached(q, page.items, page.nextCursor, j)'
    BY <1>2, <1>9, <2>4, <2>5, <2>6, <2>7, ListsOutlive
  <2>9. \A m \in DOMAIN page.items : Earlier(q.tab, c, page.items[m])'
    <3>1. \A m \in DOMAIN page.items :
             page.items[m] \in Jobs /\ (q.tab = "SENT" => status[page.items[m]] = "SENT")
      BY <1>9, <2>4, LenProperties DEF InQuery, Fits
    <3>2. c \in Jobs /\ (q.tab = "SENT" => status[c] = "SENT")
      BY <1>2, <2>2, <2>3 DEF Fits
    <3> QED BY <1>2, <2>4, <3>1, <3>2, ListsOutlive
  <2>10. requests'[base].steady = requests[base].steady
    <3>1. requests[base].kind = "load"
      BY DEF ListInv, LoadsOK, Current
    <3> QED BY <1>7, <2>5, <3>1
  <2>11. requests'[i].page = page /\ query' = q /\ cursor' = c /\ base' = base /\ items' = items
    BY <1>5, <1>7, <1>8, <2>2
  <2> QED BY <2>8, <2>9, <2>10, <2>11 DEF MorePage
<1>12. \A k \in DOMAIN requests : GoesOn(k)
  BY <1>1, <1>2, <1>4, <1>5, <1>7, <1>10, <1>11 DEF GoesOn, tableVars
<1>13. \A k \in DOMAIN requests, kind \in { "load", "more" } :
          Sent(k, kind)' <=> Sent(k, kind)
  BY <1>2, <1>5, <1>7 DEF Sent
<1>14. /\ Spinners' /\ \A k \in DOMAIN requests : Sent(k, "more")' => loadingMore'
  BY <1>7, <1>8, <1>13 DEF ListInv, Spinners, MoreOK
<1>15. /\ loading' \in BOOLEAN /\ loadingMore' \in BOOLEAN /\ failed' \in BOOLEAN
       /\ requests = <<>> => loading'
  BY <1>8 DEF ListInv, ListTypeOK, LoadsOK
<1> QED BY <1>7, <1>8, <1>12, <1>14, <1>15, GoingOnKeeps
\* A request that is added, with the list as it is, keeps what is known of the
\* requests before it.
LEMMA AddingKeeps ==
    ASSUME TableTypeOK, UNCHANGED tableVars, ListInv, NEW r \in Requested,
           requests' = Append(requests, r), r.state = "sent", r.steady = {},
           r.kind = "load" => query' = r.query,
           r.kind = "more" => UNCHANGED query,
           UNCHANGED <<items, cursor, base, mixed>>
    PROVE  /\ RequestsOK' /\ ListHolds'
           /\ \A i \in DOMAIN requests' : LoadPage(i)' /\ MorePage(i)'
<1>0. PICK n : n = Len(requests)
  OBVIOUS
<1>1. /\ requests' \in Seq(Requested)
      /\ Len(requests') = n + 1 /\ n \in Nat
      /\ DOMAIN requests = 1 .. n
      /\ DOMAIN requests' = 1 .. n + 1
      /\ requests'[n + 1] = r
      /\ \A k \in DOMAIN requests : requests'[k] = requests[k]
      /\ Newest \in 0 .. n
      /\ r.kind = "load" => Newest' = n + 1
      /\ r.kind # "load" => Newest' = Newest
  BY <1>0, RequestAdded DEF ListInv
<1>2. base \in 0 .. n
  BY <1>0 DEF ListInv, ListTypeOK
<1>3. RequestsOK'
  <2> SUFFICES ASSUME NEW i \in DOMAIN requests', NEW j \in requests'[i].steady
               PROVE  /\ status'[j] = requests'[i].query.tab
                      /\ j \in Matches[requests'[i].query.search]
    BY <1>1 DEF RequestsOK
  <2>1. i \in DOMAIN requests /\ requests'[i] = requests[i]
    BY <1>1
  <2> QED BY <2>1 DEF ListInv, RequestsOK, tableVars
<1>4. \A i \in DOMAIN requests : LoadPage(i)'
  BY <1>1, LoadPageStays DEF ListInv
<1>5. LoadPage(n + 1)' /\ MorePage(n + 1)'
  BY <1>1 DEF LoadPage, MorePage
<1>6. CASE r.kind = "load"
  <2>1. ~Current'
    BY <1>1, <1>2, <1>6 DEF Current
  <2> QED BY <1>1, <1>3, <1>4, <1>5, <2>1 DEF ListHolds, MorePage
<1>7. CASE r.kind # "load"
  <2>1. Newest' = Newest /\ UNCHANGED query
    BY <1>1, <1>7 DEF Requested
  <2>2. CASE base = 0
    BY <1>1, <1>3, <1>4, <1>5, <2>2 DEF ListHolds, MorePage, Current
  <2>3. CASE base # 0
    <3>1. requests'[base].steady = requests[base].steady
      BY <1>1, <1>2, <2>3
    <3>2. ListHolds' /\ \A i \in DOMAIN requests : MorePage(i)'
      BY <1>1, <2>1, <3>1, ListStays DEF ListInv
    <3> QED BY <1>1, <1>3, <1>4, <1>5, <3>2
  <2> QED BY <2>2, <2>3
<1> QED BY <1>6, <1>7

\* A load is sent.
LEMMA LoadingKeeps ==
    ASSUME TableTypeOK, UNCHANGED tableVars, ListInv, NEW q \in Queries,
           LoadJobs(q), query' = q
    PROVE  ListInv'
<1> DEFINE r == Request("load", q, Null)
<1>0. PICK n : n = Len(requests)
  OBVIOUS
<1>1. base \in Nat
  BY LenProperties DEF ListInv, ListTypeOK, RequestsOK
<1>2. /\ r \in Requested /\ r.kind = "load" /\ r.query = q /\ r.state = "sent"
      /\ r.steady = {} /\ r.cursor = Null
  BY <1>1, EmptySeq DEF Request, Requested, NoPage, Pages
<1>3. /\ requests' = Append(requests, r) /\ Len(requests) < MaxRequests
      /\ loading' = TRUE /\ failed' = FALSE
      /\ UNCHANGED <<items, cursor, loadingMore, base, mixed>>
  BY DEF LoadJobs, MayAsk
<1> HIDE DEF r
<1>4. /\ requests' \in Seq(Requested)
      /\ Len(requests') = n + 1 /\ n \in Nat
      /\ DOMAIN requests = 1 .. n
      /\ DOMAIN requests' = 1 .. n + 1
      /\ requests'[n + 1] = r
      /\ \A k \in DOMAIN requests : requests'[k] = requests[k]
      /\ Newest' = n + 1 /\ requests' # <<>>
  BY <1>0, <1>2, <1>3, RequestAdded DEF ListInv
<1>5. /\ RequestsOK' /\ ListHolds'
      /\ \A i \in DOMAIN requests' : LoadPage(i)' /\ MorePage(i)'
  BY <1>2, <1>3, AddingKeeps
<1>6. ListTypeOK'
  <2>1. \A i \in DOMAIN requests' :
           /\ requests'[i].kind \in { "load", "more" }
           /\ requests'[i].state \in { "sent", "served", "done" }
           /\ requests'[i].kind = "more" <=> requests'[i].cursor # Null
    BY <1>2, <1>4 DEF ListInv, ListTypeOK
  <2>2. Len(requests') \in 0 .. MaxRequests /\ base' \in 0 .. Len(requests')
    BY <1>0, <1>3, <1>4, ListAssumption DEF ListInv, ListTypeOK
  <2> QED BY <1>3, <2>1, <2>2 DEF ListInv, ListTypeOK
<1>7. LoadsOK'
  BY <1>2, <1>3, <1>4 DEF ListInv, ListTypeOK, LoadsOK
<1>8. \A i \in DOMAIN requests' : Sent(i, "more")' => i \in DOMAIN requests /\ Sent(i, "more")
  BY <1>2, <1>4 DEF Sent
<1>9. MoreOK'
  BY <1>3, <1>4, <1>8 DEF ListInv, MoreOK
<1>10. Spinners'
  <2>1. Sent(n + 1, "load")'
    BY <1>2, <1>4 DEF Sent
  <2>2. \A i \in DOMAIN requests : Sent(i, "more") => Sent(i, "more")'
    BY <1>4 DEF Sent
  <2> QED BY <1>3, <1>4, <2>1, <2>2 DEF ListInv, Spinners
<1> QED BY <1>5, <1>6, <1>7, <1>9, <1>10 DEF ListInv
\* "Load more" is pressed.
LEMMA LoadingMoreKeeps ==
    ASSUME TableTypeOK, UNCHANGED tableVars, ListInv, LoadMore
    PROVE  ListInv'
<1> DEFINE r == Request("more", query, cursor)
<1>0. PICK n : n = Len(requests)
  OBVIOUS
<1>1. /\ base \in 1 .. n /\ n \in Nat /\ cursor # Null /\ loadingMore = FALSE
      /\ query \in Queries /\ cursor \in Jobs
  BY <1>0, LenProperties DEF LoadMore, ListInv, ListTypeOK, RequestsOK, LoadsOK
<1>2. /\ r \in Requested /\ r.kind = "more" /\ r.query = query /\ r.state = "sent"
      /\ r.steady = {} /\ r.cursor = cursor /\ r.on = base
  BY <1>1, EmptySeq DEF Request, Requested, NoPage, Pages
<1>3. /\ requests' = Append(requests, r) /\ Len(requests) < MaxRequests
      /\ loadingMore' = TRUE
      /\ UNCHANGED <<query, items, cursor, loading, failed, base, mixed>>
  BY DEF LoadMore, MayAsk
<1> HIDE DEF r
<1>4. /\ requests' \in Seq(Requested)
      /\ Len(requests') = n + 1
      /\ DOMAIN requests = 1 .. n
      /\ DOMAIN requests' = 1 .. n + 1
      /\ requests'[n + 1] = r
      /\ \A k \in DOMAIN requests : requests'[k] = requests[k]
      /\ Newest' = Newest /\ requests' # <<>> /\ Newest \in 0 .. n
  BY <1>0, <1>2, <1>3, RequestAdded DEF ListInv
<1>5. /\ RequestsOK' /\ ListHolds'
      /\ \A i \in DOMAIN requests' : LoadPage(i)' /\ MorePage(i)'
  BY <1>2, <1>3, AddingKeeps
<1>6. ListTypeOK'
  <2>1. \A i \in DOMAIN requests' :
           /\ requests'[i].kind \in { "load", "more" }
           /\ requests'[i].state \in { "sent", "served", "done" }
           /\ requests'[i].kind = "more" <=> requests'[i].cursor # Null
    BY <1>1, <1>2, <1>4 DEF ListInv, ListTypeOK
  <2>2. Len(requests') \in 0 .. MaxRequests /\ base' \in 0 .. Len(requests')
    BY <1>0, <1>1, <1>3, <1>4, ListAssumption
  <2> QED BY <1>3, <2>1, <2>2 DEF ListInv, ListTypeOK
<1>7. requests # <<>>
  BY <1>1, <1>4
<1>8. LoadsOK'
  BY <1>1, <1>3, <1>4, <1>7 DEF ListInv, LoadsOK
<1>9. \A i \in DOMAIN requests' : Sent(i, "more")' => i = n + 1
  BY <1>1, <1>4 DEF Sent, ListInv, MoreOK
<1>10. MoreOK'
  <2>1. base \in DOMAIN requests' /\ requests'[base].state = "done"
    BY <1>1, <1>4 DEF ListInv, LoadsOK
  <2> QED BY <1>2, <1>3, <1>4, <1>9, <2>1 DEF MoreOK
<1>11. Spinners'
  <2>1. Sent(n + 1, "more")'
    BY <1>1, <1>2, <1>4 DEF Sent
  <2>2. \A i \in DOMAIN requests : Sent(i, "load") => Sent(i, "load")'
    BY <1>1, <1>4 DEF Sent
  <2> QED BY <1>1, <1>3, <1>4, <1>7, <2>1, <2>2 DEF ListInv, Spinners
<1> QED BY <1>5, <1>6, <1>8, <1>10, <1>11 DEF ListInv

\* A reply to a load.
LEMMA LoadedKeeps ==
    ASSUME TableTypeOK, UNCHANGED tableVars, ListInv, NEW i \in DOMAIN requests,
           LoadArrives(i)
    PROVE  ListInv'
<1> DEFINE r == [requests[i] EXCEPT !.state = "done", !.page = NoPage]
<1>1. /\ requests[i] \in Requested /\ requests[i].kind = "load"
      /\ requests[i].state = "served" /\ requests[i].query \in Queries
      /\ requests[i].page.items \in Seq(Jobs)
      /\ requests[i].page.nextCursor \in Jobs \cup {Null}
      /\ \A j \in requests[i].steady :
            j \in Jobs /\ (requests[i].query.tab = "SENT" => status[j] = "SENT")
  BY SteadyRows DEF LoadArrives, ListInv
<1>2. NoPage \in Pages
  BY EmptySeq DEF NoPage, Pages
<1>3. /\ r \in Requested /\ r.kind = "load" /\ r.query = requests[i].query
      /\ r.cursor = requests[i].cursor /\ r.on = requests[i].on /\ r.state = "done"
      /\ r.steady = requests[i].steady
  BY <1>1, <1>2 DEF Requested
<1>4. /\ requests' = [requests EXCEPT ![i] = r]
      /\ items' = requests[i].page.items /\ cursor' = requests[i].page.nextCursor
      /\ loading' = FALSE /\ base' = i /\ mixed' = FALSE
      /\ UNCHANGED <<query, loadingMore, failed>>
  BY DEF LoadArrives, Settled
<1> HIDE DEF r
<1>5. /\ requests' \in Seq(Requested)
      /\ Len(requests') = Len(requests) /\ DOMAIN requests' = DOMAIN requests
      /\ requests'[i] = r
      /\ \A k \in DOMAIN requests : k # i => requests'[k] = requests[k]
      /\ Newest' = Newest
      /\ (requests' = <<>>) = (requests = <<>>)
  BY <1>1, <1>3, <1>4, RequestMoves DEF ListInv
<1>6. /\ DOMAIN requests = 1 .. Len(requests) /\ Len(requests) \in Nat
      /\ requests # <<>>
  BY LenProperties, EmptySeq DEF ListInv, RequestsOK
<1>7. ListTypeOK'
  <2>1. \A k \in DOMAIN requests :
           /\ requests'[k].kind \in { "load", "more" }
           /\ requests'[k].state \in { "sent", "served", "done" }
           /\ requests'[k].kind = "more" <=> requests'[k].cursor # Null
    BY <1>1, <1>3, <1>5 DEF ListInv, ListTypeOK
  <2>2. base' \in 0 .. Len(requests')
    BY <1>4, <1>5, <1>6
  <2> QED BY <1>1, <1>4, <1>5, <2>1, <2>2 DEF ListInv, ListTypeOK
<1>8. RequestsOK'
  <2>1. \A k \in DOMAIN requests : /\ requests'[k].steady = requests[k].steady
                                   /\ requests'[k].query = requests[k].query
    BY <1>3, <1>5
  <2> QED BY <1>5, <2>1 DEF ListInv, RequestsOK, tableVars
<1>9. LoadsOK'
  <2>1. Newest \in DOMAIN requests /\ query = requests[Newest].query
    <3>1. requests \in Seq(Requested)
      BY DEF ListInv, RequestsOK
    <3>2. Newest \in 0 .. Len(requests)
      BY <3>1, NewestIs DEF Newest
    <3> QED BY <1>6, <3>2 DEF ListInv, LoadsOK
  <2>2. requests'[Newest].query = requests[Newest].query
    BY <1>3, <1>5, <2>1
  <2>3. i # 0
    BY <1>6
  <2> QED BY <1>3, <1>4, <1>5, <1>6, <2>1, <2>2, <2>3 DEF LoadsOK
<1>10. \A k \in DOMAIN requests : Sent(k, "more")' => Sent(k, "more") /\ k # i
  BY <1>3, <1>5 DEF Sent
<1>11. \A k \in DOMAIN requests : Sent(k, "more") => requests[k].on # i
  BY <1>1 DEF ListInv, MoreOK
<1>12. MoreOK'
  BY <1>4, <1>5, <1>10, <1>11 DEF ListInv, MoreOK
<1>13. ListHolds'
  <2> SUFFICES ASSUME Current' PROVE ListHolds'
    BY DEF ListHolds
  <2>1. PICK q, l, a : /\ q = requests[i].query /\ l = requests[i].page.items
                       /\ a = requests[i].page.nextCursor
    OBVIOUS
  <2>2. query' = q
    BY <1>4, <1>5, <1>6, <2>1 DEF Current, ListInv, LoadsOK
  <2>3. InQuery(q, l, a) /\ \A j \in requests[i].steady : Reached(q, l, a, j)
    BY <1>1, <2>1 DEF ListInv, LoadPage
  <2>4. InQuery(q, l, a)' /\ \A j \in requests[i].steady : Reached(q, l, a, j)'
    BY <1>1, <2>1, <2>3, ListsOutlive
  <2>5. items' = l /\ cursor' = a /\ base' = i /\ requests'[i].steady = requests[i].steady
    BY <1>3, <1>4, <1>5, <2>1
  <2> QED BY <2>2, <2>4, <2>5 DEF ListHolds
<1>14. ASSUME NEW k \in DOMAIN requests PROVE LoadPage(k)'
  <2>1. CASE k = i
    BY <1>3, <1>5, <2>1 DEF LoadPage
  <2>2. CASE k # i
    <3>1. requests'[k] = requests[k]
      BY <1>5, <2>2
    <3> QED BY <3>1, LoadPageStays DEF ListInv
  <2> QED BY <2>1, <2>2
<1>15. \A k \in DOMAIN requests : MorePage(k)'
  <2>1. \A k \in DOMAIN requests :
           requests'[k].kind = "more" /\ requests'[k].state = "served"
              => Sent(k, "more") /\ requests'[k].on = requests[k].on
    BY <1>3, <1>5 DEF Sent
  <2> QED BY <1>4, <1>11, <2>1 DEF MorePage
<1>16. Spinners'
  <2>1. \A k \in DOMAIN requests : Sent(k, "more") => Sent(k, "more")'
    BY <1>1, <1>5 DEF Sent
  <2> QED BY <1>4, <1>5, <2>1 DEF ListInv, Spinners
<1> QED BY <1>5, <1>7, <1>8, <1>9, <1>12, <1>13, <1>14, <1>15, <1>16 DEF ListInv
\* A further page continues a list.
LEMMA ListContinues ==
    ASSUME TableTypeOK, NEW q \in Queries,
           NEW list \in Seq(Jobs), NEW c \in Jobs, InQuery(q, list, c),
           NEW more \in Seq(Jobs), NEW after \in Jobs \cup {Null}, InQuery(q, more, after),
           \A m \in DOMAIN more : Earlier(q.tab, c, more[m])
    PROVE  /\ list \o more \in Seq(Jobs)
           /\ InQuery(q, list \o more, after)
           /\ \A j : j \in ToSet(list) \/ Reached(q, more, after, j)
                       => Reached(q, list \o more, after, j)
<1>1. PICK k, n, tab : k = Len(list) /\ n = Len(more) /\ tab = q.tab
  OBVIOUS
<1>2. /\ k \in Nat /\ n \in Nat
      /\ DOMAIN list = 1 .. k /\ DOMAIN more = 1 .. n
      /\ \A m \in 1 .. k : list[m] \in Jobs
      /\ \A m \in 1 .. n : more[m] \in Jobs
  BY <1>1, LenProperties
<1>3. PICK whole : whole = list \o more
  OBVIOUS
<1>4. /\ whole \in Seq(Jobs) /\ Len(whole) = k + n
      /\ \A m \in 1 .. k + n : whole[m] = IF m <= k THEN list[m] ELSE more[m - k]
  BY <1>1, <1>3, ConcatProperties
<1>5. DOMAIN whole = 1 .. k + n
  BY <1>4, LenProperties
<1>6. list # <<>> /\ c = list[k] /\ k \in 1 .. k
  <2>1. c # Null
    BY ReadsAssumption
  <2> QED BY <1>1, <1>2, <2>1, EmptySeq DEF InQuery
<1>7. ASSUME NEW m \in 1 .. k + n PROVE Fits(q, whole[m])
  <2>1. CASE m <= k
    <3>1. m \in 1 .. k /\ whole[m] = list[m]
      BY <1>2, <1>4, <2>1
    <3> QED BY <1>2, <3>1 DEF InQuery
  <2>2. CASE ~(m <= k)
    <3>1. m - k \in 1 .. n /\ whole[m] = more[m - k]
      BY <1>2, <1>4, <2>2
    <3> QED BY <1>2, <3>1 DEF InQuery
  <2> QED BY <2>1, <2>2
<1>8. ASSUME NEW l \in 1 .. k, NEW m \in 1 .. n PROVE Earlier(tab, list[l], more[m])
  <2>1. Earlier(tab, c, more[m])
    BY <1>1, <1>2
  <2>2. l = k \/ Earlier(tab, list[l], list[k])
    BY <1>1, <1>2, <1>6 DEF InQuery
  <2> QED BY <1>2, <1>6, <2>1, <2>2, RowsAreOrdered
<1>9. ASSUME NEW l \in 1 .. k + n, NEW m \in 1 .. k + n, l < m
      PROVE  Earlier(tab, whole[l], whole[m])
  <2>1. CASE m <= k
    <3>1. /\ l \in 1 .. k /\ m \in 1 .. k
          /\ whole[l] = list[l] /\ whole[m] = list[m]
      BY <1>2, <1>4, <1>9, <2>1
    <3> QED BY <1>1, <1>2, <1>9, <3>1 DEF InQuery
  <2>2. CASE k < l
    <3>1. /\ l - k \in 1 .. n /\ m - k \in 1 .. n /\ l - k < m - k
          /\ whole[l] = more[l - k] /\ whole[m] = more[m - k]
      BY <1>2, <1>4, <1>9, <2>2
    <3> QED BY <1>1, <1>2, <3>1 DEF InQuery
  <2>3. CASE l <= k /\ k < m
    <3>1. m - k \in 1 .. n /\ whole[l] = list[l] /\ whole[m] = more[m - k]
      BY <1>2, <1>4, <2>3
    <3> QED BY <1>2, <1>8, <2>3, <3>1
  <2> QED BY <1>2, <2>1, <2>2, <2>3
<1>10. after # Null => whole # <<>> /\ after = whole[k + n]
  <2> SUFFICES ASSUME after # Null PROVE whole # <<>> /\ after = whole[k + n]
    OBVIOUS
  <2>1. more # <<>> /\ after = more[n]
    BY <1>1 DEF InQuery
  <2>2. n # 0
    BY <1>1, <1>2, <2>1, EmptySeq
  <2>3. k + n \in 1 .. k + n /\ ~(k + n <= k) /\ (k + n) - k = n
    BY <1>2, <2>2
  <2> QED BY <1>4, <1>5, <2>1, <2>3, EmptySeq
<1>11. InQuery(q, whole, after)
  BY <1>1, <1>4, <1>5, <1>7, <1>9, <1>10 DEF InQuery
<1>12. \A j : j \in ToSet(list) \/ j \in ToSet(more) => j \in ToSet(whole)
  <2>1. ASSUME NEW j \in ToSet(list) PROVE j \in ToSet(whole)
    <3>1. PICK m \in 1 .. k : list[m] = j
      BY <1>2 DEF ToSet
    <3>2. m \in 1 .. k + n /\ whole[m] = j
      BY <1>2, <1>4, <3>1
    <3> QED BY <1>5, <3>2 DEF ToSet
  <2>2. ASSUME NEW j \in ToSet(more) PROVE j \in ToSet(whole)
    <3>1. PICK m \in 1 .. n : more[m] = j
      BY <1>2 DEF ToSet
    <3>2. m + k \in 1 .. k + n /\ whole[m + k] = j
      BY <1>2, <1>4, <3>1
    <3> QED BY <1>5, <3>2 DEF ToSet
  <2> QED BY <2>1, <2>2
<1> QED BY <1>3, <1>4, <1>11, <1>12 DEF Reached
\* A reply to "Load more".
LEMMA MoreKeeps ==
    ASSUME TableTypeOK, UNCHANGED tableVars, ListInv, NEW i \in DOMAIN requests,
           MoreArrives(i)
    PROVE  ListInv'
<1> DEFINE r == [requests[i] EXCEPT !.state = "done", !.page = NoPage]
<1>1. /\ requests[i] \in Requested /\ requests[i].kind = "more"
      /\ requests[i].state = "served" /\ Sent(i, "more")
      /\ requests[i].page.items \in Seq(Jobs)
      /\ requests[i].page.nextCursor \in Jobs \cup {Null}
  BY SteadyRows DEF MoreArrives, ListInv, Sent
<1>2. NoPage \in Pages
  BY EmptySeq DEF NoPage, Pages
<1>3. /\ r \in Requested /\ r.kind = "more" /\ r.query = requests[i].query
      /\ r.cursor = requests[i].cursor /\ r.on = requests[i].on /\ r.state = "done"
      /\ r.steady = requests[i].steady
  BY <1>1, <1>2 DEF Requested
<1>4. /\ requests' = [requests EXCEPT ![i] = r]
      /\ items' = items \o requests[i].page.items /\ cursor' = requests[i].page.nextCursor
      /\ loadingMore' = FALSE /\ mixed' = (mixed \/ requests[i].on # base)
      /\ UNCHANGED <<query, loading, failed, base>>
  BY DEF MoreArrives, Settled
<1> HIDE DEF r
<1>5. /\ requests' \in Seq(Requested)
      /\ Len(requests') = Len(requests) /\ DOMAIN requests' = DOMAIN requests
      /\ requests'[i] = r
      /\ \A k \in DOMAIN requests : k # i => requests'[k] = requests[k]
      /\ Newest' = Newest
      /\ (requests' = <<>>) = (requests = <<>>)
  BY <1>1, <1>3, <1>4, RequestMoves DEF ListInv
<1>6. /\ DOMAIN requests = 1 .. Len(requests) /\ Len(requests) \in Nat
      /\ requests # <<>>
  BY LenProperties, EmptySeq DEF ListInv, RequestsOK
<1>7. base # 0 /\ base \in DOMAIN requests /\ base # i
  <2>1. base # 0
    BY <1>1 DEF ListInv, MoreOK
  <2> QED BY <1>1, <1>6, <2>1 DEF ListInv, ListTypeOK, LoadsOK
<1>8. ListTypeOK'
  <2>1. \A k \in DOMAIN requests :
           /\ requests'[k].kind \in { "load", "more" }
           /\ requests'[k].state \in { "sent", "served", "done" }
           /\ requests'[k].kind = "more" <=> requests'[k].cursor # Null
    BY <1>1, <1>3, <1>5 DEF ListInv, ListTypeOK
  <2>2. items' \in Seq(Jobs)
    BY <1>1, <1>4, ConcatProperties DEF ListInv, ListTypeOK
  <2>3. mixed' \in BOOLEAN /\ loadingMore' \in BOOLEAN
    BY <1>4 DEF ListInv, ListTypeOK
  <2> QED BY <1>1, <1>4, <1>5, <2>1, <2>2, <2>3 DEF ListInv, ListTypeOK
<1>9. RequestsOK'
  <2>1. \A k \in DOMAIN requests : /\ requests'[k].steady = requests[k].steady
                                   /\ requests'[k].query = requests[k].query
    BY <1>3, <1>5
  <2> QED BY <1>5, <2>1 DEF ListInv, RequestsOK, tableVars
<1>10. LoadsOK'
  <2>1. Newest \in DOMAIN requests /\ query = requests[Newest].query
    <3>1. requests \in Seq(Requested)
      BY DEF ListInv, RequestsOK
    <3>2. Newest \in 0 .. Len(requests)
      BY <3>1, NewestIs DEF Newest
    <3> QED BY <1>6, <3>2 DEF ListInv, LoadsOK
  <2>2. requests'[Newest].query = requests[Newest].query
    BY <1>3, <1>5, <2>1
  <2>3. requests'[base] = requests[base]
    BY <1>5, <1>7
  <2> QED BY <1>4, <1>5, <1>6, <1>7, <2>1, <2>2, <2>3 DEF ListInv, LoadsOK
<1>11. \A k \in DOMAIN requests : ~Sent(k, "more")'
  BY <1>1, <1>3, <1>5 DEF ListInv, MoreOK, Sent
<1>12. MoreOK'
  BY <1>5, <1>11 DEF MoreOK
<1>13. ListHolds'
  <2> SUFFICES ASSUME Current' PROVE ListHolds'
    BY DEF ListHolds
  <2>1. Current /\ requests[i].on = base
    BY <1>4, <1>5 DEF Current
  <2>2. PICK q, l, c, m, a : /\ q = query /\ l = items /\ c = cursor
                             /\ m = requests[i].page.items
                             /\ a = requests[i].page.nextCursor
    OBVIOUS
  <2>3. /\ q \in Queries /\ l \in Seq(Jobs)
        /\ \A j \in requests[base].steady :
              j \in Jobs /\ (q.tab = "SENT" => status[j] = "SENT")
    BY <2>1, <2>2, CurrentIs DEF ListInv
  <2>4. c \in Jobs
    <3>1. requests[i].cursor = cursor /\ requests[i].cursor # Null
      BY <1>1, <2>1 DEF ListInv, MoreOK, ListTypeOK
    <3> QED BY <2>2, <3>1 DEF ListInv, ListTypeOK
  <2>5. InQuery(q, l, c) /\ \A j \in requests[base].steady : Reached(q, l, c, j)
    BY <2>1, <2>2 DEF ListInv, ListHolds
  <2>6. /\ InQuery(q, m, a)
        /\ \A k \in DOMAIN m : Earlier(q.tab, c, m[k])
        /\ \A j \in requests[base].steady : j \in ToSet(l) \/ Reached(q, m, a, j)
    BY <1>1, <2>1, <2>2 DEF ListInv, MorePage
  <2>7. PICK whole : whole = l \o m
    OBVIOUS
  <2>8. m \in Seq(Jobs) /\ a \in Jobs \cup {Null}
    BY <1>1, <2>2
  <2>9. /\ whole \in Seq(Jobs) /\ InQuery(q, whole, a)
        /\ \A j \in requests[base].steady : Reached(q, whole, a, j)
    BY <2>3, <2>4, <2>5, <2>6, <2>7, <2>8, ListContinues
  <2>10. /\ InQuery(q, whole, a)'
         /\ \A j \in requests[base].steady : Reached(q, whole, a, j)'
    BY <2>3, <2>8, <2>9, ListsOutlive
  <2>11. /\ query' = q /\ items' = whole /\ cursor' = a /\ base' = base
         /\ requests'[base].steady = requests[base].steady
    BY <1>4, <1>5, <1>7, <2>2, <2>7
  <2> QED BY <2>10, <2>11 DEF ListHolds
<1>14. ASSUME NEW k \in DOMAIN requests PROVE LoadPage(k)'
  <2>1. CASE k = i
    BY <1>3, <1>5, <2>1 DEF LoadPage
  <2>2. CASE k # i
    <3>1. requests'[k] = requests[k]
      BY <1>5, <2>2
    <3> QED BY <3>1, LoadPageStays DEF ListInv
  <2> QED BY <2>1, <2>2
<1>15. \A k \in DOMAIN requests : MorePage(k)'
  BY <1>5, <1>11 DEF MorePage, Sent
<1>16. Spinners'
  <2>1. \A k \in DOMAIN requests : Sent(k, "load") => Sent(k, "load")'
    BY <1>1, <1>5 DEF Sent
  <2> QED BY <1>4, <1>5, <2>1 DEF ListInv, Spinners
<1> QED BY <1>5, <1>8, <1>9, <1>10, <1>12, <1>13, <1>14, <1>15, <1>16 DEF ListInv

\* Every step of the list keeps what is known of it.
LEMMA ListSteps ==
    ASSUME TableTypeOK, UNCHANGED tableVars, ListInv, ListNext
    PROVE  ListInv'
<1>1. ASSUME NEW q \in Queries, SetQuery(q) PROVE ListInv'
  BY <1>1, LoadingKeeps DEF SetQuery
<1>2. CASE Refresh
  <2>1. query \in Queries
    BY DEF ListInv, ListTypeOK
  <2> QED BY <1>2, <2>1, LoadingKeeps DEF Refresh
<1>3. CASE LoadMore
  BY <1>3, LoadingMoreKeeps
<1>4. ASSUME NEW i \in DOMAIN requests, Serve(i) \/ Reply(i) PROVE ListInv'
  BY <1>4, ServingKeeps, LoadedKeeps, MoreKeeps, FailuresKeep DEF Reply
<1> QED BY <1>1, <1>2, <1>3, <1>4 DEF ListNext

\* A part of which nothing changes keeps what is known of it.
LEMMA PartsRest ==
    /\ EmailInv /\ UNCHANGED detailVars => EmailInv'
    /\ ShellInv /\ UNCHANGED shellVars => ShellInv'
    /\ SessionInv /\ UNCHANGED sessionVars => SessionInv'
<1>1. EmailInv /\ UNCHANGED detailVars => EmailInv'
  BY DEF EmailInv, detailVars, ShowsItsAddress
<1>2. ShellInv /\ UNCHANGED shellVars => ShellInv'
  BY DEF ShellInv, shellVars
<1>3. SessionInv /\ UNCHANGED sessionVars => SessionInv'
  BY DEF SessionInv, sessionVars, SessionTypeOK, ShownUserIsServed, InApp, Pending
<1> QED BY <1>1, <1>2, <1>3
\* And so does the list.
LEMMA ListRests ==
    ASSUME TableTypeOK, ListInv, UNCHANGED tableVars, UNCHANGED listVars
    PROVE  ListInv'
<1>1. UNCHANGED <<query, items, cursor, loading, loadingMore, failed, requests, base, mixed>>
  BY DEF listVars
<1>2. \A i \in DOMAIN requests : GoesOn(i)
  BY <1>1 DEF GoesOn, tableVars
<1>3. requests' \in Seq(Requested) /\ Newest' = Newest
  BY <1>1 DEF ListInv, RequestsOK, Newest
<1>4. \A i \in DOMAIN requests, kind \in { "load", "more" } :
         Sent(i, kind)' <=> Sent(i, kind)
  BY <1>1 DEF Sent
<1>5. Spinners' /\ \A i \in DOMAIN requests : Sent(i, "more")' => loadingMore'
  BY <1>1, <1>4 DEF ListInv, Spinners, MoreOK
<1>6. /\ loading' \in BOOLEAN /\ loadingMore' \in BOOLEAN /\ failed' \in BOOLEAN
      /\ requests = <<>> => loading'
  BY <1>1 DEF ListInv, ListTypeOK, LoadsOK
<1> QED BY <1>1, <1>2, <1>3, <1>5, <1>6, GoingOnKeeps

-------------------------------------------------------------------------------
(* The four parts together *)

BrowserInv ==
    /\ TableTypeOK /\ ListInv /\ EmailInv /\ ShellInv /\ SessionInv
    /\ watched \in { "list", "email", "badges", "session" }

\* It holds at first.
LEMMA BrowserStarts == Init => BrowserInv
<1> SUFFICES ASSUME Init PROVE BrowserInv
  OBVIOUS
<1>1. TableTypeOK
  BY ReadsAssumption DEF Init, TableInit, TableTypeOK
<1>2. ListInv
  <2>1. /\ requests = <<>> /\ items = <<>> /\ cursor = Null /\ base = 0
        /\ loading = TRUE /\ loadingMore = FALSE /\ failed = FALSE /\ mixed = FALSE
        /\ query \in Queries
    BY DEF Init, ListMounts
  <2>2. requests \in Seq(Requested) /\ Len(requests) = 0 /\ DOMAIN requests = {}
    BY <2>1, EmptySeq, LenProperties
  <2>3. ListTypeOK
    <3>1. items \in Seq(Jobs) /\ Len(requests) \in 0 .. MaxRequests
          /\ base \in 0 .. Len(requests)
      BY <2>1, <2>2, EmptySeq, ListAssumption
    <3>2. /\ loading \in BOOLEAN /\ loadingMore \in BOOLEAN
          /\ failed \in BOOLEAN /\ mixed \in BOOLEAN
      BY <2>1
    <3> QED BY <2>1, <2>2, <3>1, <3>2 DEF ListTypeOK
  <2>4. RequestsOK /\ LoadsOK /\ MoreOK /\ ListHolds /\ Spinners
    BY <2>1, <2>2 DEF RequestsOK, LoadsOK, MoreOK, ListHolds, Current, Spinners
  <2> QED BY <2>2, <2>3, <2>4 DEF ListInv
<1>3. EmailInv
  BY EmptySeq, DetailAssumption
     DEF Init, DetailMounts, EmailInv, Details, ShowsItsAddress
<1>4. ShellInv
  BY EmptySeq, ShellAssumption DEF Init, ShellMounts, ShellInv
<1>5. SessionInv
  <2>1. PICK me : /\ calls = {me} /\ me.kind = "me" /\ me.who = Nobody
                  /\ me.cookie = cookie /\ me.token = token
    BY CallIs DEF Init, SessionInit
  <2>2. /\ blocked \in BOOLEAN /\ cookie \in Accounts /\ token \in Accounts
        /\ user = Nobody /\ authStatus = "loading" /\ busy = FALSE
        /\ logins = 0 /\ reloads = 0 /\ late = FALSE /\ signedOut = FALSE
    BY DEF Init, SessionInit, Accounts
  <2>3. SessionTypeOK
    <3>1. logins \in 0 .. MaxLogins /\ reloads \in 0 .. MaxReloads
      BY <2>2, SessionAssumption
    <3>2. \A c \in calls : /\ c.kind \in { "me", "login", "logout" }
                           /\ { c.cookie, c.token, c.who } \subseteq Accounts
      BY <2>1, <2>2 DEF Accounts
    <3>3. user \in Accounts
      BY <2>2 DEF Accounts
    <3> QED BY <2>2, <3>1, <3>2, <3>3 DEF SessionTypeOK
  <2> QED BY <2>1, <2>2, <2>3 DEF SessionInv, ShownUserIsServed, InApp, Pending
<1> QED BY <1>1, <1>2, <1>3, <1>4, <1>5 DEF BrowserInv, Init

\* Every step keeps it: of the part that is watched, or of the rows.
LEMMA BrowserSteps == BrowserInv /\ [Next]_browserVars => BrowserInv'
<1> SUFFICES ASSUME BrowserInv, [Next]_browserVars PROVE BrowserInv'
  OBVIOUS
<1>1. /\ TableTypeOK /\ ListInv /\ EmailInv /\ ShellInv /\ SessionInv
      /\ watched \in { "list", "email", "badges", "session" }
  BY DEF BrowserInv
<1>2. UNCHANGED tableVars => TableTypeOK'
  BY <1>1 DEF TableTypeOK, tableVars
<1>3. CASE ListStep
  BY <1>1, <1>2, <1>3, ListSteps, PartsRest DEF ListStep, BrowserInv
<1>4. CASE EmailStep
  BY <1>1, <1>2, <1>4, EmailSteps, PartsRest, ListRests DEF EmailStep, BrowserInv
<1>5. CASE BadgesStep
  BY <1>1, <1>2, <1>5, ShellSteps, PartsRest, ListRests DEF BadgesStep, BrowserInv
<1>6. CASE SessionStep
  BY <1>1, <1>2, <1>6, SessionSteps, PartsRest, ListRests DEF SessionStep, BrowserInv
<1>7. CASE RowStep
  BY <1>1, <1>7, RowsAdvance, RowsMoveOn, PartsRest DEF RowStep, BrowserInv
<1>8. CASE UNCHANGED browserVars
  BY <1>1, <1>2, <1>8, PartsRest, ListRests DEF browserVars, BrowserInv
<1> QED BY <1>3, <1>4, <1>5, <1>6, <1>7, <1>8 DEF Next

LEMMA BrowserAlways == Spec => []BrowserInv
BY BrowserStarts, BrowserSteps, PTL DEF Spec

\* The four parts and the rows keep their types.
THEOREM BrowserIsTyped == Spec => []TypeOK
<1>1. BrowserInv => TypeOK
  <2> SUFFICES ASSUME BrowserInv PROVE TypeOK
    OBVIOUS
  <2>1. ListTypeOK /\ SessionTypeOK
    BY DEF BrowserInv, ListInv, SessionInv
  <2>2. DetailTypeOK
    <3>1. /\ detail \in Details /\ fetches \in Seq(Fetches)
          /\ Len(fetches) <= MaxFetches
      BY DEF BrowserInv, EmailInv
    <3>2. \A i \in DOMAIN fetches : fetches[i] \in Fetches
      BY <3>1
    <3>3. Len(fetches) \in 0 .. MaxFetches
      BY <3>1, LenProperties, DetailAssumption
    <3>4. /\ detail.id \in Jobs \cup {Null} /\ detail.job \in Jobs \cup {Null}
          /\ detail.loading \in BOOLEAN /\ detail.error \in BOOLEAN
      BY <3>1 DEF Details
    <3>5. \A i \in DOMAIN fetches : fetches[i].id \in Jobs
      BY <3>2 DEF Fetches
    <3> QED BY <3>3, <3>4, <3>5 DEF DetailTypeOK
  <2>3. ShellTypeOK
    BY LenProperties, ShellAssumption DEF BrowserInv, ShellInv, ShellTypeOK
  <2> QED BY <2>1, <2>2, <2>3 DEF BrowserInv, TypeOK
<1> QED BY <1>1, BrowserAlways, PTL

\* The list of campaigns and the rows of a campaign, whatever the filter, each
\* read to its end while nothing changes, have every row once: in every state, not
\* only in those of the part that is watched when a run checks it.
THEOREM ListingsReadInFull == Spec => [](PagesAddUp /\ ListingsAddUp)
<1>1. BrowserInv => PagesAddUp /\ ListingsAddUp
  BY CampaignsAddUp, JobsAddUp DEF ListingsAddUp, PagesAddUp
<1> QED BY <1>1, BrowserAlways, PTL

\* In whatever order pages and reloads are asked for and come back, and however
\* the rows move between them, a list that is shown for what was last asked for
\* is in strict order: no email twice.
THEOREM ListStaysSorted == Spec => []ListIsSorted
<1>1. BrowserInv => ListIsSorted
  <2> SUFFICES ASSUME BrowserInv, InOrder
               PROVE  \A m, n \in DOMAIN items : m < n => Precedes(items[m], items[n])
    BY DEF ListIsSorted
  <2>1. CASE base = 0
    BY <2>1, EmptySeq, LenProperties DEF BrowserInv, ListInv, LoadsOK
  <2>2. CASE base # 0
    <3>1. InQuery(query, items, cursor)
      BY <2>2 DEF InOrder, Current, BrowserInv, ListInv, ListHolds
    <3> QED BY <3>1 DEF InQuery, Precedes
  <2> QED BY <2>1, <2>2
<1> QED BY <1>1, BrowserAlways, PTL

\* An email that stays in the tab is never lost between two pages.
THEOREM NothingSkipped == Spec => []NothingIsSkipped
<1>1. BrowserInv => NothingIsSkipped
  <2> SUFFICES ASSUME BrowserInv, InOrder, NEW j \in requests[base].steady
               PROVE  j \in ToSet(items) \/ (cursor # Null /\ Precedes(cursor, j))
    BY DEF NothingIsSkipped
  <2>1. base # 0
    BY DEF InOrder, BrowserInv, ListInv, LoadsOK
  <2>2. Reached(query, items, cursor, j)
    BY <2>1 DEF InOrder, Current, BrowserInv, ListInv, ListHolds
  <2> QED BY <2>2 DEF Reached, Precedes
<1> QED BY <1>1, BrowserAlways, PTL

\* The page of an email never shows another one.
THEOREM EmailMatchesAddress == Spec => []ShowsItsAddress
<1>1. BrowserInv => ShowsItsAddress
  BY DEF BrowserInv, EmailInv
<1> QED BY <1>1, BrowserAlways, PTL

\* The cookie, the stored token and the page name one user, for any number of
\* sign-ins, sign-outs and reloads.
THEOREM OneUserEverywhere == Spec => []ShownUserIsServed
<1>1. BrowserInv => ShownUserIsServed
  BY DEF BrowserInv, SessionInv
<1> QED BY <1>1, BrowserAlways, PTL

\* An answered sign-out lasts until the next sign-in.
THEOREM SignOutLasts == Spec => []SignedOutMeansOut
<1>1. BrowserInv => SignedOutMeansOut
  BY DEF BrowserInv, SessionInv, SignedOutMeansOut, Identified
<1> QED BY <1>1, BrowserAlways, PTL

\* Whatever says that it is loading waits for a request of its own.
THEOREM NoSpinnerIsLeft == Spec => []SpinnersAreBacked
<1>1. BrowserInv => SpinnersAreBacked
  <2> SUFFICES ASSUME BrowserInv PROVE SpinnersAreBacked
    OBVIOUS
  <2>1. Spinners
    BY DEF BrowserInv, ListInv
  <2> QED BY <2>1 DEF Spinners, Sent, SpinnersAreBacked, BrowserInv, EmailInv, SessionInv
<1> QED BY <1>1, BrowserAlways, PTL
===============================================================================
