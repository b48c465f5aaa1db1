--------------------------- MODULE SubmissionProofs ---------------------------
(***************************************************************************)
(* However many requests race with one key, and whatever fails on the way, *)
(* a key means one campaign of its user.  The invariant ties each request  *)
(* to the campaign it has found or created, through the unique index.  All *)
(* of it holds for the clients of Submission too, whose every step is one  *)
(* of CampaignCreation; what they add is proved last.                      *)
(***************************************************************************)
EXTENDS Submission, DataLemmas

Shapes ==
    /\ stage \in [Requests -> Stages]
    /\ result \in [Requests -> Campaigns \cup {NoCampaign}]
    /\ created \in [Requests -> BOOLEAN]
    /\ DOMAIN campaigns = Campaigns
    /\ DOMAIN input = Requests

\* A request that came in has a parsed body.
Parsed == \A q \in Requests : stage[q] # "idle" => input[q] \in Bodies

\* The unique index.
KeysUnique ==
    \A c, d \in Campaigns :
        /\ campaigns[c].owner = campaigns[d].owner
        /\ campaigns[c].key = campaigns[d].key
        /\ campaigns[c].key # NoKey
        => c = d

\* A result is a campaign of the request's user and key.
ResultsMatch ==
    \A q \in Requests :
        result[q] # NoCampaign =>
            /\ Exists(result[q])
            /\ campaigns[result[q]].owner = input[q].user
            /\ campaigns[result[q]].key = input[q].key

Undecided == { "idle", "lookup", "check", "commit", "recover" }
Decided ==
    \A q \in Requests :
        /\ stage[q] \in Undecided => result[q] = NoCampaign
        /\ created[q] => result[q] # NoCampaign
        /\ stage[q] \in { "enqueue", "answered" } => result[q] # NoCampaign

\* One request creates a campaign.
OneCreator ==
    \A p, q \in Requests :
        created[p] /\ created[q] /\ result[p] = result[q] => p = q

\* It has the rows that were planned for that request.
RowsPlanned ==
    \A q \in Requests :
        created[q] => campaigns[result[q]].rows = PlannedRows(input[q])

IInv ==
    /\ Shapes /\ Parsed /\ KeysUnique
    /\ ResultsMatch /\ Decided /\ OneCreator /\ RowsPlanned

\* A request in the catch block has its key in the index.
RecoverFinds ==
    \A q \in Requests :
        stage[q] = "recover" => WithKey(input[q].user, input[q].key) # {}

NoNullInput == \A in \in Bodies : in.user # NoCampaign

-------------------------------------------------------------------------------

\* The user of a parsed request is not the owner of a row not inserted.
LEMMA UsersAreUsers == NoNullInput
  BY CreationAssumption DEF CreationAssumption, NoNullInput, Bodies

\* The rows planned for a request are its recipients, each once, and senders
\* it names; they never collide.
LEMMA RowsOfBody ==
  ASSUME NEW in \in Bodies
  PROVE  /\ PlannedRows(in) \in Seq([to : Addresses, sender : Senders])
         /\ { PlannedRows(in)[i].to : i \in DOMAIN PlannedRows(in) }
               = { Lower[a] : a \in ToSet(in.recipients) }
         /\ Len(PlannedRows(in)) = Cardinality({ Lower[a] : a \in ToSet(in.recipients) })
         /\ ~Collide(PlannedRows(in))
         /\ \A i \in DOMAIN PlannedRows(in) :
               PlannedRows(in)[i].sender \in ToSet(in.senders)
<1> DEFINE list == [i \in DOMAIN in.recipients |-> Lower[in.recipients[i]]]
           to == Distinct(list)
           ids == Distinct(in.senders)
           rows == PlannedRows(in)
           named == { Lower[a] : a \in ToSet(in.recipients) }
<1>1. in.recipients \in Seq(Addresses) /\ in.senders \in Seq(Senders) /\ in.senders # <<>>
  BY DEF Bodies
<1>2. list \in Seq(Addresses) /\ ToSet(list) = named
  <2>1. /\ Len(in.recipients) \in Nat /\ DOMAIN in.recipients = 1 .. Len(in.recipients)
        /\ \A i \in DOMAIN in.recipients : in.recipients[i] \in Addresses
    BY <1>1
  <2>2. list \in [1 .. Len(in.recipients) -> Addresses]
    BY <2>1, CreationAssumption DEF CreationAssumption
  <2>3. list \in Seq(Addresses)
    BY <2>1, <2>2, FunctionIsList
  <2> QED BY <2>1, <2>3 DEF ToSet
<1> HIDE DEF list, named
<1>3. /\ to \in Seq(Addresses) /\ ToSet(to) = named /\ Len(to) = Cardinality(named)
      /\ \A i, j \in 1 .. Len(to) : to[i] = to[j] => i = j
  BY <1>2, DistinctOnce
<1>4. ids \in Seq(Senders) /\ ToSet(ids) = ToSet(in.senders)
  BY <1>1, DistinctOnce
<1>5. Len(ids) \in Nat \ {0}
  <2>1. in.senders[1] \in ToSet(in.senders)
    <3>1. Len(in.senders) \in Nat /\ Len(in.senders) # 0
      BY <1>1, EmptySeq
    <3>2. 1 \in DOMAIN in.senders
      BY <1>1, <3>1
    <3> QED BY <3>2 DEF ToSet
  <2>2. PICK i \in DOMAIN ids : TRUE
    <3> HIDE DEF ids
    <3> QED BY <1>4, <2>1 DEF ToSet
  <2> HIDE DEF ids
  <2>3. Len(ids) \in Nat /\ DOMAIN ids = 1 .. Len(ids)
    BY <1>4
  <2> QED BY <2>2, <2>3
<1>6. rows = [i \in DOMAIN to |-> [to |-> to[i], sender |-> ids[((i - 1) % Len(ids)) + 1]]]
  BY DEF PlannedRows, Normalised, list
<1> HIDE DEF to, ids, rows
<1>7. Len(to) \in Nat /\ DOMAIN to = 1 .. Len(to)
  BY <1>3
<1>8. ASSUME NEW i \in DOMAIN to
      PROVE  ids[((i - 1) % Len(ids)) + 1] \in ToSet(in.senders) \cap Senders
  <2>1. i - 1 \in Nat
    BY <1>7
  <2>2. (i - 1) % Len(ids) \in 0 .. Len(ids) - 1
    BY <1>5, <2>1, QuotientRemainder
  <2>3. ((i - 1) % Len(ids)) + 1 \in 1 .. Len(ids)
    BY <1>5, <2>2
  <2>4. DOMAIN ids = 1 .. Len(ids) /\ \A k \in 1 .. Len(ids) : ids[k] \in Senders
    BY <1>4
  <2>5. \A k \in DOMAIN ids : ids[k] \in ToSet(ids)
    BY DEF ToSet
  <2> QED BY <1>4, <2>3, <2>4, <2>5
<1>9. rows \in [1 .. Len(to) -> [to : Addresses, sender : Senders]]
  <2>1. \A i \in 1 .. Len(to) : to[i] \in Addresses
    BY <1>3
  <2> QED BY <1>6, <1>7, <1>8, <2>1
<1>10. /\ rows \in Seq([to : Addresses, sender : Senders])
       /\ Len(rows) = Len(to) /\ DOMAIN rows = DOMAIN to
  BY <1>7, <1>9, FunctionIsList
<1>11. \A i \in DOMAIN to : /\ rows[i].to = to[i]
                            /\ rows[i].sender = ids[((i - 1) % Len(ids)) + 1]
  BY <1>6
<1>12. { rows[i].to : i \in DOMAIN rows } = named
  <2>1. { rows[i].to : i \in DOMAIN rows } = { to[i] : i \in DOMAIN to }
    BY <1>10, <1>11
  <2> QED BY <1>3, <2>1 DEF ToSet
<1>13. ~Collide(rows)
  BY <1>3, <1>7, <1>10, <1>11 DEF Collide
<1>14. \A i \in DOMAIN rows : rows[i].sender \in ToSet(in.senders)
  BY <1>8, <1>10, <1>11
<1> QED BY <1>3, <1>10, <1>12, <1>13, <1>14 DEF rows, named

\* Initially no request has come in and no campaign exists.
LEMMA InitIInv == Init => IInv
  BY DEF Init, IInv, Shapes, Parsed, KeysUnique, ResultsMatch, Decided,
         OneCreator, RowsPlanned, NoRow, Stages, Answered

\* Steps that keep the table and every body, and decide nothing, only move
\* requests: each disturbs the invariant through stages alone.
LEMMA MovingKeeps ==
  ASSUME IInv, UNCHANGED <<campaigns, input, result, created>>,
         stage' \in [Requests -> Stages],
         \A q \in Requests : stage'[q] # "idle" => stage[q] # "idle",
         \A q \in Requests :
            /\ stage'[q] \in Undecided => stage[q] \in Undecided
            /\ stage'[q] \in { "enqueue", "answered" } =>
                  (stage[q] = "enqueue" \/ stage'[q] = stage[q])
  PROVE  IInv'
<1>1. Shapes' /\ Parsed' /\ KeysUnique' /\ ResultsMatch' /\ OneCreator'
  BY DEF IInv, Shapes, Parsed, KeysUnique, ResultsMatch, OneCreator, Exists
<1>2. Decided'
  BY DEF IInv, Decided, Shapes
<1>3. RowsPlanned'
  BY DEF IInv, RowsPlanned, PlannedRows, Normalised
<1> QED BY <1>1, <1>2, <1>3 DEF IInv

\* A request comes in.
LEMMA ReceiveKeeps ==
  ASSUME IInv, NEW q \in Requests, NEW in \in Bodies, Receive(q, in)
  PROVE  IInv'
<1>1. /\ stage[q] = "idle" /\ result[q] = NoCampaign
      /\ stage' \in [Requests -> Stages]
      /\ stage'[q] \in { "check", "lookup" }
      /\ \A p \in Requests \ {q} : stage'[p] = stage[p] /\ input'[p] = input[p]
      /\ input'[q] = in
  BY DEF IInv, Shapes, Decided, Undecided, Receive, Goto, Stages
<1>2. Shapes' /\ KeysUnique' /\ OneCreator'
  BY <1>1 DEF IInv, Shapes, KeysUnique, OneCreator, Receive
<1>3. Parsed'
  BY <1>1 DEF IInv, Parsed
<1>4. ResultsMatch'
  BY <1>1 DEF IInv, ResultsMatch, Receive, Exists
<1>5. Decided'
  BY <1>1 DEF IInv, Decided, Receive, Undecided
<1>6. RowsPlanned'
  <2>1. UNCHANGED <<campaigns, result, created>> /\ ~created[q]
    BY <1>1 DEF IInv, Decided, Receive
  <2> SUFFICES ASSUME NEW p \in Requests, created[p]
               PROVE  campaigns[result[p]].rows = PlannedRows(input'[p])
    BY <2>1 DEF RowsPlanned, PlannedRows, Normalised
  <2>2. input'[p] = input[p]
    BY <1>1, <2>1
  <2> QED BY <2>2 DEF IInv, RowsPlanned
<1> QED BY <1>2, <1>3, <1>4, <1>5, <1>6 DEF IInv

\* A request looks its key up and finds its campaign.
LEMMA FindKeeps ==
  ASSUME IInv, NEW q \in Requests, stage[q] \in { "lookup", "recover" },
         NEW otherwise \in { "check", "conflict" }, Find(q, otherwise)
  PROVE  IInv'
<1>1. CASE WithKey(input[q].user, input[q].key) = {} /\ UNCHANGED result
           /\ Goto(q, otherwise)
  <2>1. /\ stage' \in [Requests -> Stages]
        /\ stage'[q] = otherwise
        /\ \A p \in Requests \ {q} : stage'[p] = stage[p]
    BY <1>1 DEF IInv, Shapes, Goto, Stages, Answered
  <2>2. \A p \in Requests : stage'[p] # "idle" => stage[p] # "idle"
    BY <2>1
  <2>3. \A p \in Requests :
            /\ stage'[p] \in Undecided => stage[p] \in Undecided
            /\ stage'[p] \in { "enqueue", "answered" } =>
                  (stage[p] = "enqueue" \/ stage'[p] = stage[p])
    BY <2>1 DEF Undecided
  <2> QED BY <1>1, <2>1, <2>2, <2>3, MovingKeeps DEF Find
<1>2. ASSUME NEW c \in WithKey(input[q].user, input[q].key),
             Goto(q, "answered"), result' = [result EXCEPT ![q] = c]
      PROVE  IInv'
  <2>1. /\ c \in Campaigns
        /\ campaigns[c].owner = input[q].user /\ campaigns[c].key = input[q].key
        /\ input[q] \in Bodies
    BY <1>2 DEF WithKey, IInv, Parsed
  <2>2. c # NoCampaign /\ campaigns[c].owner # NoCampaign
    BY <2>1, UsersAreUsers, CreationAssumption DEF NoNullInput, CreationAssumption
  <2>3. /\ stage' \in [Requests -> Stages] /\ stage'[q] = "answered"
        /\ \A p \in Requests \ {q} : stage'[p] = stage[p] /\ result'[p] = result[p]
        /\ result'[q] = c /\ result' \in [Requests -> Campaigns \cup {NoCampaign}]
    BY <1>2, <2>1 DEF IInv, Shapes, Goto, Stages, Answered
  <2>4. UNCHANGED <<campaigns, input, created>>
    BY DEF Find
  <2>5. ~created[q]
    BY DEF IInv, Decided, Undecided
  <2>6. Shapes' /\ Parsed' /\ KeysUnique'
    BY <2>3, <2>4 DEF IInv, Shapes, Parsed, KeysUnique
  <2>7. ResultsMatch'
    BY <2>1, <2>2, <2>3, <2>4 DEF IInv, ResultsMatch, Exists
  <2>8. Decided'
    BY <2>2, <2>3, <2>4 DEF IInv, Decided, Undecided
  <2>9. OneCreator'
    BY <2>3, <2>4, <2>5 DEF IInv, OneCreator
  <2>10. RowsPlanned'
    BY <2>3, <2>4, <2>5 DEF IInv, RowsPlanned, PlannedRows, Normalised
  <2> QED BY <2>6, <2>7, <2>8, <2>9, <2>10 DEF IInv
<1> QED BY <1>1, <1>2 DEF Find

\* The transaction commits, whether or not the request learns of it.
LEMMA CommitKeeps ==
  ASSUME IInv, NEW q \in Requests, Commit(q)
  PROVE  IInv'
<1> DEFINE in == input[q]
<1>1. PICK c \in Campaigns :
        /\ ~Exists(c)
        /\ campaigns' = [campaigns EXCEPT ![c] =
              [owner |-> in.user, key |-> in.key, rows |-> PlannedRows(in)]]
        /\ \/ /\ Goto(q, "enqueue")
              /\ result' = [result EXCEPT ![q] = c]
              /\ created' = [created EXCEPT ![q] = TRUE]
           \/ (Goto(q, "failed") /\ UNCHANGED <<result, created>>)
  BY DEF Commit
<1>2. /\ stage[q] = "commit" /\ input[q] \in Bodies /\ result[q] = NoCampaign
      /\ ~KeyTaken(input[q].user, input[q].key) /\ input' = input
  BY DEF Commit, IInv, Parsed, Decided, Undecided
<1>3. input[q].user # NoCampaign /\ c # NoCampaign
  BY <1>2, UsersAreUsers, CreationAssumption DEF NoNullInput, CreationAssumption
<1>4. /\ DOMAIN campaigns' = Campaigns
      /\ campaigns'[c].owner = input[q].user /\ campaigns'[c].key = input[q].key
      /\ \A d \in Campaigns \ {c} : campaigns'[d] = campaigns[d]
  BY <1>1 DEF IInv, Shapes
<1>5. \A p \in Requests : result[p] # c
  BY <1>1, <1>3 DEF IInv, ResultsMatch
<1>6. /\ stage' \in [Requests -> Stages]
      /\ \A p \in Requests \ {q} : /\ stage'[p] = stage[p]
                                   /\ result'[p] = result[p]
                                   /\ created'[p] = created[p]
      /\ \/ (stage'[q] = "enqueue" /\ result'[q] = c)
         \/ (stage'[q] = "failed" /\ UNCHANGED <<result, created>>)
      /\ result' \in [Requests -> Campaigns \cup {NoCampaign}]
      /\ created' \in [Requests -> BOOLEAN]
  <2>1. /\ stage \in [Requests -> Stages]
        /\ result \in [Requests -> Campaigns \cup {NoCampaign}]
        /\ created \in [Requests -> BOOLEAN]
    BY DEF IInv, Shapes
  <2>2. CASE /\ stage' = [stage EXCEPT ![q] = "enqueue"]
             /\ result' = [result EXCEPT ![q] = c]
             /\ created' = [created EXCEPT ![q] = TRUE]
    BY <2>1, <2>2 DEF Stages, Answered
  <2>3. CASE stage' = [stage EXCEPT ![q] = "failed"] /\ UNCHANGED <<result, created>>
    BY <2>1, <2>3 DEF Stages, Answered
  <2> QED BY <1>1, <2>2, <2>3 DEF Goto
<1>7. Shapes' /\ Parsed'
  BY <1>2, <1>4, <1>6 DEF IInv, Shapes, Parsed
<1>8. KeysUnique'
  <2>1. \A d \in Campaigns : ~(/\ campaigns[d].owner = input[q].user
                               /\ campaigns[d].key = input[q].key
                               /\ input[q].key # NoKey)
    BY <1>2 DEF KeyTaken, WithKey
  <2> QED BY <1>4, <2>1 DEF IInv, KeysUnique
<1>9. ResultsMatch'
  <2> SUFFICES ASSUME NEW p \in Requests, result'[p] # NoCampaign
               PROVE  /\ campaigns'[result'[p]].owner # NoCampaign
                      /\ campaigns'[result'[p]].owner = input[p].user
                      /\ campaigns'[result'[p]].key = input[p].key
    BY <1>2 DEF ResultsMatch, Exists
  <2>1. CASE result'[p] = c
    <3>1. p = q
      BY <2>1, <1>5, <1>6
    <3> QED BY <3>1, <2>1, <1>3, <1>4
  <2>2. CASE result'[p] # c
    <3>1. result'[p] = result[p] /\ result[p] \in Campaigns
      BY <2>2, <1>6 DEF IInv, Shapes
    <3> QED BY <3>1, <2>2, <1>4 DEF IInv, ResultsMatch, Exists
  <2> QED BY <2>1, <2>2
<1>10. Decided'
  BY <1>2, <1>3, <1>6 DEF IInv, Decided, Undecided
<1>11. OneCreator'
  BY <1>5, <1>6 DEF IInv, OneCreator
<1>12. RowsPlanned'
  <2> SUFFICES ASSUME NEW p \in Requests, created'[p]
               PROVE  campaigns'[result'[p]].rows = PlannedRows(input[p])
    BY <1>2 DEF RowsPlanned, PlannedRows, Normalised
  <2>1. CASE p = q /\ stage'[q] = "enqueue"
    BY <1>1, <1>6, <2>1 DEF IInv, Shapes
  <2>2. CASE p # q \/ stage'[q] # "enqueue"
    <3>1. result'[p] = result[p] /\ created[p]
      BY <1>6, <2>2
    <3>2. result[p] \in Campaigns \ {c}
      BY <1>5, <3>1 DEF IInv, Decided, Shapes
    <3> QED BY <1>4, <3>1, <3>2 DEF IInv, RowsPlanned
  <2> QED BY <2>1, <2>2
<1> QED BY <1>7, <1>8, <1>9, <1>10, <1>11, <1>12 DEF IInv

\* Every step of creation preserves the invariant.
LEMMA NextKeeps == IInv /\ [Next]_vars => IInv'
<1> SUFFICES ASSUME IInv, [Next]_vars PROVE IInv'
  OBVIOUS
<1>1. ASSUME NEW q \in Requests, NEW in \in Bodies, Receive(q, in) PROVE IInv'
  BY <1>1, ReceiveKeeps
<1>2. ASSUME NEW q \in Requests, LookUp(q) \/ Recover(q) PROVE IInv'
  BY <1>2, FindKeeps DEF LookUp, Recover
<1>3. ASSUME NEW q \in Requests, Commit(q) PROVE IInv'
  BY <1>3, CommitKeeps
<1>4. ASSUME NEW q \in Requests,
             CheckSenders(q) \/ UniqueViolation(q) \/ Enqueue(q)
               \/ TransactionFails(q)
      PROVE  IInv'
  <2>1. /\ UNCHANGED <<campaigns, input, result, created>>
        /\ stage' \in [Requests -> Stages]
        /\ stage[q] \in { "check", "commit", "enqueue" }
        /\ stage[q] = "enqueue" => stage'[q] \in { "answered", "failed" }
        /\ stage[q] # "enqueue" =>
              stage'[q] \in { "commit", "rejected", "recover", "conflict", "failed" }
        /\ \A p \in Requests \ {q} : stage'[p] = stage[p]
    BY <1>4 DEF CheckSenders, UniqueViolation, Enqueue, TransactionFails, Goto,
                IInv, Shapes, Stages, Answered
  <2>2. \A p \in Requests : stage'[p] # "idle" => stage[p] # "idle"
    BY <2>1
  <2>3. \A p \in Requests :
            /\ stage'[p] \in Undecided => stage[p] \in Undecided
            /\ stage'[p] \in { "enqueue", "answered" } =>
                  (stage[p] = "enqueue" \/ stage'[p] = stage[p])
    BY <2>1 DEF Undecided
  <2> QED BY <2>1, <2>2, <2>3, MovingKeeps
<1>5. CASE ApiCrash
  <2>1. /\ UNCHANGED <<campaigns, input, result, created>>
        /\ \A p \in Requests : \/ stage'[p] = stage[p]
                                \/ (stage[p] # "idle" /\ stage'[p] = "lost")
        /\ stage' \in [Requests -> Stages]
    BY <1>5 DEF ApiCrash, InService, IInv, Shapes, Stages
  <2> QED BY <2>1, MovingKeeps DEF Undecided
<1>6. CASE (\E s \in Senders : ToggleSender(s)) \/ UNCHANGED vars
  <2>1. UNCHANGED <<campaigns, input, result, created, stage>>
    BY <1>6 DEF ToggleSender, vars
  <2> QED BY <2>1, MovingKeeps DEF IInv, Shapes
<1> QED BY <1>1, <1>2, <1>3, <1>4, <1>5, <1>6 DEF Next, Serve

\* A key means one campaign of its user, in every answer, for any number of
\* requests, users and keys and under every fault of createCampaign.
THEOREM RepliesAreIdempotent == Spec => []IdempotentReplies
<1>1. IInv => IdempotentReplies
  <2> SUFFICES ASSUME IInv, NEW p \in Requests, NEW q \in Requests,
                      stage[p] = "answered", stage[q] = "answered",
                      input[p].key # NoKey, input[p].key = input[q].key
               PROVE  /\ input[p].user = input[q].user <=> result[p] = result[q]
                      /\ created[p] /\ created[q]
                           /\ input[p].user = input[q].user => p = q
    BY DEF IdempotentReplies
  <2>1. result[p] \in Campaigns /\ result[q] \in Campaigns
    BY DEF IInv, Decided, Shapes
  <2>2. /\ campaigns[result[p]].owner = input[p].user
        /\ campaigns[result[q]].owner = input[q].user
        /\ campaigns[result[p]].key = input[p].key
        /\ campaigns[result[q]].key = input[q].key
    BY DEF IInv, Decided, ResultsMatch
  <2>3. input[p].user = input[q].user <=> result[p] = result[q]
    BY <2>1, <2>2 DEF IInv, KeysUnique
  <2> QED BY <2>3 DEF IInv, OneCreator
<1> QED BY <1>1, InitIInv, NextKeeps, PTL DEF Spec

-------------------------------------------------------------------------------

\* Campaigns are never deleted or changed, so a key in the index stays there.
LEMMA CampaignsStay ==
  ASSUME IInv, [Next]_vars, NEW c \in Campaigns, Exists(c)
  PROVE  campaigns'[c] = campaigns[c]
<1>1. ASSUME NEW q \in Requests, Commit(q) PROVE campaigns'[c] = campaigns[c]
  BY <1>1 DEF Commit, Exists, IInv, Shapes
<1>2. ASSUME UNCHANGED campaigns PROVE campaigns'[c] = campaigns[c]
  BY <1>2
<1> QED BY <1>1, <1>2 DEF Next, Serve, Receive, LookUp, Recover, Find,
           CheckSenders, UniqueViolation, Enqueue, TransactionFails, ApiCrash,
           ToggleSender, vars

\* The loser of a race is always answered: whatever violated an index, it was
\* the key of the request, since the planned rows of a request never collide.
THEOREM RaceLosersAreAnswered == Spec => []NoConflict
<1> DEFINE J == RecoverFinds /\ NoConflict
<1>1. Init => J
  BY DEF Init, RecoverFinds, NoConflict
<1>2. IInv /\ J /\ [Next]_vars => J'
  <2> SUFFICES ASSUME IInv, RecoverFinds, NoConflict, [Next]_vars,
                      NEW q \in Requests
               PROVE  /\ stage'[q] # "conflict"
                      /\ stage'[q] = "recover" =>
                            WithKey(input[q].user, input[q].key)' # {}
    BY DEF RecoverFinds, NoConflict
  <2>0. stage[q] # "conflict" /\ (stage[q] # "idle" => input[q] \in Bodies)
    BY DEF NoConflict, IInv, Parsed
  <2>1. ASSUME stage'[q] = stage[q], input'[q] = input[q]
        PROVE  /\ stage'[q] # "conflict"
               /\ stage'[q] = "recover" =>
                     WithKey(input[q].user, input[q].key)' # {}
    <3> SUFFICES ASSUME stage[q] = "recover"
                 PROVE  WithKey(input[q].user, input[q].key)' # {}
      BY <2>0, <2>1
    <3>1. PICK c \in Campaigns : /\ input[q].key # NoKey
                                 /\ campaigns[c].owner = input[q].user
                                 /\ campaigns[c].key = input[q].key
      BY DEF RecoverFinds, WithKey
    <3>2. Exists(c)
      BY <2>0, <3>1, UsersAreUsers DEF NoNullInput, Exists
    <3>3. campaigns'[c] = campaigns[c]
      BY <3>2, CampaignsStay
    <3> QED BY <2>1, <3>1, <3>3 DEF WithKey
  <2>2. ASSUME UniqueViolation(q)
        PROVE  /\ stage'[q] # "conflict"
               /\ stage'[q] = "recover" =>
                     WithKey(input[q].user, input[q].key)' # {}
    <3>1. KeyTaken(input[q].user, input[q].key)
      BY <2>0, <2>2, RowsOfBody DEF UniqueViolation
    <3>2. input[q].key # NoKey /\ stage'[q] = "recover"
      BY <3>1, <2>2 DEF KeyTaken, WithKey, UniqueViolation, Goto, IInv, Shapes
    <3>3. UNCHANGED <<input, campaigns>>
      BY <2>2 DEF UniqueViolation
    <3> QED BY <3>1, <3>2, <3>3 DEF KeyTaken, WithKey
  <2>3. ASSUME Recover(q) PROVE stage'[q] = "answered"
    BY <2>3 DEF Recover, Find, RecoverFinds, Goto, IInv, Shapes
  <2>4. ASSUME \/ \E in \in Bodies : Receive(q, in)
               \/ LookUp(q) \/ CheckSenders(q) \/ Commit(q) \/ Enqueue(q)
               \/ TransactionFails(q)
        PROVE  stage'[q] \notin { "conflict", "recover" }
    BY <2>4 DEF Receive, LookUp, Find, CheckSenders, Commit, Enqueue,
                TransactionFails, Goto, IInv, Shapes
  <2>5. ASSUME NEW p \in Requests \ {q},
               \/ \E in \in Bodies : Receive(p, in)
               \/ Serve(p) \/ TransactionFails(p)
        PROVE  stage'[q] = stage[q] /\ input'[q] = input[q]
    BY <2>5 DEF Receive, Serve, LookUp, Recover, Find, CheckSenders, Commit,
                UniqueViolation, Enqueue, TransactionFails, Goto, IInv, Shapes
  <2>6. ASSUME ApiCrash
        PROVE  input'[q] = input[q] /\ stage'[q] \in { stage[q], "lost" }
    BY <2>6 DEF ApiCrash, IInv, Shapes
  <2>7. ASSUME (\E s \in Senders : ToggleSender(s)) \/ UNCHANGED vars
        PROVE  stage'[q] = stage[q] /\ input'[q] = input[q]
    BY <2>7 DEF ToggleSender, vars
  <2> QED BY <2>1, <2>2, <2>3, <2>4, <2>5, <2>6, <2>7 DEF Next, Serve
<1>3. J => NoConflict
  OBVIOUS
<1> QED BY <1>1, <1>2, <1>3, InitIInv, NextKeeps, PTL DEF Spec

-------------------------------------------------------------------------------
(* The clients *)

Pages == { "loading", "editing", "submitting", "left" }

FormTypeOK ==
    /\ page \in Pages
    /\ selected \in Senders \cup {NoSender}
    /\ recipients \in Seq(Addresses)
    /\ uploads \subseteq [file : Files, list : Seq(Addresses), edit : Nat]
    /\ edits \in 0 .. MaxEdits
    /\ ToSet(recipients) \subseteq UNION { ToSet(l) : l \in Typed \cup Files }
    /\ formError \in BOOLEAN

FormInv == active \subseteq Senders /\ FormTypeOK

\* The steps of the form that keep the tables of the service.
Handlers ==
    PageEdits \/ PageSucceeds \/ PageFails \/ \E q \in Requests : PagePosts(q)

\* What is appended to the recipients are valid addresses that were typed or
\* read from a file.
LEMMA AppendingKeeps ==
  ASSUME FormTypeOK, NEW parts \in Typed \cup Files, NEW more \in Seq(Addresses),
         ToSet(more) \subseteq ToSet(parts), recipients' = recipients \o more
  PROVE  /\ recipients' \in Seq(Addresses)
         /\ ToSet(recipients') = ToSet(recipients) \cup ToSet(more)
         /\ ToSet(recipients') \subseteq UNION { ToSet(l) : l \in Typed \cup Files }
         /\ IsPrefix(recipients, recipients')
<1>1. recipients \in Seq(Addresses)
  BY DEF FormTypeOK
<1>2. /\ recipients' \in Seq(Addresses)
      /\ Len(recipients') = Len(recipients) + Len(more)
      /\ \A i \in 1 .. Len(recipients) : recipients'[i] = recipients[i]
      /\ \A i \in 1 .. Len(more) : recipients'[Len(recipients) + i] = more[i]
  BY <1>1, ConcatProperties
<1>3. /\ Len(recipients) \in Nat /\ DOMAIN recipients = 1 .. Len(recipients)
      /\ Len(more) \in Nat /\ DOMAIN more = 1 .. Len(more)
      /\ DOMAIN recipients' = 1 .. Len(recipients')
  BY <1>1, <1>2
<1>4. ToSet(recipients') = ToSet(recipients) \cup ToSet(more)
  <2>1. ASSUME NEW i \in DOMAIN recipients'
        PROVE  recipients'[i] \in ToSet(recipients) \cup ToSet(more)
    <3>1. CASE i <= Len(recipients)
      <4>1. i \in DOMAIN recipients
        BY <1>3, <3>1
      <4> QED BY <1>2, <1>3, <4>1 DEF ToSet
    <3>2. CASE i > Len(recipients)
      <4>1. i - Len(recipients) \in 1 .. Len(more)
            /\ i = Len(recipients) + (i - Len(recipients))
        BY <1>2, <1>3, <3>2
      <4>2. recipients'[i] = more[i - Len(recipients)]
        BY <1>2, <4>1
      <4> QED BY <1>3, <4>1, <4>2 DEF ToSet
    <3> QED BY <1>2, <1>3, <3>1, <3>2
  <2>2. ASSUME NEW i \in DOMAIN recipients PROVE recipients[i] \in ToSet(recipients')
    <3>1. i \in DOMAIN recipients' /\ recipients'[i] = recipients[i]
      BY <1>2, <1>3
    <3> QED BY <3>1 DEF ToSet
  <2>3. ASSUME NEW i \in DOMAIN more PROVE more[i] \in ToSet(recipients')
    <3>1. Len(recipients) + i \in DOMAIN recipients'
          /\ recipients'[Len(recipients) + i] = more[i]
      BY <1>2, <1>3
    <3> QED BY <3>1 DEF ToSet
  <2>4. ToSet(recipients') \subseteq ToSet(recipients) \cup ToSet(more)
    BY <2>1 DEF ToSet
  <2>5. ToSet(recipients) \subseteq ToSet(recipients')
    BY <2>2 DEF ToSet
  <2>6. ToSet(more) \subseteq ToSet(recipients')
    BY <2>3 DEF ToSet
  <2> QED BY <2>4, <2>5, <2>6
<1>5. ToSet(recipients') \subseteq UNION { ToSet(l) : l \in Typed \cup Files }
  <2>1. ToSet(more) \subseteq UNION { ToSet(l) : l \in Typed \cup Files }
    OBVIOUS
  <2> QED BY <1>4, <2>1 DEF FormTypeOK
<1>6. IsPrefix(recipients, recipients')
  <2>1. Len(recipients) <= Len(recipients')
    BY <1>2, <1>3
  <2>2. /\ SubSeq(recipients, 1, Len(recipients)) \in Seq(Addresses)
        /\ SubSeq(recipients', 1, Len(recipients)) \in Seq(Addresses)
        /\ Len(SubSeq(recipients, 1, Len(recipients))) = Len(recipients)
        /\ Len(SubSeq(recipients', 1, Len(recipients))) = Len(recipients)
        /\ \A i \in 1 .. Len(recipients) :
              SubSeq(recipients, 1, Len(recipients))[i]
                 = SubSeq(recipients', 1, Len(recipients))[i]
    BY <1>1, <1>2, <1>3
  <2>3. SubSeq(recipients, 1, Len(recipients)) = SubSeq(recipients', 1, Len(recipients))
    BY <2>2, SeqEqual
  <2> QED BY <2>1, <2>3 DEF IsPrefix
<1> QED BY <1>2, <1>4, <1>5, <1>6

\* A file that has been read adds addresses of its own.
LEMMA ItemsOfFile ==
  ASSUME FormTypeOK, NEW up \in uploads
  PROVE  /\ up.file \in Files
         /\ NewItems(up) \in Seq(Addresses)
         /\ ToSet(NewItems(up)) \subseteq ToSet(up.file)
<1>1. up.file \in Files /\ up.file \in Seq(Addresses)
  BY SubmissionAssumption DEF SubmissionAssumption, FormTypeOK
<1>2. Distinct(up.file) \in Seq(Addresses) /\ ToSet(Distinct(up.file)) = ToSet(up.file)
  BY <1>1, DistinctOnce
<1>3. /\ NewItems(up) \in Seq(Addresses)
      /\ ToSet(NewItems(up)) = ToSet(Distinct(up.file)) \ ToSet(up.list)
  BY <1>2, WithoutDrops DEF NewItems
<1> QED BY <1>1, <1>2, <1>3

\* The page opens with an empty form.
LEMMA FormInit == SubInit => FormInv
<1> SUFFICES ASSUME SubInit PROVE FormInv
  OBVIOUS
<1>1. recipients = <<>> /\ ToSet(<<>>) = {}
  BY DEF SubInit, PageInit, ToSet
<1>2. recipients \in Seq(Addresses)
  BY <1>1
<1>3. ToSet(recipients) \subseteq UNION { ToSet(l) : l \in Typed \cup Files }
  BY <1>1
<1>4. 0 \in 0 .. MaxEdits
  BY SubmissionAssumption DEF SubmissionAssumption
<1> QED BY <1>2, <1>3, <1>4 DEF SubInit, Init, PageInit, FormInv, FormTypeOK, Pages

\* Every step keeps the form well formed: its recipients are valid addresses,
\* its sender one that was offered.
LEMMA FormKeeps == FormInv /\ [SubNext]_subVars => FormInv'
<1> SUFFICES ASSUME FormInv, [SubNext]_subVars PROVE FormInv'
  OBVIOUS
<1>0. FormTypeOK /\ active \subseteq Senders
  BY DEF FormInv
<1>1. ASSUME UNCHANGED pageVars PROVE FormTypeOK'
  BY <1>0, <1>1 DEF FormTypeOK, pageVars
<1>2. ASSUME LoadSenders(active) PROVE FormTypeOK'
  BY <1>0, <1>2 DEF FormTypeOK, LoadSenders, Pages
<1>3. ASSUME NEW parts \in Typed, AddRecipients(parts) PROVE FormTypeOK'
  <2>1. parts \in Seq(Addresses)
    BY SubmissionAssumption DEF SubmissionAssumption
  <2>2. /\ Without(parts, ToSet(recipients)) \in Seq(Addresses)
        /\ ToSet(Without(parts, ToSet(recipients))) \subseteq ToSet(parts)
    BY <2>1, WithoutDrops
  <2>3. recipients' = recipients \o Without(parts, ToSet(recipients))
    BY <1>3 DEF AddRecipients
  <2>4. /\ recipients' \in Seq(Addresses)
        /\ ToSet(recipients') \subseteq UNION { ToSet(l) : l \in Typed \cup Files }
    BY <1>0, <2>2, <2>3, AppendingKeeps
  <2>5. edits' \in 0 .. MaxEdits
    BY <1>0, <1>3, SubmissionAssumption
       DEF AddRecipients, Edit, FormTypeOK, SubmissionAssumption
  <2> QED BY <1>0, <1>3, <2>4, <2>5 DEF FormTypeOK, AddRecipients
<1>4. ASSUME NEW a \in Addresses, RemoveRecipient(a) PROVE FormTypeOK'
  <2>1. /\ recipients' \in Seq(Addresses)
        /\ ToSet(recipients') \subseteq ToSet(recipients)
    BY <1>0, <1>4, WithoutDrops DEF RemoveRecipient, FormTypeOK
  <2>2. edits' \in 0 .. MaxEdits
    BY <1>0, <1>4, SubmissionAssumption
       DEF RemoveRecipient, Edit, FormTypeOK, SubmissionAssumption
  <2> QED BY <1>0, <1>4, <2>1, <2>2 DEF FormTypeOK, RemoveRecipient
<1>5. ASSUME NEW file \in Files, ChooseFile(file) PROVE FormTypeOK'
  <2>1. edits' \in 0 .. MaxEdits
    BY <1>0, <1>5, SubmissionAssumption
       DEF ChooseFile, Edit, FormTypeOK, SubmissionAssumption
  <2> QED BY <1>0, <1>5, <2>1 DEF FormTypeOK, ChooseFile
<1>6. ASSUME NEW up \in uploads, FileLoaded(up) PROVE FormTypeOK'
  <2>1. recipients' = recipients \o NewItems(up)
    BY <1>6 DEF FileLoaded
  <2>2. /\ recipients' \in Seq(Addresses)
        /\ ToSet(recipients') \subseteq UNION { ToSet(l) : l \in Typed \cup Files }
    BY <1>0, <2>1, ItemsOfFile, AppendingKeeps
  <2> QED BY <1>0, <1>6, <2>2 DEF FormTypeOK, FileLoaded
<1>7. ASSUME SubmitRefused \/ Submit \/ Succeed \/ SubmitFails PROVE FormTypeOK'
  BY <1>0, <1>7 DEF FormTypeOK, SubmitRefused, Submit, Succeed, SubmitFails, Pages
<1>8. FormTypeOK'
  BY <1>1, <1>2, <1>3, <1>4, <1>5, <1>6, <1>7
     DEF SubNext, PageEdits, PageSucceeds, PageFails, PagePosts, ClientPosts,
         ApiServes, Surroundings, subVars, pageVars
<1>9. active' \subseteq Senders
  <2>1. ASSUME NEW s \in Senders, ToggleSender(s) PROVE active' \subseteq Senders
    BY <1>0, <2>1 DEF ToggleSender
  <2>2. ASSUME NEW q \in Requests, Serve(q) PROVE active' = active
    BY <2>2 DEF Serve, LookUp, Recover, Find, CheckSenders, Commit,
                UniqueViolation, Enqueue
  <2>3. ASSUME NEW q \in Requests, NEW in, Receive(q, in) PROVE active' = active
    BY <2>3 DEF Receive
  <2>4. ASSUME Surroundings PROVE active' \subseteq Senders
    BY <1>0, <2>1, <2>4 DEF Surroundings, ApiCrash, TransactionFails
  <2> QED BY <1>0, <2>2, <2>3, <2>4
          DEF SubNext, PageEdits, PageSucceeds, PageFails, PagePosts, ClientPosts,
              ApiServes, subVars, vars
<1> QED BY <1>8, <1>9 DEF FormInv

\* What the page posts is a body the route accepts.
LEMMA PagePostsBody ==
  ASSUME FormInv, Submit
  PROVE  [user |-> PageUser, key |-> NoKey, senders |-> <<selected>>,
          recipients |-> recipients] \in Bodies
<1>1. recipients \in Seq(Addresses) /\ recipients # <<>> /\ selected \in Senders
  BY DEF FormInv, FormTypeOK, Submit
<1>2. <<selected>> \in Seq(Senders) /\ <<selected>> # <<>>
  BY <1>1
<1> QED BY <1>1, <1>2, SubmissionAssumption DEF Bodies, SubmissionAssumption

\* Every step of the page, the clients and the service is a step of
\* CampaignCreation, or leaves it alone.
LEMMA StepsAreCreation == FormInv /\ [SubNext]_subVars => [Next]_vars
<1> SUFFICES ASSUME FormInv, [SubNext]_subVars PROVE [Next]_vars
  OBVIOUS
<1>1. ASSUME PageEdits \/ PageSucceeds \/ PageFails \/ UNCHANGED subVars
      PROVE  UNCHANGED vars
  BY <1>1 DEF PageEdits, PageSucceeds, PageFails, subVars
<1>2. ASSUME NEW q \in Requests, PagePosts(q) PROVE Next
  BY <1>2, PagePostsBody DEF PagePosts, Next
<1>3. ASSUME NEW q \in Requests, ClientPosts(q) PROVE Next
  BY <1>3, SubmissionAssumption DEF ClientPosts, SubmissionAssumption, Next
<1>4. ASSUME NEW q \in Requests, ApiServes(q) PROVE Next
  BY <1>4 DEF ApiServes, Next
<1>5. ASSUME Surroundings PROVE Next
  BY <1>5 DEF Surroundings, Next
<1> QED BY <1>1, <1>2, <1>3, <1>4, <1>5 DEF SubNext

\* The page and the API clients together use creation as it is specified: what
\* holds of CampaignCreation holds of every interleaving with the form.
THEOREM ClientsUseCreation == SubSpec => Spec
<1>1. SubInit => Init
  BY DEF SubInit
<1> QED BY <1>1, FormInit, FormKeeps, StepsAreCreation, PTL DEF SubSpec, Spec

-------------------------------------------------------------------------------
(* What their requests create *)

\* Types hold while the page, the clients and the service interleave, and an
\* answer is about a campaign in the database.
THEOREM SubmissionIsTyped == SubSpec => []SubTypeOK
<1>1. IInv /\ FormInv => SubTypeOK
  BY DEF IInv, Shapes, Decided, ResultsMatch, FormInv, FormTypeOK, Pages,
         SubTypeOK, PageTypeOK
<1>2. Spec => []IInv
  BY InitIInv, NextKeeps, PTL DEF Spec
<1>3. SubSpec => []FormInv
  BY FormInit, FormKeeps, PTL DEF SubSpec
<1> QED BY <1>1, <1>2, <1>3, ClientsUseCreation, PTL

\* The page and its clients do not disturb what a key means.
THEOREM RepliesToClients == SubSpec => [](IdempotentReplies /\ NoConflict)
  BY ClientsUseCreation, RepliesAreIdempotent, RaceLosersAreAnswered, PTL

\* Whatever a request names how often and in whatever case, the campaign it
\* creates has one row for each recipient.
THEOREM RecipientsOnce == SubSpec => []EveryRecipientOnce
<1>1. IInv => EveryRecipientOnce
  <2> SUFFICES ASSUME IInv, NEW q \in Requests, created[q]
               PROVE  LET rows == campaigns[result[q]].rows
                          named == { Lower[a] : a \in ToSet(input[q].recipients) }
                      IN /\ { rows[i].to : i \in DOMAIN rows } = named
                         /\ Len(rows) = Cardinality(named)
    BY DEF EveryRecipientOnce
  <2>1. campaigns[result[q]].rows = PlannedRows(input[q])
    BY DEF IInv, RowsPlanned
  <2>2. input[q] \in Bodies
    BY DEF IInv, Decided, Parsed, Undecided
  <2> QED BY <2>1, <2>2, RowsOfBody
<1> QED BY <1>1, InitIInv, NextKeeps, ClientsUseCreation, PTL DEF Spec

\* The senders that were active since a request came in are recorded; those it
\* names are among them once they have been checked.
Witnessed ==
    /\ seenActive \in [Requests -> SUBSET Senders]
    /\ \A q \in Requests :
          stage[q] = "commit" \/ created[q] =>
              ToSet(input[q].senders) \subseteq seenActive[q]

\* A request comes to its commit through the check, and is created by it.
LEMMA CheckedBeforeCommit ==
  ASSUME IInv, [Next]_vars, NEW q \in Requests
  PROVE  /\ stage'[q] = "idle" => stage[q] = "idle"
         /\ stage[q] # "idle" => input'[q] = input[q]
         /\ created'[q] => created[q] \/ stage[q] = "commit"
         /\ stage'[q] = "commit" =>
               \/ stage[q] = "commit"
               \/ stage[q] = "check" /\ SendersActive(q) /\ active' = active
<1>1. ASSUME NEW p \in Requests, NEW in \in Bodies, Receive(p, in)
      PROVE  /\ stage'[q] \in { stage[q], "check", "lookup" }
             /\ stage[q] # "idle" => input'[q] = input[q]
             /\ created'[q] = created[q]
  BY <1>1 DEF Receive, Goto, IInv, Shapes
<1>2. ASSUME NEW p \in Requests, CheckSenders(p)
      PROVE  /\ stage'[q] \in { stage[q], "rejected" }
                  \/ (stage[q] = "check" /\ stage'[q] = "commit"
                        /\ SendersActive(q) /\ active' = active)
             /\ input'[q] = input[q]
             /\ created'[q] = created[q]
  BY <1>2 DEF CheckSenders, Goto, IInv, Shapes
<1>3. ASSUME NEW p \in Requests, Commit(p)
      PROVE  /\ stage'[q] \in { stage[q], "enqueue", "failed" }
             /\ input'[q] = input[q]
             /\ created'[q] => created[q] \/ stage[q] = "commit"
  BY <1>3 DEF Commit, Goto, IInv, Shapes
<1>4. ASSUME NEW p \in Requests,
             LookUp(p) \/ Recover(p) \/ UniqueViolation(p) \/ Enqueue(p)
               \/ TransactionFails(p)
      PROVE  /\ stage'[q] \in { stage[q], "check", "conflict", "answered",
                                "recover", "failed" }
             /\ input'[q] = input[q]
             /\ created'[q] = created[q]
  BY <1>4 DEF LookUp, Recover, Find, UniqueViolation, Enqueue, TransactionFails,
              Goto, IInv, Shapes
<1>5. ASSUME ApiCrash \/ (\E s \in Senders : ToggleSender(s)) \/ UNCHANGED vars
      PROVE  /\ stage'[q] \in { stage[q], "lost" }
             /\ input'[q] = input[q]
             /\ created'[q] = created[q]
  BY <1>5 DEF ApiCrash, ToggleSender, vars, IInv, Shapes
<1> QED BY <1>1, <1>2, <1>3, <1>4, <1>5 DEF Next, Serve

\* The ghost of SendersWereActive grows while a request is served.
LEMMA WitnessedKeeps ==
  ASSUME IInv, IInv', FormInv, Witnessed, [Next]_vars, active' \subseteq Senders,
         \/ seenActive' = [q \in Requests |->
               seenActive[q] \cup IF stage'[q] = "idle" THEN {} ELSE active']
         \/ UNCHANGED subVars
  PROVE  Witnessed'
<1>1. CASE UNCHANGED subVars
  BY <1>1 DEF Witnessed, subVars, vars
<1>2. CASE seenActive' = [q \in Requests |->
               seenActive[q] \cup IF stage'[q] = "idle" THEN {} ELSE active']
  <2>1. seenActive' \in [Requests -> SUBSET Senders]
    BY <1>2 DEF Witnessed
  <2>2. ASSUME NEW q \in Requests, stage'[q] = "commit" \/ created'[q]
        PROVE  ToSet(input'[q].senders) \subseteq seenActive'[q]
    <3>1. stage'[q] # "idle" /\ seenActive'[q] = seenActive[q] \cup active'
      BY <1>2, <2>2 DEF IInv, Decided, Undecided
    <3>2. stage[q] # "idle" /\ input'[q] = input[q]
      BY <2>2, <3>1, CheckedBeforeCommit DEF IInv, Decided, Undecided
    <3>3. \/ stage[q] = "commit" \/ created[q]
          \/ SendersActive(q) /\ active' = active
      BY <2>2, CheckedBeforeCommit
    <3> QED BY <3>1, <3>2, <3>3 DEF Witnessed, SendersActive
  <2> QED BY <2>1, <2>2 DEF Witnessed
<1> QED BY <1>1, <1>2

\* A campaign never uses a sender that was inactive all the time its request
\* was served, however deactivations and commits interleave.
THEOREM CampaignsUseActiveSenders == SubSpec => []SendersWereActive
<1>1. SubInit => Witnessed
  BY DEF SubInit, Init, Witnessed
<1>2. IInv /\ IInv' /\ FormInv /\ FormInv' /\ Witnessed /\ [SubNext]_subVars
        => Witnessed'
  <2> SUFFICES ASSUME IInv, IInv', FormInv, FormInv', Witnessed, [SubNext]_subVars
               PROVE  Witnessed'
    OBVIOUS
  <2>1. [Next]_vars
    BY StepsAreCreation
  <2>2. active' \subseteq Senders
    BY DEF FormInv
  <2>3. \/ seenActive' = [q \in Requests |->
              seenActive[q] \cup IF stage'[q] = "idle" THEN {} ELSE active']
        \/ UNCHANGED subVars
    BY DEF SubNext
  <2> QED BY <2>1, <2>2, <2>3, WitnessedKeeps
<1>3. IInv /\ Witnessed => SendersWereActive
  <2> SUFFICES ASSUME IInv, Witnessed, NEW q \in Requests, created[q],
                      NEW i \in DOMAIN campaigns[result[q]].rows
               PROVE  campaigns[result[q]].rows[i].sender \in seenActive[q]
    BY DEF SendersWereActive
  <2>1. campaigns[result[q]].rows = PlannedRows(input[q])
    BY DEF IInv, RowsPlanned
  <2>2. input[q] \in Bodies
    BY DEF IInv, Decided, Parsed, Undecided
  <2>3. campaigns[result[q]].rows[i].sender \in ToSet(input[q].senders)
    BY <2>1, <2>2, RowsOfBody
  <2> QED BY <2>3 DEF Witnessed
<1>4. Spec => []IInv
  BY InitIInv, NextKeeps, PTL DEF Spec
<1>5. SubSpec => []FormInv
  BY FormInit, FormKeeps, PTL DEF SubSpec
<1> QED BY <1>1, <1>2, <1>3, <1>4, <1>5, ClientsUseCreation, PTL DEF SubSpec

\* A file that is read late takes back no edit that was made meanwhile.
THEOREM UploadsKeepEdits == SubSpec => UploadKeepsEdits
<1>1. FormInv /\ [SubNext]_subVars =>
        [uploads \ uploads' # {} =>
           /\ IsPrefix(recipients, recipients')
           /\ \E up \in uploads \ uploads' :
                 ToSet(recipients') \subseteq ToSet(recipients) \cup ToSet(up.file)
        ]_subVars
  <2> SUFFICES ASSUME FormInv, SubNext, uploads \ uploads' # {}
               PROVE  /\ IsPrefix(recipients, recipients')
                      /\ \E up \in uploads \ uploads' :
                            ToSet(recipients')
                               \subseteq ToSet(recipients) \cup ToSet(up.file)
    BY DEF subVars
  <2>1. PICK up \in uploads : FileLoaded(up)
    BY DEF SubNext, PageEdits, LoadSenders, AddRecipients, RemoveRecipient,
           ChooseFile, SubmitRefused, PagePosts, Submit, PageSucceeds, Succeed,
           PageFails, SubmitFails, ClientPosts, ApiServes, Surroundings, pageVars
  <2>2. uploads' = uploads \ {up} /\ recipients' = recipients \o NewItems(up)
    BY <2>1 DEF FileLoaded
  <2>3. FormTypeOK
    BY DEF FormInv
  <2>4. /\ IsPrefix(recipients, recipients')
        /\ ToSet(recipients') \subseteq ToSet(recipients) \cup ToSet(up.file)
    BY <2>2, <2>3, ItemsOfFile, AppendingKeeps
  <2> QED BY <2>2, <2>4
<1>2. SubSpec => []FormInv
  BY FormInit, FormKeeps, PTL DEF SubSpec
<1> QED BY <1>1, <1>2, PTL DEF SubSpec, UploadKeepsEdits

-------------------------------------------------------------------------------
(* What the page creates *)

\* The requests of the page, those of them that are past their commit, and the
\* campaigns they have created.
Posts == { q \in Requests :
             stage[q] # "idle" /\ input[q].user = PageUser /\ input[q].key = NoKey }
Waiting == { "lookup", "check", "commit" }
Served == { q \in Posts : stage[q] \notin Waiting }
Mine == { c \in Campaigns :
            campaigns[c].owner = PageUser /\ campaigns[c].key = NoKey }

\* The page posts once more only after an error, and each request commits once.
Attempts == IF page \in { "submitting", "left" } THEN errors + 1 ELSE errors
AttemptsInv ==
    /\ errors \in Nat
    /\ IsFiniteSet(Posts) /\ Cardinality(Posts) <= Attempts
    /\ IsFiniteSet(Mine) /\ Cardinality(Mine) <= Cardinality(Served)

\* Attempts are counted.
LEMMA AttemptsCount ==
  ASSUME errors \in Nat, errors' \in Nat
  PROVE  Attempts \in Nat /\ Attempts' \in Nat
<1>1. Attempts \in { errors, errors + 1 } /\ Attempts' \in { errors', errors' + 1 }
  BY DEF Attempts
<1>2. \A n \in Nat : n + 1 \in Nat
  OBVIOUS
<1> QED BY <1>1, <1>2

\* A step after which no request of the page is undone and nothing was created.
LEMMA ServingKeeps ==
  ASSUME AttemptsInv, errors' \in Nat, Attempts' >= Attempts,
         Posts' = Posts, Served \subseteq Served', Mine' = Mine
  PROVE  AttemptsInv'
<1>1. IsFiniteSet(Served') /\ Cardinality(Served) <= Cardinality(Served')
  <2>1. Served' \in SUBSET Posts'
    BY DEF Served
  <2>2. IsFiniteSet(Served')
    BY <2>1, FS_Subset DEF AttemptsInv
  <2> QED BY <2>2, FS_Subset
<1>2. Served \in SUBSET Posts
  BY DEF Served
<1>3. IsFiniteSet(Served)
  BY <1>2, FS_Subset DEF AttemptsInv
<1>4. /\ Cardinality(Served) \in Nat /\ Cardinality(Served') \in Nat
      /\ Cardinality(Mine) \in Nat /\ Cardinality(Posts) \in Nat
  BY <1>1, <1>3, FS_CardinalityType DEF AttemptsInv
<1>5. Attempts \in Nat /\ Attempts' \in Nat
  BY AttemptsCount DEF AttemptsInv
<1>6. Cardinality(Mine') <= Cardinality(Served') /\ Cardinality(Posts') <= Attempts'
  BY <1>1, <1>4, <1>5 DEF AttemptsInv
<1> QED BY <1>6 DEF AttemptsInv

\* The page posts: one request more, for which the page then waits.
LEMMA PostingKeeps ==
  ASSUME IInv, AttemptsInv, NEW q \in Requests, PagePosts(q)
  PROVE  AttemptsInv'
<1> DEFINE body == [user |-> PageUser, key |-> NoKey,
                    senders |-> <<selected>>, recipients |-> recipients]
<1>1. /\ stage[q] = "idle" /\ stage'[q] = "check" /\ input'[q] = body
      /\ \A p \in Requests \ {q} : stage'[p] = stage[p] /\ input'[p] = input[p]
      /\ UNCHANGED <<campaigns, errors>>
      /\ page = "editing" /\ page' = "submitting"
  BY DEF PagePosts, Receive, Submit, MaySubmit, Goto, IInv, Shapes
<1>2. Posts' = Posts \cup {q} /\ q \notin Posts
  BY <1>1 DEF Posts
<1>3. Served' = Served
  <2>1. ASSUME NEW p \in Served' PROVE p \in Served
    <3>1. p \in Posts' /\ stage'[p] \notin Waiting
      BY DEF Served, Waiting
    <3>2. p # q
      BY <1>1, <3>1 DEF Waiting
    <3> QED BY <1>1, <1>2, <3>1, <3>2 DEF Served, Posts
  <2>2. ASSUME NEW p \in Served PROVE p \in Served'
    <3>1. p \in Posts /\ p # q /\ stage[p] \notin Waiting
      BY <1>2 DEF Served
    <3>2. p \in Posts' /\ stage'[p] = stage[p]
      BY <1>1, <1>2, <3>1 DEF Posts
    <3> QED BY <3>1, <3>2 DEF Served, Waiting
  <2> QED BY <2>1, <2>2
<1>4. Mine' = Mine
  BY <1>1 DEF Mine
<1>5. IsFiniteSet(Posts') /\ Cardinality(Posts') = Cardinality(Posts) + 1
  BY <1>2, FS_AddElement DEF AttemptsInv
<1>6. Attempts' = Attempts + 1 /\ errors' \in Nat /\ Attempts \in Nat
  BY <1>1 DEF Attempts, AttemptsInv
<1>7. Cardinality(Posts) \in Nat
  BY FS_CardinalityType DEF AttemptsInv
<1>8. Cardinality(Posts') <= Attempts'
  BY <1>5, <1>6, <1>7 DEF AttemptsInv
<1> QED BY <1>3, <1>4, <1>5, <1>6, <1>8 DEF AttemptsInv

\* A request commits: the campaign is the page's if the request is.
LEMMA CreatingKeeps ==
  ASSUME IInv, AttemptsInv, NEW q \in Requests, Commit(q),
         UNCHANGED <<page, errors>>
  PROVE  AttemptsInv'
<1>1. PICK c \in Campaigns :
        /\ ~Exists(c)
        /\ campaigns' = [campaigns EXCEPT ![c] =
              [owner |-> input[q].user, key |-> input[q].key,
               rows |-> PlannedRows(input[q])]]
  BY DEF Commit
<1>2. /\ stage[q] = "commit" /\ input' = input
      /\ stage'[q] \in { "enqueue", "failed" }
      /\ \A p \in Requests \ {q} : stage'[p] = stage[p]
  BY DEF Commit, Goto, IInv, Shapes
<1>3. /\ campaigns'[c].owner = input[q].user /\ campaigns'[c].key = input[q].key
      /\ \A d \in Campaigns \ {c} : campaigns'[d] = campaigns[d]
  BY <1>1 DEF IInv, Shapes
<1>4. Posts' = Posts /\ Served \subseteq Served'
  BY <1>2 DEF Posts, Served, Waiting
<1>5. c \notin Mine
  BY <1>1, SubmissionAssumption, CreationAssumption
     DEF Mine, Exists, SubmissionAssumption, CreationAssumption
<1>6. Attempts' = Attempts /\ errors' \in Nat /\ Attempts \in Nat
  BY DEF Attempts, AttemptsInv
<1>7. CASE input[q].user = PageUser /\ input[q].key = NoKey
  <2>1. Mine' = Mine \cup {c}
    BY <1>3, <1>7 DEF Mine
  <2>2. q \in Posts /\ q \notin Served /\ Served' = Served \cup {q}
    BY <1>2, <1>7 DEF Posts, Served, Waiting
  <2>3. IsFiniteSet(Mine') /\ Cardinality(Mine') = Cardinality(Mine) + 1
    BY <1>5, <2>1, FS_AddElement DEF AttemptsInv
  <2>4. Served \in SUBSET Posts
    BY DEF Served
  <2>5. IsFiniteSet(Served)
    BY <2>4, FS_Subset DEF AttemptsInv
  <2>6. Cardinality(Served') = Cardinality(Served) + 1
    BY <2>2, <2>5, FS_AddElement
  <2>7. Cardinality(Served) \in Nat /\ Cardinality(Mine) \in Nat
    BY <2>5, FS_CardinalityType DEF AttemptsInv
  <2>8. Cardinality(Mine') <= Cardinality(Served')
    BY <2>3, <2>6, <2>7 DEF AttemptsInv
  <2> QED BY <1>4, <1>6, <2>3, <2>8 DEF AttemptsInv
<1>8. CASE ~(input[q].user = PageUser /\ input[q].key = NoKey)
  <2>1. Mine' = Mine
    BY <1>3, <1>5, <1>8 DEF Mine
  <2> QED BY <1>4, <1>6, <2>1, ServingKeeps
<1> QED BY <1>7, <1>8

\* Every step keeps the count of the page's attempts.
LEMMA AttemptsKeep ==
  ASSUME IInv, FormInv, AttemptsInv, [SubNext]_subVars
  PROVE  AttemptsInv'
<1>1. ASSUME UNCHANGED vars, errors' \in Nat, Attempts' >= Attempts PROVE AttemptsInv'
  <2>1. Posts' = Posts /\ Served' = Served /\ Mine' = Mine
    BY <1>1 DEF vars, Posts, Served, Mine
  <2> QED BY <1>1, <2>1, ServingKeeps
<1>2. ASSUME UNCHANGED <<campaigns, input, page, errors>>,
             \A q \in Requests : /\ stage'[q] # "idle" <=> stage[q] # "idle"
                                 /\ stage'[q] \in Waiting => stage[q] \in Waiting
      PROVE  AttemptsInv'
  <2>1. Posts' = Posts /\ Mine' = Mine
    BY <1>2 DEF Posts, Mine
  <2>2. Served \subseteq Served'
    <3> SUFFICES ASSUME NEW q \in Served PROVE q \in Posts' /\ stage'[q] \notin Waiting
      BY DEF Served, Waiting
    <3>1. q \in Posts /\ q \in Requests /\ stage[q] \notin Waiting
      BY DEF Served, Posts
    <3> QED BY <1>2, <2>1, <3>1
  <2>3. Attempts' = Attempts /\ Attempts \in Nat /\ errors' \in Nat
    BY <1>2 DEF Attempts, AttemptsInv
  <2> QED BY <2>1, <2>2, <2>3, ServingKeeps
<1>3. CASE PageEdits \/ PageSucceeds \/ PageFails \/ UNCHANGED subVars
  <2>1. UNCHANGED vars
    BY <1>3 DEF PageEdits, PageSucceeds, PageFails, subVars
  <2>2. CASE UNCHANGED <<page, errors>>
    BY <1>1, <2>1, <2>2 DEF Attempts, AttemptsInv
  <2>3. CASE LoadSenders(active) /\ UNCHANGED errors
    BY <1>1, <2>1, <2>3 DEF LoadSenders, Attempts, AttemptsInv
  <2>4. CASE PageSucceeds
    BY <1>1, <2>1, <2>4 DEF PageSucceeds, Succeed, Attempts, AttemptsInv
  <2>5. CASE PageFails
    BY <1>1, <2>1, <2>5 DEF PageFails, SubmitFails, Attempts, AttemptsInv
  <2> QED BY <1>3, <2>2, <2>3, <2>4, <2>5
          DEF PageEdits, AddRecipients, RemoveRecipient, ChooseFile, FileLoaded,
              SubmitRefused, subVars, pageVars
<1>4. ASSUME NEW q \in Requests, ClientPosts(q) PROVE AttemptsInv'
  <2>1. PICK in \in Inputs : Receive(q, in)
    BY <1>4 DEF ClientPosts
  <2>2. /\ stage[q] = "idle" /\ input'[q] = in
        /\ \A p \in Requests \ {q} : stage'[p] = stage[p] /\ input'[p] = input[p]
        /\ UNCHANGED <<campaigns, page, errors>>
    BY <1>4, <2>1 DEF ClientPosts, Receive, Goto, pageVars, IInv, Shapes
  <2>3. ~(in.user = PageUser /\ in.key = NoKey)
    BY SubmissionAssumption DEF SubmissionAssumption
  <2>4. Posts' = Posts /\ Mine' = Mine
    BY <2>2, <2>3 DEF Posts, Mine
  <2>5. Served \subseteq Served'
    BY <2>2, <2>4 DEF Served, Posts
  <2>6. Attempts' = Attempts /\ Attempts \in Nat /\ errors' \in Nat
    BY <2>2 DEF Attempts, AttemptsInv
  <2> QED BY <2>4, <2>5, <2>6, ServingKeeps
<1>5. ASSUME NEW q \in Requests, ApiServes(q) PROVE AttemptsInv'
  <2>1. Serve(q) /\ UNCHANGED <<page, errors>>
    BY <1>5 DEF ApiServes, pageVars
  <2>2. CASE Commit(q)
    BY <2>1, <2>2, CreatingKeeps
  <2>3. ASSUME LookUp(q) \/ CheckSenders(q) \/ UniqueViolation(q) \/ Recover(q)
                 \/ Enqueue(q)
        PROVE  AttemptsInv'
    <3>1. UNCHANGED <<campaigns, input>>
      BY <2>3 DEF LookUp, CheckSenders, UniqueViolation, Recover, Find, Enqueue
    <3>2. /\ \A p \in Requests \ {q} : stage'[p] = stage[p]
          /\ stage[q] \notin Waiting =>
                stage'[q] \in { "conflict", "answered", "failed" }
          /\ stage[q] # "idle"
          /\ stage'[q] \in { "answered", "check", "commit", "rejected", "recover",
                             "conflict", "failed" }
      BY <2>3 DEF LookUp, CheckSenders, UniqueViolation, Recover, Find, Enqueue,
                  Goto, IInv, Shapes, Waiting
    <3> QED BY <1>2, <2>1, <3>1, <3>2 DEF Waiting
  <2> QED BY <2>1, <2>2, <2>3 DEF Serve
<1>6. ASSUME Surroundings PROVE AttemptsInv'
  <2>1. UNCHANGED <<campaigns, input, page, errors>>
    BY <1>6 DEF Surroundings, ApiCrash, TransactionFails, ToggleSender, pageVars
  <2>2. \A q \in Requests :
           \/ stage'[q] = stage[q]
           \/ stage[q] # "idle" /\ stage'[q] \in { "lost", "failed" }
    BY <1>6 DEF Surroundings, ApiCrash, InService, TransactionFails, ToggleSender,
                Goto, IInv, Shapes
  <2> QED BY <1>2, <2>1, <2>2 DEF Waiting
<1> QED BY <1>3, <1>4, <1>5, <1>6, PostingKeeps DEF SubNext

\* The page creates one campaign, and at most one more for every error it has
\* shown, whatever happens to its answers and however its user clicks.
THEOREM OneCampaignEach == SubSpec => []OneCampaignPerAttempt
<1>1. SubInit => AttemptsInv
  <2> SUFFICES ASSUME SubInit PROVE AttemptsInv
    OBVIOUS
  <2>1. Posts = {} /\ Served = {}
    BY DEF SubInit, Init, Posts, Served
  <2>2. Mine = {}
    BY SubmissionAssumption, CreationAssumption
       DEF SubInit, Init, NoRow, Mine, SubmissionAssumption, CreationAssumption
  <2>3. errors = 0 /\ Attempts = 0
    BY DEF SubInit, PageInit, Attempts
  <2> QED BY <2>1, <2>2, <2>3, FS_EmptySet DEF AttemptsInv
<1>2. IInv /\ FormInv /\ AttemptsInv /\ [SubNext]_subVars => AttemptsInv'
  BY AttemptsKeep
<1>3. AttemptsInv => OneCampaignPerAttempt
  <2> SUFFICES ASSUME AttemptsInv PROVE Cardinality(Mine) <= errors + 1
    BY DEF OneCampaignPerAttempt, Mine
  <2>1. Served \in SUBSET Posts
    BY DEF Served
  <2>2. IsFiniteSet(Served) /\ Cardinality(Served) <= Cardinality(Posts)
    BY <2>1, FS_Subset DEF AttemptsInv
  <2>3. /\ Cardinality(Served) \in Nat /\ Cardinality(Posts) \in Nat
        /\ Cardinality(Mine) \in Nat
    BY <2>2, FS_CardinalityType DEF AttemptsInv
  <2>4. errors \in Nat /\ Attempts \in Nat /\ Attempts <= errors + 1
    BY DEF AttemptsInv, Attempts
  <2> QED BY <2>2, <2>3, <2>4 DEF AttemptsInv
<1>4. Spec => []IInv
  BY InitIInv, NextKeeps, PTL DEF Spec
<1>5. SubSpec => []FormInv
  BY FormInit, FormKeeps, PTL DEF SubSpec
<1> QED BY <1>1, <1>2, <1>3, <1>4, <1>5, ClientsUseCreation, PTL DEF SubSpec
===============================================================================
