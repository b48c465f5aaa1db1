------------------------------ MODULE SenderProofs ------------------------------
(***************************************************************************)
(* SenderService for any users, senders, accounts and overlapping calls.   *)
(* The invariant follows a password from the table into a request, or the  *)
(* worker's slot, and from there into a transport; and an update from its  *)
(* check of ownership to its write.                                        *)
(***************************************************************************)
EXTENDS SenderService, TLAPS

Cells == { "idle", "listAny", "provision", "update", "verify", "answered", "lost" }
RowIn(s) == sender[s] = Absent \/ sender[s] \in Row

\* What each request has read is of its type; nothing that was inserted is
\* deleted, so that what an update was allowed to change is still there, and
\* still its user's.
CallOK(c) ==
    /\ call[c].at \in Cells
    /\ call[c].at \in { "listAny", "provision" } => call[c].user \in Users
    /\ call[c].at = "update" =>
          /\ call[c].id \in Senders /\ call[c].patch \in Patches
          /\ sender[call[c].id] \in Row
          /\ sender[call[c].id].owner = call[c].user
    /\ call[c].at = "verify" => call[c].creds \in Credentials

ResetOK ==
    /\ reset.at \in { "idle", "find", "write", "failed" }
    /\ reset.at \in { "find", "write" } => reset.left \subseteq Users
    /\ reset.at = "write" =>
          /\ reset.user \in Users
          /\ reset.found \subseteq Senders
          /\ \A s \in reset.found : sender[s] \in Row

Types ==
    /\ DOMAIN sender = Senders /\ \A s \in Senders : RowIn(s)
    /\ DOMAIN call = Calls /\ \A c \in Calls : CallOK(c)
    /\ loaded.at \in { "idle", "send" }
    /\ loaded.at = "send" => loaded.creds \in Credentials
    /\ ResetOK
    /\ DOMAIN held = Processes
    /\ DOMAIN transports = Processes
    /\ \A p \in Processes : DOMAIN transports[p] = Accounts

Pair(creds) == <<creds.account, creds.pass>>

\* A password that is stored, or on its way into a transport of a process, was
\* stored since that process started.
Known ==
    /\ \A p \in Processes : Stored \subseteq held[p]
    /\ \A c \in Calls : call[c].at = "verify" => Pair(call[c].creds) \in held["api"]
    /\ loaded.at = "send" => Pair(loaded.creds) \in held["worker"]

IInv == Types /\ Known /\ StaleOnlyUntilRestart

-------------------------------------------------------------------------------
(* Rows and statements *)

\* What is absent is no row.
LEMMA AbsentIsNoRow == Absent \notin Row
  BY SenderAssumption DEF SenderAssumption

\* A patched row is a row of the same owner.
LEMMA PatchKeepsOwner ==
  ASSUME NEW row \in Row, NEW patch \in Patches
  PROVE  Patched(row, patch) \in Row /\ Patched(row, patch).owner = row.owner
<1>1. Patched(row, patch) \in Row /\ "owner" \notin DOMAIN patch
  BY SenderAssumption DEF SenderAssumption
<1>2. "owner" \in DOMAIN row
  BY DEF Row
<1>3. Patched(row, patch)["owner"] = row["owner"]
  BY <1>1, <1>2 DEF Patched
<1> QED BY <1>1, <1>3

\* An insertion adds one row, of the given user, and changes no other.
LEMMA InsertAdds ==
  ASSUME DOMAIN sender = Senders, NEW u \in Users, NEW in \in Inputs \cup {DefaultRow},
         Insert(u, in)
  PROVE  \E s \in Senders :
            /\ sender[s] = Absent /\ sender'[s] \in Row
            /\ sender'[s].owner = u /\ sender'[s].from = in.from
            /\ DOMAIN sender' = Senders
            /\ \A t \in Senders \ {s} : sender'[t] = sender[t]
<1>1. in \in [from : Addresses, account : Accounts, pass : Passwords, active : {TRUE}]
  BY SenderAssumption DEF SenderAssumption
<1>2. PICK s \in Senders \ Existing :
         sender' = [sender EXCEPT ![s] =
            [owner |-> u, from |-> in.from, account |-> in.account,
             pass |-> in.pass, active |-> in.active]]
  BY DEF Insert
<1>3. sender[s] = Absent
  BY DEF Existing
<1>4. sender'[s] = [owner |-> u, from |-> in.from, account |-> in.account,
                    pass |-> in.pass, active |-> in.active]
  BY <1>2
<1>5. sender'[s] \in Row
  <2>1. /\ in.from \in Addresses /\ in.account \in Accounts /\ in.pass \in Passwords
        /\ in.active = TRUE
    BY <1>1
  <2>2. sender'[s] = [owner |-> u, from |-> in.from, account |-> in.account,
                      pass |-> in.pass, active |-> TRUE]
    BY <1>4, <2>1
  <2> QED BY <2>1, <2>2 DEF Row
<1> QED BY <1>2, <1>3, <1>4, <1>5

-------------------------------------------------------------------------------
(* The table *)

\* Rows stay, and stay their owner's.
RowsStay ==
    /\ DOMAIN sender' = Senders
    /\ \A s \in Senders : sender'[s] = Absent \/ sender'[s] \in Row
    /\ \A s \in Senders : sender[s] \in Row =>
          sender'[s] \in Row /\ sender'[s].owner = sender[s].owner

\* An update writes a row of its user.
LEMMA UpdateWrites ==
  ASSUME Types, NEW c \in Calls, UpdateSender(c), sender' # sender
  PROVE  /\ call[c].at = "update" /\ call[c].id \in Senders
         /\ call[c].patch \in Patches
         /\ sender[call[c].id] \in Row
         /\ sender' = [sender EXCEPT ![call[c].id] =
                          Patched(sender[call[c].id], call[c].patch)]
         /\ sender'[call[c].id] \in Row
         /\ sender'[call[c].id].owner = sender[call[c].id].owner
         /\ sender[call[c].id].owner = call[c].user
<1>1. /\ call[c].at = "update" /\ call[c].id \in Senders
      /\ call[c].patch \in Patches
      /\ sender[call[c].id] \in Row
      /\ sender[call[c].id].owner = call[c].user
  BY DEF Types, CallOK, UpdateSender
<1>2. sender' = [sender EXCEPT ![call[c].id] =
                    Patched(sender[call[c].id], call[c].patch)]
  BY DEF UpdateSender
<1>3. sender'[call[c].id] = Patched(sender[call[c].id], call[c].patch)
  BY <1>1, <1>2 DEF Types
<1>4. /\ sender'[call[c].id] \in Row
      /\ sender'[call[c].id].owner = sender[call[c].id].owner
  BY <1>1, <1>3, PatchKeepsOwner
<1> QED BY <1>1, <1>2, <1>4

\* Every step keeps the rows and their owners.
LEMMA RowsStayThroughout ==
  ASSUME Types, [Next]_vars
  PROVE  RowsStay
<1> USE DEF RowIn
<1>1. ASSUME UNCHANGED sender PROVE RowsStay
  BY <1>1 DEF RowsStay, Types
<1>2. ASSUME NEW u \in Users, NEW in \in Inputs \cup {DefaultRow}, Insert(u, in)
      PROVE  RowsStay
  <2>1. PICK s \in Senders :
            /\ sender[s] = Absent /\ sender'[s] \in Row
            /\ DOMAIN sender' = Senders
            /\ \A t \in Senders \ {s} : sender'[t] = sender[t]
    BY <1>2, InsertAdds DEF Types
  <2>2. sender[s] \notin Row
    BY <2>1, AbsentIsNoRow
  <2> QED BY <2>1, <2>2 DEF RowsStay, Types
<1>3. ASSUME NEW c \in Calls, NEW u \in Users, NEW in \in Inputs,
             CreateSender(c, u, in)
      PROVE  RowsStay
  BY <1>1, <1>2, <1>3 DEF CreateSender
<1>4. ASSUME NEW c \in Calls, Provision(c) PROVE RowsStay
  <2>1. call[c].user \in Users
    BY <1>4 DEF Provision, Types, CallOK
  <2> QED BY <1>1, <1>2, <1>4, <2>1 DEF Provision
<1>5. ASSUME NEW c \in Calls, UpdateSender(c) PROVE RowsStay
  <2>1. CASE sender' = sender
    BY <1>1, <2>1
  <2>2. CASE sender' # sender
    BY <1>5, <2>2, UpdateWrites DEF RowsStay, Types
  <2> QED BY <2>1, <2>2
<1>6. ASSUME NEW row \in Row
      PROVE  /\ [row EXCEPT !.active = FALSE] \in Row
             /\ [row EXCEPT !.active = FALSE].owner = row.owner
             /\ [row EXCEPT !.account = DefaultRow.account,
                            !.pass = DefaultRow.pass, !.active = TRUE] \in Row
             /\ [row EXCEPT !.account = DefaultRow.account,
                            !.pass = DefaultRow.pass, !.active = TRUE].owner
                   = row.owner
  <2>1. DefaultRow.account \in Accounts /\ DefaultRow.pass \in Passwords
    BY SenderAssumption DEF SenderAssumption
  <2> QED BY <2>1 DEF Row
<1>7. CASE ResetBegins
  BY <1>6, <1>7, AbsentIsNoRow DEF ResetBegins, RowsStay, Types, Existing
<1>8. CASE ResetWrites
  <2>1. reset.user \in Users /\ \A s \in reset.found : sender[s] \in Row
    BY <1>8 DEF ResetWrites, Types, ResetOK
  <2>2. CASE reset.found # {} /\ sender' = [s \in Senders |-> IF s \in reset.found
                THEN [sender[s] EXCEPT !.account = DefaultRow.account,
                                       !.pass = DefaultRow.pass, !.active = TRUE]
                ELSE sender[s]]
    BY <1>6, <2>1, <2>2 DEF RowsStay, Types
  <2>3. CASE Insert(reset.user, DefaultRow)
    BY <1>2, <2>1, <2>3
  <2> QED BY <1>1, <1>8, <2>2, <2>3 DEF ResetWrites
<1>9. CASE LoadCredentials \/ SendEmail \/ (\E u \in Users : ResetFinds(u))
             \/ (\E p \in Processes : Restart(p)) \/ UNCHANGED vars
  BY <1>1, <1>9 DEF LoadCredentials, SendEmail, ResetFinds, Restart, vars, tableVars
<1>10. ASSUME NEW c \in Calls, NEW u \in Users,
              \/ ListOwn(c, u)
              \/ \E s \in Senders : BeginVerify(c, u, s)
              \/ \E s \in Senders, patch \in Patches : BeginUpdate(c, u, s, patch)
       PROVE  RowsStay
  BY <1>1, <1>10 DEF ListOwn, BeginVerify, BeginUpdate, tableVars
<1>11. ASSUME NEW c \in Calls, ListAny(c) \/ VerifyTransport(c) PROVE RowsStay
  BY <1>1, <1>11 DEF ListAny, VerifyTransport, tableVars
<1> QED BY <1>3, <1>4, <1>5, <1>7, <1>8, <1>9, <1>10, <1>11 DEF Next, Request, Serve

-------------------------------------------------------------------------------
(* Requests, the worker's slot and the script *)

\* The credentials of an existing row.
LEMMA CredentialsOfRow ==
  ASSUME Types, NEW s \in Existing
  PROVE  /\ s \in Senders /\ sender[s] \in Row
         /\ CredentialsOf(s) \in Credentials
         /\ Pair(CredentialsOf(s)) \in Stored
  BY DEF Types, RowIn, Existing, CredentialsOf, Credentials, Pair, Stored, Row

\* A request in a step of its own: where it goes is a cell of its type.
LEMMA OwnStepTyped ==
  ASSUME Types, RowsStay, NEW c \in Calls, Request(c) \/ Serve(c)
  PROVE  /\ DOMAIN call' = Calls
         /\ \A d \in Calls \ {c} : call'[d] = call[d]
         /\ CallOK(c)'
<1> USE DEF Goto, Answer, Cells
<1>0. DOMAIN call = Calls /\ CallOK(c)
  BY DEF Types
<1>1. ASSUME NEW u \in Users, ListOwn(c, u)
      PROVE  /\ DOMAIN call' = Calls
             /\ \A d \in Calls \ {c} : call'[d] = call[d]
             /\ CallOK(c)'
  BY <1>0, <1>1 DEF ListOwn, CallOK
<1>2. ASSUME ListAny(c)
      PROVE  /\ DOMAIN call' = Calls
             /\ \A d \in Calls \ {c} : call'[d] = call[d]
             /\ CallOK(c)'
  BY <1>0, <1>2 DEF ListAny, CallOK
<1>3. ASSUME Provision(c) \/ VerifyTransport(c) \/ UpdateSender(c)
                \/ \E u \in Users, in \in Inputs : CreateSender(c, u, in)
      PROVE  /\ DOMAIN call' = Calls
             /\ \A d \in Calls \ {c} : call'[d] = call[d]
             /\ CallOK(c)'
  BY <1>0, <1>3 DEF Provision, VerifyTransport, UpdateSender, CreateSender, CallOK
<1>4. ASSUME NEW u \in Users, NEW s \in Senders, BeginVerify(c, u, s)
      PROVE  /\ DOMAIN call' = Calls
             /\ \A d \in Calls \ {c} : call'[d] = call[d]
             /\ CallOK(c)'
  <2>1. CASE s \in OwnedBy(u)
    <3>1. CredentialsOf(s) \in Credentials
      BY <2>1, CredentialsOfRow DEF OwnedBy
    <3> QED BY <1>0, <1>4, <2>1, <3>1 DEF BeginVerify, CallOK
  <2>2. CASE s \notin OwnedBy(u)
    BY <1>0, <1>4, <2>2 DEF BeginVerify, CallOK
  <2> QED BY <2>1, <2>2
<1>5. ASSUME NEW u \in Users, NEW s \in Senders, NEW patch \in Patches,
             BeginUpdate(c, u, s, patch)
      PROVE  /\ DOMAIN call' = Calls
             /\ \A d \in Calls \ {c} : call'[d] = call[d]
             /\ CallOK(c)'
  <2>1. CASE RequireOwnedSender(u, s)
    <3>1. sender[s] \in Row /\ sender[s].owner = u
      BY <2>1, CredentialsOfRow DEF RequireOwnedSender, OwnedBy
    <3>2. sender'[s] \in Row /\ sender'[s].owner = u
      BY <3>1 DEF RowsStay
    <3> QED BY <1>0, <1>5, <2>1, <3>2 DEF BeginUpdate, CallOK
  <2>2. CASE ~RequireOwnedSender(u, s)
    BY <1>0, <1>5, <2>2 DEF BeginUpdate, CallOK
  <2> QED BY <2>1, <2>2
<1> QED BY <1>1, <1>2, <1>3, <1>4, <1>5 DEF Request, Serve

\* A request that takes no step keeps its type while rows stay.
LEMMA IdleCallTyped ==
  ASSUME Types, RowsStay, NEW c \in Calls, call'[c] = call[c]
  PROVE  CallOK(c)'
  BY DEF Types, CallOK, RowsStay

\* A transport is made for a verification or a delivery, from the credentials
\* that were read for it, and lost when its process stops.
LEMMA TransportMoves ==
  ASSUME [Next]_vars
  PROVE  \/ UNCHANGED transports
         \/ \E c \in Calls : call[c].at = "verify" /\ Connect("api", call[c].creds)
         \/ loaded.at = "send" /\ Connect("worker", loaded.creds)
         \/ \E p \in Processes :
               CloseTransports(p) /\ held' = [held EXCEPT ![p] = Stored]
  BY DEF Next, Request, Serve, ListOwn, ListAny, Provision, CreateSender, BeginUpdate,
         UpdateSender, BeginVerify, VerifyTransport, LoadCredentials, SendEmail,
         Restart, ResetBegins, ResetFinds, ResetWrites, tableVars, vars

\* The worker's slot loads credentials or gives them up.
LEMMA SlotMoves ==
  ASSUME [Next]_vars
  PROVE  LoadCredentials \/ UNCHANGED loaded \/ loaded' = [at |-> "idle"]
  BY DEF Next, SendEmail, Restart, ResetBegins, ResetFinds, ResetWrites, vars

\* The types are kept.
LEMMA TypesKept ==
  ASSUME Types, [Next]_vars
  PROVE  Types'
<1>1. RowsStay
  BY RowsStayThroughout
<1>2. DOMAIN sender' = Senders /\ \A s \in Senders : RowIn(s)'
  BY <1>1 DEF RowsStay, RowIn
<1>3. DOMAIN call' = Calls /\ \A c \in Calls : CallOK(c)'
  <2>1. ASSUME NEW c \in Calls, Request(c) \/ Serve(c)
        PROVE  DOMAIN call' = Calls /\ \A d \in Calls : CallOK(d)'
    BY <1>1, <2>1, OwnStepTyped, IdleCallTyped
  <2>2. ASSUME NEW p \in Processes, Restart(p)
        PROVE  DOMAIN call' = Calls /\ \A d \in Calls : CallOK(d)'
    <3>1. DOMAIN call' = Calls
      BY <2>2 DEF Restart, Types
    <3>2. ASSUME NEW d \in Calls PROVE CallOK(d)'
      <4>1. call'[d] = call[d] \/ call'[d] = [at |-> "lost"]
        BY <2>2 DEF Restart
      <4>2. CASE call'[d] = [at |-> "lost"]
        BY <4>2 DEF CallOK, Cells
      <4> QED BY <1>1, <4>1, <4>2, IdleCallTyped
    <3> QED BY <3>1, <3>2
  <2>3. ASSUME UNCHANGED call
        PROVE  DOMAIN call' = Calls /\ \A d \in Calls : CallOK(d)'
    <3>1. ASSUME NEW d \in Calls PROVE CallOK(d)'
      BY <1>1, <2>3, IdleCallTyped
    <3> QED BY <2>3, <3>1 DEF Types
  <2> QED BY <2>1, <2>2, <2>3 DEF Next, LoadCredentials, SendEmail, ResetBegins,
                                  ResetFinds, ResetWrites, vars
<1>4. /\ loaded'.at \in { "idle", "send" }
      /\ loaded'.at = "send" => loaded'.creds \in Credentials
  <2>1. CASE LoadCredentials
    BY <2>1, CredentialsOfRow DEF LoadCredentials
  <2>2. CASE UNCHANGED loaded \/ loaded' = [at |-> "idle"]
    BY <2>2 DEF Types
  <2> QED BY <2>1, <2>2, SlotMoves
<1>5. ResetOK'
  <2>1. CASE ResetBegins
    BY <2>1 DEF ResetBegins, ResetOK
  <2>2. ASSUME NEW u \in Users, ResetFinds(u) PROVE ResetOK'
    <3>1. /\ UNCHANGED sender
          /\ reset' = [at |-> "write", left |-> reset.left \ {u}, user |-> u,
                found |-> { s \in OwnedBy(u) : sender[s].from = DefaultRow.from }]
          /\ reset.left \subseteq Users
      BY <2>2 DEF ResetFinds, Types, ResetOK
    <3>2. \A s \in OwnedBy(u) : s \in Senders /\ sender[s] \in Row
      BY CredentialsOfRow DEF OwnedBy
    <3> QED BY <3>1, <3>2 DEF ResetOK
  <2>3. CASE ResetWrites
    <3>1. /\ reset' \in { [at |-> "find", left |-> reset.left], [at |-> "failed"] }
          /\ reset.left \subseteq Users
      BY <2>3 DEF ResetWrites, ResetOK, Types
    <3> QED BY <3>1 DEF ResetOK
  <2>4. CASE UNCHANGED reset
    BY <1>1, <2>4 DEF ResetOK, Types, RowsStay
  <2> QED BY <2>1, <2>2, <2>3, <2>4 DEF Next, LoadCredentials, SendEmail, Restart,
                                        vars
<1>6. /\ DOMAIN held' = Processes /\ DOMAIN transports' = Processes
      /\ \A p \in Processes : DOMAIN transports'[p] = Accounts
  <2>1. DOMAIN held' = Processes
    BY DEF Next, Types, vars
  <2>2. ASSUME NEW p, NEW creds, GetTransport(p, creds) \/ CloseTransports(p)
        PROVE  /\ DOMAIN transports' = Processes
               /\ \A q \in Processes : DOMAIN transports'[q] = Accounts
    BY <2>2 DEF GetTransport, CloseTransports, Types
  <2> QED BY <2>1, <2>2, TransportMoves DEF Types, Connect
<1> QED BY <1>2, <1>3, <1>4, <1>5, <1>6 DEF Types

-------------------------------------------------------------------------------
(* Passwords *)

\* A restart empties the cache of its process and drops what was on its way
\* there; the other process is as before.
LEMMA RestartKeepsKnown ==
  ASSUME IInv, NEW p \in Processes, Restart(p), held' = [held EXCEPT ![p] = Stored]
  PROVE  Known' /\ StaleOnlyUntilRestart'
<1>1. /\ p \in { "api", "worker" }
      /\ UNCHANGED sender /\ Stored' = Stored
      /\ transports' = [transports EXCEPT ![p] = [a \in Accounts |-> NoPassword]]
      /\ held'[p] = Stored /\ \A q \in Processes \ {p} : held'[q] = held[q]
  BY SenderAssumption DEF SenderAssumption, Restart, CloseTransports, Stored,
     Existing, IInv, Types
<1>2. \A q \in Processes : Stored' \subseteq held'[q]
  BY <1>1 DEF IInv, Known
<1>3. ASSUME NEW c \in Calls, call'[c].at = "verify"
      PROVE  Pair(call'[c].creds) \in held'["api"]
  <2>1. p = "worker" /\ UNCHANGED call
    BY <1>1, <1>3 DEF Restart, Free
  <2> QED BY <1>1, <1>3, <2>1, SenderAssumption DEF SenderAssumption, IInv, Known
<1>4. ASSUME loaded'.at = "send"
      PROVE  Pair(loaded'.creds) \in held'["worker"]
  <2>1. p = "api" /\ UNCHANGED loaded
    BY <1>1, <1>4 DEF Restart
  <2> QED BY <1>1, <1>4, <2>1, SenderAssumption DEF SenderAssumption, IInv, Known
<1>5. StaleOnlyUntilRestart'
  BY <1>1 DEF IInv, Types, StaleOnlyUntilRestart
<1> QED BY <1>2, <1>3, <1>4, <1>5 DEF Known

\* Every other step only adds to what a process has held.
LEMMA WorkKeepsKnown ==
  ASSUME IInv, [Next]_vars, held' = [p \in Processes |-> held[p] \cup Stored']
  PROVE  Known' /\ StaleOnlyUntilRestart'
<1>1. \A p \in Processes : Stored' \subseteq held'[p] /\ held[p] \subseteq held'[p]
  OBVIOUS
<1>2. "api" \in Processes /\ "worker" \in Processes
  BY SenderAssumption DEF SenderAssumption
<1>3. ASSUME NEW c \in Calls, call'[c].at = "verify"
      PROVE  Pair(call'[c].creds) \in held'["api"]
  <2>1. CASE call'[c] = call[c]
    BY <1>1, <1>2, <1>3, <2>1 DEF IInv, Known
  <2>2. ASSUME NEW u \in Users, NEW s \in Senders, BeginVerify(c, u, s)
        PROVE  Pair(call'[c].creds) \in held'["api"]
    <3>1. s \in OwnedBy(u) /\ call'[c].creds = CredentialsOf(s)
      BY <1>3, <2>2 DEF BeginVerify, Goto, Answer, IInv, Types
    <3>2. Pair(CredentialsOf(s)) \in Stored
      BY <3>1, CredentialsOfRow DEF OwnedBy, IInv
    <3> QED BY <1>1, <1>2, <3>1, <3>2 DEF IInv, Known
  <2>3. call'[c] = call[c] \/ \E u \in Users, s \in Senders : BeginVerify(c, u, s)
    <3>1. ASSUME NEW d \in Calls, Request(d) \/ Serve(d), call'[c] # call[c],
                 ~\E u \in Users, s \in Senders : BeginVerify(c, u, s)
          PROVE  FALSE
      BY <1>3, <3>1 DEF Request, Serve, ListOwn, ListAny, Provision, CreateSender,
         BeginUpdate, UpdateSender, BeginVerify, VerifyTransport, Goto, Answer,
         IInv, Types
    <3>2. ASSUME NEW p \in Processes, Restart(p) PROVE call'[c] = call[c]
      BY <1>3, <3>2 DEF Restart
    <3> QED BY <3>1, <3>2 DEF Next, LoadCredentials, SendEmail, ResetBegins,
                ResetFinds, ResetWrites, vars
  <2> QED BY <2>1, <2>2, <2>3
<1>4. ASSUME loaded'.at = "send"
      PROVE  Pair(loaded'.creds) \in held'["worker"]
  <2>1. CASE UNCHANGED loaded
    BY <1>1, <1>2, <1>4, <2>1 DEF IInv, Known
  <2>2. CASE LoadCredentials
    <3>1. Pair(loaded'.creds) \in Stored
      BY <2>2, CredentialsOfRow DEF LoadCredentials, IInv
    <3> QED BY <1>1, <1>2, <3>1 DEF IInv, Known
  <2>3. CASE loaded' = [at |-> "idle"]
    BY <1>4, <2>3
  <2> QED BY <2>1, <2>2, <2>3, SlotMoves
<1>5. StaleOnlyUntilRestart'
  <2>1. ASSUME NEW p \in Processes, NEW creds \in Credentials,
               Connect(p, creds), Pair(creds) \in held[p]
        PROVE  StaleOnlyUntilRestart'
    <3> SUFFICES ASSUME NEW q \in Processes, NEW a \in Accounts,
                        transports'[q][a] # NoPassword
                 PROVE  <<a, transports'[q][a]>> \in held'[q]
      BY DEF StaleOnlyUntilRestart
    <3>1. CASE transports'[q][a] = transports[q][a]
      BY <1>1, <3>1 DEF IInv, StaleOnlyUntilRestart
    <3>2. CASE transports'[q][a] # transports[q][a]
      <4>1. q = p /\ a = creds.account /\ transports'[q][a] = creds.pass
        BY <2>1, <3>2 DEF Connect, GetTransport, TransportPassword, IInv, Types
      <4> QED BY <1>1, <2>1, <4>1 DEF Pair
    <3> QED BY <3>1, <3>2
  <2>2. CASE UNCHANGED transports
    BY <1>1, <2>2 DEF IInv, StaleOnlyUntilRestart
  <2>3. ASSUME NEW p \in Processes, CloseTransports(p)
        PROVE  StaleOnlyUntilRestart'
    BY <1>1, <2>3 DEF CloseTransports, IInv, Types, StaleOnlyUntilRestart
  <2>4. ASSUME NEW c \in Calls, call[c].at = "verify", Connect("api", call[c].creds)
        PROVE  StaleOnlyUntilRestart'
    BY <1>2, <2>1, <2>4 DEF IInv, Types, CallOK, Known
  <2>5. ASSUME loaded.at = "send", Connect("worker", loaded.creds)
        PROVE  StaleOnlyUntilRestart'
    BY <1>2, <2>1, <2>5 DEF IInv, Types, Known
  <2> QED BY <2>2, <2>3, <2>4, <2>5, TransportMoves
<1> QED BY <1>1, <1>3, <1>4, <1>5 DEF Known

\* The invariant holds.
LEMMA InvariantHolds == Spec => []IInv
<1>1. Init => IInv
  <2> SUFFICES ASSUME Init PROVE IInv
    OBVIOUS
  <2>1. Types
    BY DEF Init, SmtpInit, Types, RowIn, CallOK, ResetOK, Cells
  <2>2. Existing = {}
    BY DEF Init, Existing
  <2>3. Known
    BY <2>2 DEF Init, Known, Stored
  <2>4. StaleOnlyUntilRestart
    BY DEF Init, SmtpInit, StaleOnlyUntilRestart
  <2> QED BY <2>1, <2>3, <2>4 DEF IInv
<1>2. IInv /\ [Next]_vars => IInv'
  <2> SUFFICES ASSUME IInv, [Next]_vars PROVE IInv'
    OBVIOUS
  <2>1. Types'
    BY TypesKept DEF IInv
  <2>2. CASE UNCHANGED vars
    BY <2>1, <2>2 DEF IInv, Known, StaleOnlyUntilRestart, vars, Stored, Existing
  <2>3. CASE Next
    BY <2>1, <2>3, RestartKeepsKnown, WorkKeepsKnown DEF Next, IInv
  <2> QED BY <2>2, <2>3
<1> QED BY <1>1, <1>2, PTL DEF Spec

\* A rotated password lives on only in processes that have not restarted, for
\* any accounts, passwords and overlapping requests.
THEOREM OldPasswordsGoWithTheProcess == Spec => []StaleOnlyUntilRestart
<1>1. IInv => StaleOnlyUntilRestart
  BY DEF IInv
<1> QED BY <1>1, InvariantHolds, PTL

-------------------------------------------------------------------------------
(* Ownership *)

\* A step that changes an existing row is an update of its owner, or the script's.
LEMMA RowWriters ==
  ASSUME IInv, [Next]_vars, NEW s \in Existing, sender'[s] # sender[s],
         ~(ResetBegins \/ ResetWrites)
  PROVE  \E c \in Calls : UpdateSender(c) /\ call[c].id = s
<1>1. ASSUME NEW u \in Users, NEW in \in Inputs \cup {DefaultRow}, Insert(u, in)
      PROVE  FALSE
  BY <1>1, InsertAdds, CredentialsOfRow, AbsentIsNoRow DEF IInv, Types
<1>2. ~UNCHANGED sender
  OBVIOUS
<1>3. ASSUME NEW c \in Calls, Request(c)
      PROVE  FALSE
  BY <1>1, <1>2, <1>3 DEF Request, ListOwn, CreateSender, BeginVerify, BeginUpdate,
                         tableVars
<1>4. ASSUME NEW c \in Calls, Provision(c)
      PROVE  FALSE
  <2>1. call[c].user \in Users
    BY <1>4 DEF Provision, IInv, Types, CallOK
  <2> QED BY <1>1, <1>2, <1>4, <2>1 DEF Provision
<1>5. ASSUME NEW c \in Calls, UpdateSender(c)
      PROVE  call[c].id = s
  <2>1. /\ call[c].id \in Senders
        /\ sender' = [sender EXCEPT ![call[c].id] =
                         Patched(sender[call[c].id], call[c].patch)]
    BY <1>2, <1>5, UpdateWrites DEF IInv
  <2> QED BY <2>1 DEF IInv, Types, Existing
<1>6. \E c \in Calls : Request(c) \/ Provision(c) \/ UpdateSender(c)
  BY <1>2 DEF Next, Serve, ListAny, VerifyTransport, LoadCredentials, SendEmail,
              ResetFinds, Restart, tableVars, vars
<1> QED BY <1>3, <1>4, <1>5, <1>6

\* Only its owner and the reset script change a sender, one write after the
\* check of another, and nobody gives it away; a request changes only what it
\* names.
THEOREM OwnersControl == Spec => OwnerControls
<1>1. IInv /\ [Next]_vars =>
       [\A s \in Existing : sender'[s] # sender[s] => OwnersWrite(s)]_vars
  <2> SUFFICES ASSUME IInv, [Next]_vars, NEW s \in Existing, sender'[s] # sender[s]
               PROVE  OwnersWrite(s)
    OBVIOUS
  <2>1. s \in Senders /\ sender[s] \in Row
    BY CredentialsOfRow DEF IInv
  <2>2. sender'[s].owner = sender[s].owner
    BY <2>1, RowsStayThroughout DEF IInv, RowsStay
  <2>3. CASE ResetBegins \/ ResetWrites
    <3>1. CASE ResetBegins
      BY <2>2, <3>1 DEF ResetBegins, OwnersWrite
    <3>2. CASE ResetWrites
      <4>1. /\ reset.at = "write"
            /\ reset' = [at |-> "find", left |-> reset.left]
               \/ reset'.at = "failed"
        BY <3>2 DEF ResetWrites
      <4>2. reset'.at # "write"
        BY <4>1
      <4> QED BY <2>2, <4>1, <4>2 DEF OwnersWrite
    <3> QED BY <2>3, <3>1, <3>2
  <2>4. CASE ~(ResetBegins \/ ResetWrites)
    <3>1. PICK c \in Calls : UpdateSender(c) /\ call[c].id = s
      BY <2>4, RowWriters
    <3>2. /\ call[c].at = "update" /\ call[c].user = sender[s].owner
          /\ call[c].patch \in Patches
          /\ sender'[s] = Patched(sender[s], call[c].patch)
      BY <2>1, <3>1, UpdateWrites DEF IInv, Types
    <3>3. call'[c] # call[c]
      BY <3>1 DEF UpdateSender, Answer, Goto, IInv, Types
    <3> QED BY <2>2, <3>1, <3>2, <3>3 DEF OwnersWrite
  <2> QED BY <2>3, <2>4
<1> QED BY <1>1, InvariantHolds, PTL DEF Spec, OwnerControls

\* A listing that provisions ends with a default sender of its user, whoever
\* else has one: the unique index is per user.
THEOREM ProvisioningSettles == Spec => ProvisionSettles
<1>1. IInv /\ [Next]_vars =>
       [\A c \in Calls :
           call[c].at = "provision" /\ call'[c].at = "answered" =>
             \E s \in Existing' :
                sender'[s].owner = call[c].user /\ sender'[s].from = DefaultRow.from]_vars
  <2> SUFFICES ASSUME IInv, [Next]_vars, NEW c \in Calls,
                      call[c].at = "provision", call'[c].at = "answered"
               PROVE  \E s \in Existing' : /\ sender'[s].owner = call[c].user
                                           /\ sender'[s].from = DefaultRow.from
    OBVIOUS
  <2>1. call'[c] # call[c] /\ call[c].user \in Users
    BY DEF IInv, Types, CallOK
  <2>2. Provision(c)
    <3>1. ASSUME NEW d \in Calls, Request(d) \/ Serve(d) PROVE Provision(c)
      BY <2>1, <3>1 DEF Request, Serve, ListOwn, ListAny, CreateSender, BeginUpdate,
         BeginVerify, UpdateSender, VerifyTransport, Provision, Free, Goto, Answer,
         IInv, Types
    <3>2. ASSUME NEW p \in Processes, Restart(p) PROVE FALSE
      BY <2>1, <3>2 DEF Restart
    <3> QED BY <2>1, <3>1, <3>2 DEF Next, LoadCredentials, SendEmail, ResetBegins,
                                    ResetFinds, ResetWrites, vars
  <2>3. CASE Taken(call[c].user, DefaultRow.from, {})
    <3>1. UNCHANGED sender
      BY <2>2, <2>3 DEF Provision
    <3> QED BY <2>3, <3>1 DEF Taken, OwnedBy, Existing
  <2>4. CASE Insert(call[c].user, DefaultRow)
    BY <2>1, <2>4, InsertAdds, AbsentIsNoRow DEF IInv, Types, Existing
  <2> QED BY <2>2, <2>3, <2>4 DEF Provision
<1> QED BY <1>1, InvariantHolds, PTL DEF Spec, ProvisionSettles
===============================================================================
