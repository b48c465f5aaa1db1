----------------------------- MODULE SenderService -----------------------------
(***************************************************************************)
(* senderService.ts over the Sender table, the worker that loads a         *)
(* sender's credentials at gate 1 and sends with them at gate 4, and the   *)
(* operator's resetSenders script.  Every await is a step boundary:        *)
(* listing is up to three statements, an update checks ownership in one    *)
(* statement and writes in another, a verification reads and then connects.*)
(***************************************************************************)
EXTENDS SmtpTransports

CONSTANTS
    Users,
    Senders,     \* ids of Sender rows
    Addresses,   \* from-addresses, normalised
    DefaultRow,  \* from, account and pass of the provisioned sender, active
    Inputs,      \* the senders a user may create
    Patches,     \* the patches a user may send: some fields with their values
    Calls,       \* bound: the requests of one behaviour
    Absent       \* a Sender row not inserted

\* A row of the Sender table, without its id.
Row == [owner : Users, from : Addresses, account : Accounts, pass : Passwords,
        active : BOOLEAN]

\* The fields that a patch names.
Patched(row, patch) ==
    [f \in DOMAIN row |-> IF f \in DOMAIN patch THEN patch[f] ELSE row[f]]

ASSUME SenderAssumption ==
    /\ Inputs \cup {DefaultRow} \subseteq
          [from : Addresses, account : Accounts, pass : Passwords, active : {TRUE}]
    /\ Processes = {"api", "worker"}
    /\ Absent \notin Row
    /\ \A patch \in Patches :
          /\ "owner" \notin DOMAIN patch
          /\ \A row \in Row : Patched(row, patch) \in Row

VARIABLES
    sender,  \* the Sender table
    call,    \* where a request is, and what it has read
    loaded,  \* the credentials the worker's slot holds between the gates
    reset,   \* where the reset script is: users left to do, row found
    held     \* ghost: <<account, password>> pairs stored since a process booted

tableVars == <<sender, transports>>
vars == <<sender, call, loaded, reset, held, transports>>

Existing == { s \in Senders : sender[s] # Absent }
OwnedBy(u) == { s \in Existing : sender[s].owner = u }
Active(S) == { s \in S : sender[s].active }
CredentialsOf(s) == [account |-> sender[s].account, pass |-> sender[s].pass]
Stored == { <<sender[s].account, sender[s].pass>> : s \in Existing }

Init ==
    /\ sender = [s \in Senders |-> Absent]
    /\ call = [c \in Calls |-> [at |-> "idle"]]
    /\ loaded = [at |-> "idle"]
    /\ reset = [at |-> "idle"]
    /\ held = [p \in Processes |-> {}]
    /\ SmtpInit

-------------------------------------------------------------------------------
(* Statements on the table *)

\* Mutant: the unique index is on the from-address alone.
MutTakenByAnybody(u, from, except) ==
    \E s \in Existing \ except : sender[s].from = from

\* @@unique([userId, fromEmail])
Taken(u, from, except) ==
    \E s \in OwnedBy(u) \ except : sender[s].from = from

Insert(u, row) ==
    \E s \in Senders \ Existing :
        sender' = [sender EXCEPT ![s] =
            [owner |-> u, from |-> row.from, account |-> row.account,
             pass |-> row.pass, active |-> row.active]]

Goto(c, record) == call' = [call EXCEPT ![c] = record]
Answer(c, ok) == Goto(c, [at |-> "answered", ok |-> ok])
Free(c) == call[c].at = "idle"

-------------------------------------------------------------------------------
(* The API's operations *)

\* listSenders, statement by statement.
ListOwn(c, u) ==
    /\ Free(c)
    /\ IF Active(OwnedBy(u)) # {} THEN Answer(c, TRUE)
                                  ELSE Goto(c, [at |-> "listAny", user |-> u])
    /\ UNCHANGED tableVars

ListAny(c) ==
    /\ call[c].at = "listAny"
    /\ IF Active(Existing) # {} THEN Answer(c, TRUE)
       ELSE Goto(c, [at |-> "provision", user |-> call[c].user])
    /\ UNCHANGED tableVars

\* The unique violation is not caught here: the listing fails.
Provision(c) ==
    LET u == call[c].user IN
    /\ call[c].at = "provision"
    /\ IF Taken(u, DefaultRow.from, {})
       THEN Answer(c, FALSE) /\ UNCHANGED sender
       ELSE Insert(u, DefaultRow) /\ Answer(c, TRUE)
    /\ UNCHANGED transports

\* createSender: a unique violation is answered with a conflict.
CreateSender(c, u, input) ==
    /\ Free(c)
    /\ IF Taken(u, input.from, {})
       THEN Answer(c, FALSE) /\ UNCHANGED sender
       ELSE Insert(u, input) /\ Answer(c, TRUE)
    /\ UNCHANGED transports

\* Mutant: the where clause forgets the user.
MutRequireExistingSender(u, s) == s \in Existing

RequireOwnedSender(u, s) == s \in OwnedBy(u)

\* updateSender, and deactivateSender with the patch isActive: false.
BeginUpdate(c, u, s, patch) ==
    /\ Free(c)
    /\ IF RequireOwnedSender(u, s)
       THEN Goto(c, [at |-> "update", user |-> u, id |-> s, patch |-> patch])
       ELSE Answer(c, FALSE)
    /\ UNCHANGED tableVars

UpdateSender(c) ==
    LET r == call[c]  patched == Patched(sender[r.id], r.patch) IN
    /\ r.at = "update"
    /\ IF Taken(patched.owner, patched.from, {r.id})
       THEN Answer(c, FALSE) /\ UNCHANGED sender
       ELSE /\ sender' = [sender EXCEPT ![r.id] = patched]
            /\ Answer(c, TRUE)
    /\ UNCHANGED transports

\* verifySender
BeginVerify(c, u, s) ==
    /\ Free(c)
    /\ IF s \in OwnedBy(u)
       THEN Goto(c, [at |-> "verify", user |-> u, creds |-> CredentialsOf(s)])
       ELSE Answer(c, FALSE)
    /\ UNCHANGED tableVars

VerifyTransport(c) ==
    LET r == call[c] IN
    /\ r.at = "verify"
    /\ Connect("api", r.creds)
    /\ Answer(c, LogsIn("api", r.creds))
    /\ UNCHANGED sender

Request(c) ==
    \E u \in Users :
        \/ ListOwn(c, u)
        \/ \E input \in Inputs : CreateSender(c, u, input)
        \/ \E s \in Senders : BeginVerify(c, u, s)
        \/ \E s \in Senders, patch \in Patches : BeginUpdate(c, u, s, patch)

Serve(c) ==
    ListAny(c) \/ Provision(c) \/ UpdateSender(c) \/ VerifyTransport(c)

-------------------------------------------------------------------------------
(* The worker: what gate 1 loads is what gate 4 sends with *)

LoadCredentials ==
    /\ loaded.at = "idle"
    /\ \E s \in Existing : loaded' = [at |-> "send", creds |-> CredentialsOf(s)]
    /\ UNCHANGED <<call, reset, tableVars>>

SendEmail ==
    /\ loaded.at = "send"
    /\ Connect("worker", loaded.creds)
    /\ loaded' = [at |-> "idle"]
    /\ UNCHANGED <<sender, call, reset>>

\* A process is closed or killed and starts again.
Restart(p) ==
    /\ CloseTransports(p)
    /\ IF p = "worker" THEN loaded' = [at |-> "idle"] /\ UNCHANGED call
       ELSE UNCHANGED loaded /\ call' = [c \in Calls |->
                IF Free(c) THEN call[c] ELSE [at |-> "lost"]]
    /\ UNCHANGED <<sender, reset>>

-------------------------------------------------------------------------------
(* The reset script: one run over the users in any order *)

ResetBegins ==
    /\ reset.at = "idle"
    /\ sender' = [s \in Senders |->
           IF s \in Existing /\ sender[s].from # DefaultRow.from
           THEN [sender[s] EXCEPT !.active = FALSE] ELSE sender[s]]
    /\ reset' = [at |-> "find", left |-> Users]
    /\ UNCHANGED <<call, loaded, transports>>

ResetFinds(u) ==
    /\ reset.at = "find"
    /\ u \in reset.left
    /\ reset' = [at |-> "write", left |-> reset.left \ {u}, user |-> u,
                 found |-> { s \in OwnedBy(u) : sender[s].from = DefaultRow.from }]
    /\ UNCHANGED <<sender, call, loaded, transports>>

\* A row created since the search makes the script fail and leave users undone.
ResetWrites ==
    LET u == reset.user  next == [at |-> "find", left |-> reset.left] IN
    /\ reset.at = "write"
    /\ \/ /\ reset.found # {}
          /\ sender' = [s \in Senders |-> IF s \in reset.found
                THEN [sender[s] EXCEPT !.account = DefaultRow.account,
                                       !.pass = DefaultRow.pass, !.active = TRUE]
                ELSE sender[s]]
          /\ reset' = next
       \/ /\ reset.found = {}
          /\ ~Taken(u, DefaultRow.from, {})
          /\ Insert(u, DefaultRow)
          /\ reset' = next
       \/ /\ reset.found = {}
          /\ Taken(u, DefaultRow.from, {})
          /\ reset' = [at |-> "failed"]
          /\ UNCHANGED sender
    /\ UNCHANGED <<call, loaded, transports>>

-------------------------------------------------------------------------------

\* The ghost held grows with what is stored, and starts anew with its process.
Next ==
    \/ /\ \/ \E c \in Calls :
                (Request(c) \/ Serve(c)) /\ UNCHANGED <<loaded, reset>>
          \/ LoadCredentials \/ SendEmail
          \/ ResetBegins \/ ResetWrites \/ \E u \in Users : ResetFinds(u)
       /\ held' = [p \in Processes |-> held[p] \cup Stored']
    \/ \E p \in Processes : Restart(p) /\ held' = [held EXCEPT ![p] = Stored]

Spec == Init /\ [][Next]_vars

-------------------------------------------------------------------------------
(* Properties *)

\* The step keeps the owner of row s, and is the script's or an update of s that
\* the owner asked for, of the columns its own patch names.
OwnersWrite(s) ==
    /\ sender'[s].owner = sender[s].owner
    /\ \/ reset' # reset
       \/ \E c \in Calls : /\ call'[c] # call[c]
                           /\ call[c].at = "update" /\ call[c].id = s
                           /\ call[c].user = sender[s].owner
                           /\ sender'[s] = Patched(sender[s], call[c].patch)

\* A sender is changed by a request of its owner or by the reset script only,
\* and never changes hands, although ownership is read before the write; a
\* request changes only the fields it names, so that two updates of one sender
\* that overlap both last.
OwnerControls == [][\A s \in Existing : sender'[s] # sender[s] => OwnersWrite(s)]_vars

\* Whether it succeeds or fails, a listing that provisions leaves its user with
\* a row of the default address: another user's never stands in the way.
ProvisionSettles ==
    [][\A c \in Calls :
         call[c].at = "provision" /\ call'[c].at = "answered" =>
             \E s \in Existing' :
                sender'[s].owner = call[c].user /\ sender'[s].from = DefaultRow.from]_vars

\* A cached transport logs in to its own account, with a password some sender
\* of that account had since the process started: a rotated password lives on
\* in no process that was restarted.
StaleOnlyUntilRestart ==
    \A p \in Processes, a \in Accounts :
        transports[p][a] # NoPassword => <<a, transports[p][a]>> \in held[p]

\* What mailer.ts says of its cache: credentials that were rotated get a fresh
\* transport, so a verification is about the password it read.
VerifiesStoredPassword ==
    [][\A c \in Calls :
         call[c].at = "verify" /\ call'[c].at = "answered" =>
             LET k == call[c].creds IN
             call'[c].ok <=> k.pass = Provider[k.account]]_vars
===============================================================================
