------------------------------ MODULE Submission ------------------------------
(***************************************************************************)
(* Campaign creation as its clients meet it: the compose page, which sends *)
(* no idempotency key, next to API clients that do and that retry; answers *)
(* are lost, the API is killed and senders are deactivated in between.     *)
(***************************************************************************)
EXTENDS CampaignCreation, ComposePage

CONSTANTS
    Inputs,     \* what API clients send
    PageUser,   \* the user of the page
    NoRequest   \* the page awaits no answer

\* The page's user sends no other request without a key.
ASSUME SubmissionAssumption ==
    /\ Inputs \subseteq Bodies
    /\ \A in \in Inputs : in.user = PageUser => in.key # NoKey
    /\ PageUser \in Users
    /\ NoRequest \notin Requests
    /\ Typed \cup Files \subseteq Seq(Addresses)
    /\ MaxEdits \in Nat

VARIABLES
    posted,     \* the request of the page's current submission
    errors,     \* ghost: the submissions that ended in an error on the page
    seenActive  \* ghost: senders active at some time since a request came in

subVars == <<vars, pageVars, posted, errors, seenActive>>

SubInit ==
    /\ Init /\ PageInit
    /\ posted = NoRequest
    /\ errors = 0
    /\ seenActive = [q \in Requests |-> {}]

PageEdits ==
    /\ \/ LoadSenders(active)
       \/ \E parts \in Typed : AddRecipients(parts)
       \/ \E a \in Addresses : RemoveRecipient(a)
       \/ \E file \in Files : ChooseFile(file)
       \/ \E up \in uploads : FileLoaded(up)
       \/ SubmitRefused
    /\ UNCHANGED <<vars, posted, errors>>

\* api.createCampaign(input), without a key.
PagePosts(q) ==
    /\ Submit
    /\ Receive(q, [user |-> PageUser, key |-> NoKey,
                   senders |-> <<selected>>, recipients |-> recipients])
    /\ posted' = q
    /\ UNCHANGED errors

\* The page gets the answer, or learns that the connection broke, which may be
\* before or after the API is done with the request.
PageSucceeds ==
    /\ posted # NoRequest /\ stage[posted] = "answered"
    /\ Succeed
    /\ posted' = NoRequest
    /\ UNCHANGED <<vars, errors>>

PageFails ==
    /\ posted # NoRequest
    /\ SubmitFails
    /\ posted' = NoRequest
    /\ errors' = errors + 1
    /\ UNCHANGED vars

ClientPosts(q) ==
    /\ \E in \in Inputs : Receive(q, in)
    /\ UNCHANGED <<pageVars, posted, errors>>

ApiServes(q) ==
    /\ Serve(q)
    /\ UNCHANGED <<pageVars, posted, errors>>

Surroundings ==
    /\ \/ ApiCrash
       \/ \E q \in Requests : TransactionFails(q)
       \/ \E s \in Senders : ToggleSender(s)
    /\ UNCHANGED <<pageVars, posted, errors>>

SubNext ==
    /\ \/ PageEdits \/ PageSucceeds \/ PageFails
       \/ \E q \in Requests : PagePosts(q) \/ ClientPosts(q) \/ ApiServes(q)
       \/ Surroundings
    /\ seenActive' = [q \in Requests |->
           seenActive[q] \cup IF stage'[q] = "idle" THEN {} ELSE active']

SubSpec == SubInit /\ [][SubNext]_subVars

-------------------------------------------------------------------------------
(* Properties *)

\* Types; an answer is about a campaign in the database.
SubTypeOK ==
    /\ active \subseteq Senders
    /\ stage \in [Requests -> Stages]
    /\ result \in [Requests -> Campaigns \cup {NoCampaign}]
    /\ created \in [Requests -> BOOLEAN]
    /\ \A q \in Requests : stage[q] = "answered" =>
          result[q] \in Campaigns /\ Exists(result[q])
    /\ PageTypeOK

\* Each recipient a request names gets one row, however often and in whatever
\* case it is named, and nobody else gets one.
EveryRecipientOnce ==
    \A q \in Requests :
        created[q] =>
            LET rows == campaigns[result[q]].rows
                named == { Lower[a] : a \in ToSet(input[q].recipients) }
            IN /\ { rows[i].to : i \in DOMAIN rows } = named
               /\ Len(rows) = Cardinality(named)

\* A sender may be deactivated between its check and the commit, but a campaign
\* never uses one that was inactive all the time its request was served.
SendersWereActive ==
    \A q \in Requests :
        created[q] =>
            LET rows == campaigns[result[q]].rows
            IN \A i \in DOMAIN rows : rows[i].sender \in seenActive[q]

\* The page creates one campaign, and one more for every error it has shown:
\* edits, uploads and clicks while it submits create none.
OneCampaignPerAttempt ==
    LET mine == { c \in Campaigns :
                    campaigns[c].owner = PageUser /\ campaigns[c].key = NoKey }
    IN Cardinality(mine) <= errors + 1

\* A file that is read late takes back no edit made meanwhile: what is listed
\* stays, in order, and nothing comes back but what the file itself names.
UploadKeepsEdits ==
    [][uploads \ uploads' # {} =>
         /\ IsPrefix(recipients, recipients')
         /\ \E up \in uploads \ uploads' :
               ToSet(recipients') \subseteq ToSet(recipients) \cup ToSet(up.file)
      ]_subVars
===============================================================================
