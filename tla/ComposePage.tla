------------------------------ MODULE ComposePage ------------------------------
(***************************************************************************)
(* campaigns/new/page.tsx, the compose form of one user: the recipient     *)
(* list, which can be typed, removed from and filled from files that are   *)
(* read asynchronously, the senders loaded once when the page opens, and   *)
(* the submission.  A handler sees the state of the render that made it.   *)
(***************************************************************************)
EXTENDS Lists, FiniteSets

CONSTANTS
    Typed,      \* what may be typed at once: sequences of valid addresses
    Files,      \* the valid addresses of a file, in order
    MaxEdits,   \* bound: edits by hand, choices of a file included
    NoSender    \* no sender is selected

VARIABLES
    page,        \* "loading" its senders, "editing", "submitting" or "left"
    selected,    \* selectedSenderId
    recipients,
    uploads,     \* files being read, each with the list of its closure
    edits,       \* edits so far
    formError    \* an error is shown

pageVars == <<page, selected, recipients, uploads, edits, formError>>

PageTypeOK ==
    /\ page \in { "loading", "editing", "submitting", "left" }
    /\ edits \in 0 .. MaxEdits
    /\ ToSet(recipients) \subseteq UNION { ToSet(l) : l \in Typed \cup Files }
    /\ formError \in BOOLEAN

PageInit ==
    /\ page = "loading"
    /\ selected = NoSender
    /\ recipients = <<>>
    /\ uploads = {}
    /\ edits = 0
    /\ formError = FALSE

\* The senders arrive, active ones only, or the request fails silently.  The
\* user may later select any of them; choices are made here, once.
LoadSenders(offered) ==
    /\ page = "loading"
    /\ selected' \in offered \cup {NoSender}
    /\ page' = "editing"
    /\ UNCHANGED <<recipients, uploads, edits, formError>>

\* The form can be edited, and files go on being read, while it is submitted.
Mounted == page # "left"
Edit == Mounted /\ edits < MaxEdits /\ edits' = edits + 1

\* handleAddRecipient: known addresses are skipped, repeated ones are not.
AddRecipients(parts) ==
    /\ Edit
    /\ recipients' = recipients \o Without(parts, ToSet(recipients))
    /\ UNCHANGED <<page, selected, uploads, formError>>

RemoveRecipient(a) ==
    /\ Edit
    /\ a \in ToSet(recipients)
    /\ recipients' = Without(recipients, {a})
    /\ UNCHANGED <<page, selected, uploads, formError>>

\* handleCsvUpload: the onload closure keeps the list of this render.  A file
\* that is chosen twice is read twice; edit tells the readings apart.
ChooseFile(file) ==
    /\ Edit
    /\ uploads' = uploads \cup { [file |-> file, list |-> recipients, edit |-> edits] }
    /\ UNCHANGED <<page, selected, recipients, formError>>

NewItems(up) == Without(Distinct(up.file), ToSet(up.list))

\* Mutant: the list of the closure is extended and put in place of the list.
MutFileLoaded(up) ==
    /\ Mounted
    /\ uploads' = uploads \ {up}
    /\ recipients' = up.list \o NewItems(up)
    /\ UNCHANGED <<page, selected, edits, formError>>

\* reader.onload: duplicates are sought in the closure's list, but what is new
\* is appended to the list as it is.
FileLoaded(up) ==
    /\ Mounted
    /\ uploads' = uploads \ {up}
    /\ recipients' = recipients \o NewItems(up)
    /\ UNCHANGED <<page, selected, edits, formError>>

\* Mutant: the button stays enabled while a submission is on its way.
MutMaySubmit == page \in { "editing", "submitting" }

\* The button is disabled while submitting.
MaySubmit == page = "editing"

\* handleSubmit without recipients, sender or subject (which is not modelled)
\* shows an error; else it posts.
SubmitRefused ==
    /\ MaySubmit
    /\ formError' = TRUE
    /\ UNCHANGED <<page, selected, recipients, uploads, edits>>

Submit ==
    /\ MaySubmit
    /\ recipients # <<>> /\ selected # NoSender
    /\ page' = "submitting"
    /\ formError' = FALSE
    /\ UNCHANGED <<selected, recipients, uploads, edits>>

\* The campaign is answered: the page navigates to the dashboard.
Succeed ==
    /\ page = "submitting"
    /\ page' = "left"
    /\ UNCHANGED <<selected, recipients, uploads, edits, formError>>

\* An error is answered, or no answer came: the form can be submitted again.
SubmitFails ==
    /\ page = "submitting"
    /\ page' = "editing"
    /\ formError' = TRUE
    /\ UNCHANGED <<selected, recipients, uploads, edits>>
===============================================================================
