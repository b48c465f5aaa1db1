# Job email scheduler: a TLA+ development

The repository schedules bulk email. An Express API writes campaigns and their
`EmailJob` rows to MySQL and a delayed BullMQ job per row to Redis; worker
processes run those jobs, rate-limit each sender and talk SMTP; a Next.js
frontend composes campaigns and shows what became of them. MySQL is the source
of truth, Redis can be rebuilt from it at any worker's boot, and a row should be
sent at most once whatever happens in between. This directory holds
specifications of that system, their TLC configurations, and proofs checked by
TLAPS.

    tlc  -workers 2 -config concurrent.cfg MCMailScheduler.tla
    tlapm MailSchedulerProofs.tla

`PROJECT.json` lists every run, the mutants that show each property can fail,
the source lines behind each definition, the hazards, and the theorems.

## 1. Inventory

| component | state | operations | talks to | what makes it correct |
|---|---|---|---|---|
| Campaign service, writes (`campaignService.ts`) | `Campaign`, `EmailJob` rows | `createCampaign`, `cancelCampaign` | MySQL transaction, then BullMQ | all rows or none; one campaign per idempotency key; every committed row gets a job in the end |
| Planner (`planner.ts`) | none | `planSendTime`, round robin of senders | called by `createCampaign` | monotone, spaced, at most `hourlyLimit` in an hour, no later than needed |
| Work queue (`emailQueue.ts`, BullMQ) | job hash, lock, attempts, stalls | enqueue, remove, take, complete, retry, stall | API, workers, reconciler | one job per row (`email-{id}`), adding an existing job changes nothing |
| Email processor (`emailProcessor.ts`) | the local variables of each run | four gates, catch block, `maybeFinalizeCampaign` | MySQL, limiter, SMTP, BullMQ | one owner per row, at most one send, the last row settles its campaign |
| Per-sender rate limiter (`rateLimiter.ts`) | hour counter, gap marker | one Lua script | Redis keys with expiry | cap per hour, gap between sends, a denial is worth waiting for |
| Reconciler (`reconciler.ts`) | what it scanned | fail stale PROCESSING, re-enqueue missing SCHEDULED | MySQL, Redis | no row is lost or resent by a restart |
| Worker process (`worker.ts`) | its phase | boot, reconcile, close, die | all of the above | reconciles before it takes jobs, drains before it exits |
| Campaign service, reads | none | keyset pages, counts per status | MySQL | pages neither skip nor repeat rows, although rows move between them |
| Sender service (`senderService.ts`) | `Sender` rows | auto-provision, create, update, deactivate, verify | MySQL, SMTP | only its owner changes a sender, overlapping updates both last |
| SMTP transports (`mailer.ts`) | a cache per process | get, send, verify, close | SMTP | credentials in use are current ones |
| Auth and session (`authService.ts`, `AuthProvider.tsx`, `api.ts`) | cookie, stored token, the page's user | sign in, `/me`, sign out, reload | API | the user shown is the user served; signed out means out |
| Compose page (`campaigns/new/page.tsx`) | recipients, files being read, submission | type, remove, upload, submit | `createCampaign` | no edit is lost, one campaign per attempt |
| Dashboard, email page, badges | lists, spinners, requests under way | load, load more, open, poll | listings | an overtaken answer never shows the wrong thing where the page guards against it |
| HTTP layer, secrets, configuration | none | routing, validation, encryption | | stateless |

What is hard here:

* **Interleavings.** Several slots of several workers run jobs, the same row's
  job may run in two of them (a stalled job is re-run while its first run still
  lives), a reconciler may run beside live workers, and requests interleave
  with all of it. Every `await` is a point where another actor moves.
* **Stale reads.** `maybeFinalizeCampaign` counts and then writes;
  `cancelCampaign` checks and then writes; a sender is checked before the
  transaction; ownership is read in one statement and used in the next; a file
  reader keeps the list of an old render.
* **Crashes and partial failures.** A kill between any two calls, a write that
  fails, a write whose reply is lost, Redis unreachable or emptied.
* **Order.** Replies of overlapping requests arrive in any order; a page is read
  against other rows than the page before it.
* **Time.** Retries and deferrals, a claim older than the stale threshold, keys
  that expire while a clock reading is on its way.

The hazards, each at its line, are in `PROJECT.json` with the properties that
would catch them, or the reason why none does.

## 2. Modules

| module | models | state |
|---|---|---|
| `Deployment` | constants: rows, campaigns, workers, slots, retry policy, the set `Events` of requests and faults an instance allows | |
| `Ledger` | the MySQL columns of the send path | `status`, `claimedAt`, `campaign` |
| `EmailQueue` | BullMQ as `emailQueue.ts` and `emailWorker.ts` configure it (external) | `jobState`, `jobLock`, `attemptsMade`, `stalls` |
| `EmailProcessor` | `processEmailJob`, `maybeFinalizeCampaign` | `pc`, `job`, `prior`, `outcome`, `verdict` per slot; ghosts `accepted`, `refused` |
| `Reconciler` | `reconcile` and the life of `worker.ts` | `phase`, `scanned`, bound counter `crashes` |
| `CampaignService` | `createCampaign` from its transaction on, `cancelCampaign` | `toEnqueue`, `canceller`, `toCancel` |
| `MailScheduler` | their composition, time, queue maintenance, fairness, properties | all of the above |
| `RowLifecycle` | what the send path promises about a row (abstract) | `life`, `mailed` |
| `Planner` | `planSendTime` with the policy and round robin around it | `request`, `plan` |
| `RateLimiter` | the Lua script with key expiry in real time | `now`, the Redis keys, `dueAt`, ghosts |
| `SmtpTransports` | the transport cache of `mailer.ts` | `transports` per process |
| `SenderService` | `senderService.ts`, `resetSenders.ts`, and the worker as user of both | `sender`, `call`, `loaded`, `reset`, ghost `held` |
| `Lists` | sorting by rank, filtering, removing repeated elements: shared by the form, creation and the listings | |
| `CampaignCreation` | `createCampaign` up to its answer, for concurrent requests | `campaigns`, `active`, `stage`, `input`, `result`, `created` |
| `ComposePage` | the compose form | `page`, `selected`, `recipients`, `uploads` |
| `Submission` | the compose page and API clients over `CampaignCreation` | `posted`; ghosts `errors`, `seenActive` |
| `RowStatus` | the moves of a row that the reading side allows for | |
| `CampaignReads` | the rows as the listings see them, and the listings | `status`, `sentAt` |
| `Dashboard`, `EmailPage`, `AppShell`, `Session` | the list of emails, the page of one, the badges, who is signed in | the page's state and the requests under way |
| `Browser` | these four over `CampaignReads` | which of them is watched |
| `DataLemmas` | lemmas on quotients, ranks and lists | |
| `*Proofs` | theorems, see section 4 | |
| `MC*` | constants for TLC | |

### The send path

*One step per await.* A slot's `pc` names the call it is about to make; what it
read before (`prior`, `verdict`, `outcome`) is kept in its own variables and may
be stale. Reads whose result is used immediately are one step with the branch
they decide. A conditional `updateMany` is one atomic step
(`UpdateWhere`), an unconditional `update({where: {id}})` writes whatever the
row has become (`Record`, `Fail`, `Classify`). The try block of
`processEmailJob` spans the send, the write of SENT and the finalization after
it: `InTry` says so, and `Handler` sends an exception raised there to the catch
block, `isLastAttempt` deciding between `rollback` and `fail`.

*Data abstracted.* A row and its job share one identity. A job that waits and
one that is delayed are both `"queued"`: a delay only orders jobs in time. The
limiter is a nondeterministic choice in `EmailProcessor` and has a module of its
own. A timestamp is `"null"`, `"fresh"` or `"stale"` against the reconciler's
threshold. Message ids, error texts, previews and the `attempts` column (written,
never read by the send path) are left out. The keyset scan
of the reconciler is one chunk; the chunked `addBulk` of the API is any
partition of the rows.

*BullMQ.* Its rules are those of the pinned version: `add` of an existing key
does nothing, completed and failed jobs keep their hash until the retained tail
moves on, a job found active without a lock goes back to wait unless it stalled
more than `maxStalledCount` times, every move of a job by a slot that lost the
lock is refused, `moveToDelayed` by the processor throws in that case, a
deferral costs no attempt.

*Environment.* `Events` switches each kind of request, shutdown and fault on or
off, so that a run says exactly under which of them its properties hold:
`cancel`, `close` (SIGTERM), `crash` (hard kill, at most `MaxCrashes`), `stall`
(a live slot loses its lock), `slow` (a live slot outlasts the stale threshold),
`db` (any MySQL call but the write of SENT may fail, and any write's reply may
be lost), `unrecorded` (the write of SENT fails), `ack` (SMTP accepts, the reply
is lost), `redis`, `apiCrash`, `redisLoss`, `evict`.

*Abstraction.* `RowLifecycle` is the promise about each row, without slots,
queue or retries: planned once, to and fro between SCHEDULED and PROCESSING
until cancelled or mailed, mailed at most once, never claimable or cancellable
once mailed, SENT only if mailed. `MailScheduler` implements it with
`life <- status, mailed <- accepted` (`KeepsLifecycle`): one statement of the
database is one step of the abstract rows, everything else a stutter.

### Planner and limiter

`Planner` builds the rows of a plan one recipient at a time for any request; times
are offsets from `startAt`. `RateLimiter` is one sender in real time. A job reads
its worker's clock and the script runs up to `MaxLag` ticks later, so the script
is one step whose argument may be old, and steps may run in another order than
the clocks were read. The keys expire on Redis' own clock, with `EXPIRE` in whole
seconds as `secondsToEndOfHour` rounds it.

### Senders and transports

A request is a record in `call`: where it is and what it has read. Listing is up
to three statements (own active senders, anybody's, provisioning); an update
checks ownership in one and writes in another that names only the row's id and
the columns of the patch; a verification reads credentials and then connects. The
worker loads credentials at gate 1 and connects at gate 4. Each process has a
cache from account (host, port, user: the key of `transportKey`) to the password
its transport was made with. Rows are never deleted. The reset script runs once,
beside everything else.

### Creating campaigns

`createCampaign` is split at its commit. `CampaignCreation` is what concurrent
requests see of each other: the fast path by idempotency key, the check of the
senders, the transaction under two unique indexes, and the recovery from P2002.
`CampaignService` is what happens to the rows afterwards. A lost reply, a failed
transaction, a failed enqueue and a kill of the API end a request in the states
the code leaves behind. What the route hands on is `Bodies`: a signed-in user and
a body that passed `CreateCampaignInputSchema`. `ComposePage` keeps, for each
file being read, the list its closure saw; `Submission` lets the page and other
clients post side by side.

### Reading

`CampaignReads` has the listings as operators over rows that change under them
(by `MayMove` of `RowStatus`, and campaigns appear with all their rows, which is
what the send path does: `RowsMoveAsRead` in section 4; two sends may carry one
timestamp, and a later write an earlier one). Requests of a page are kept with their query and
cursor; each is sent, served against the rows of that moment, and settled or
lost, in any order. A cursor that names a row takes the place of the search in
the where clause of `listAllJobs` (both are spread in under the key `OR`), so a
further page of a search is one of the whole tab; `ListAllJobs` does the same. In
`Session` a request carries the credentials of the moment
it was sent; the cookie may be refused by the browser, the token is kept in local
storage. The four parts of the frontend share no state, so a behaviour of
`Browser` watches one of them. Rows are put in order by rank (`Sorted` of
`Lists`: each element at the number of those before it), since `SetToSortSeq` of
the community modules rests on an operator of TLC of which nothing can be
proved.

## 3. Runs

| run | instance | what it shows |
|---|---|---|
| `concurrent` | 2 rows, 2 slots, one attempt; cancel, close, stall | concurrent finishers leave the campaign settled (`SettledCampaign`), never COMPLETED with an undelivered row (`CompletedMeansDelivered`), never reopened by a stale flip (`FinishedNeverReopens`); final rows stay final despite two unconditional writes (`RowFinality`); a cancellation that commits late touches no row (`LateCancelTouchesNoRow`) |
| `faults` | 1 row, 2 workers, 2 attempts, 1 kill; every event but close and those that lose the result of a send (ack, unrecorded) | `TypeOK`, `OneOwner`, `AtMostOnce`, `AcceptedIsAccountedFor`, and the refinement `KeepsLifecycle` |
| `progress` | 2 rows, 1 slot, 2 attempts; cancel, close; fairness | attempts are counted right (`FailedAfterAllAttempts`, `ScheduledHasJob`), every row and campaign settles |
| `restarts` | 1 row, 2 slots, 1 kill; cancel, close, crash, apiCrash, ack, unrecorded; restarts recur | `EveryRowRecovered`, also when results of sends are lost (then `OneOwner` and `TypeOK` are proved and in no run) |
| `planner` | all requests over 8 delays, 5 limits, 1 to 3 senders; 12 recipients; an hour of 6 units | `EarliestPlan`, `OperatorLimits`, `SendersBalanced` |
| `limiter` | 2 jobs, 3 hours of 6 ticks, cap 2, gap 3, lag up to the buffer | `HourlyCap`, `DeferredAtMostTwice`, `SpacedSends` |
| `senders` | 2 users, 3 rows, 3 requests, 2 accounts, 2 passwords | a sender is its owner's and overlapping updates both last (`OwnerControls`), a provisioning that fails leaves a usable row (`ProvisionSettles`), a rotated password lives on until a restart at most (`StaleOnlyUntilRestart`) |
| `submission` | 2 requests, 2 users, 1 key, 2 campaigns, 3 edits; db, redis, apiCrash, senders toggled | `IdempotentReplies`, `NoConflict`, `EveryRecipientOnce`, `SendersWereActive`, `OneCampaignPerAttempt`, `UploadKeepsEdits` |
| `browser` | 5 rows of 3 campaigns with ties, pages of 2, 2 changes, 3 list requests | `ListingsAddUp`, `ListIsSorted`, `NothingIsSkipped`, `ShowsItsAddress`, `ShownUserIsServed`, `SignedOutMeansOut`, `SpinnersAreBacked`, `BadgesCatchUp` |
| `sent_not_recorded`; `stale_transport`; `search_dropped` | 1 row, 1 slot; as `senders`; as `browser` | each expects a violation, see Findings |

*Bounds.* One row is enough for what concerns a single row (duplicates, ownership,
recovery): rows meet only in their campaign. Two rows of one campaign in two slots
are what the finalization needs: one counts around the other's write. Two attempts
make the first and the last run of a job differ; the concurrent run has one, since
with retries and stalls together it exceeds what TLC explores in minutes, and
retries are covered by the others. Two workers let one reconcile while the other
sends; they are interchangeable with their slots (`DeploymentSymmetry`).
`MaxStalled = 1` is BullMQ's default. The planner's hour of 6 puts
`limit * delay` below, at and above an hour; twelve recipients span several
windows. The limiter's three hours hold the expiry of a key and its use in the
next hour; `MaxTime`, `MaxLag` and `MaxCrashes` are bounds of the model, not of
the code. `DeferredAtMostTwice` is the assumption behind the fairness of the
limiter in `progress`: nobody is denied for ever unless overtaken for ever.
Three sender requests are a provisioning against two updates; the third sender
row is the one a second user's provisioning needs. Two creations are a race on
one key, or a submission and its repetition. In the browser three requests are a
load, a further page and one that overtakes either; two changes let a row leave
and another join between two pages; two fetches or polls are one overtaking the
other; `MaxLogins` 2 and `MaxReloads` 1 put a sign-in, a sign-out and another
sign-in around a `/me`.

*Deadlock* is checked where something can always happen (`concurrent`,
`progress`, `restarts`, `senders`, `stale_transport`). The others may stop: all
rows settled, all requests answered, or a bound reached.

*Fairness* (`Fairness` in `MailScheduler`). Weak fairness of a slot's next step,
of a worker that boots or drains, and of a request already accepted: Node runs
what is ready. Weak fairness of lock expiry and of a claim growing old: time
passes. Strong fairness of BullMQ handing out a due job and of its stalled check,
which a closing worker interrupts and the next boot resumes (a worker starts the
check with itself). Strong fairness of the limiter allowing: its windows pass.
None for a request, a refusal by SMTP, a shutdown or a fault. `RestartSpec` adds
weak fairness of `WorkerCloses`, an assumption about operators that only
`restarts` uses: the reconciler runs at boots only. In `Browser`, used by
`BadgesCatchUp` alone: the interval keeps firing and replies come back (weak),
and not every poll fails (strong fairness of serving one).

### Findings

Each of these runs checks one statement of the repository and TLC finds a
behaviour against it.

* `sent_not_recorded`: the write of SENT is inside the try block. When it fails
  after SMTP accepted, the catch block puts the row back and the retry sends it a
  second time, against "at most one sent email" (`emailProcessor.ts:10`).
* `stale_transport`: the cache key has no password, so after a change of
  `smtpPass` alone the old transport is used again, against "rotating a sender's
  SMTP credentials transparently yields a fresh transport" (`mailer.ts:45`).
* `search_dropped`: "Load more" under a search adds rows that do not match it,
  since `{ ...baseWhere, ...cursorWhere }` keeps the cursor's `OR` alone
  (`campaignService.ts:547`), against "search across recipient/subject, keyset
  pagination" (`campaignService.ts:488`). The list stays in order and skips no
  match (`ListIsSorted`, `NothingIsSkipped`); it has others in between.

Further behaviour of the code that the models have and no property excludes:

* A send in flight when its campaign is cancelled may write COMPLETED or
  PARTIALLY_FAILED over CANCELLED (`emailProcessor.ts:232`). If it is deferred or
  retried, it returns to SCHEDULED and is sent later, as no gate reads the
  campaign's status (`emailProcessor.ts:133`, `:189`).
* A row the reconciler fails, or finds SENT after a kill, does not finalize its
  campaign (`reconciler.ts:55`). Two kills before a claim make BullMQ fail the
  job; its retained hash answers EXISTS, so later boots do not enqueue the
  SCHEDULED row (`reconciler.ts:105`).
* A request that repeats an idempotency key is answered with the campaign and
  does not enqueue it; if the first request died in between, the next boot of a
  worker does. The compose page sends no key: when an answer is lost it shows an
  error, and submitting again creates a second campaign.
* A listing provisions whenever no sender is active, deactivated ones
  notwithstanding. If the user's own default sender is among them, it collides
  with the old row and listings fail until a sender is activated. Of two first
  listings of one user that overlap, both may provision; the second fails, and
  the next listing answers.
* Replies that are overtaken: an older load of the list replaces a newer one, and
  a further page is appended to a list it was not asked for. Both properties of
  the list are claimed while neither happened (`InOrder`). A `/me` that was under
  way during a sign-in or sign-out sets its own user afterwards; the two
  properties of the session exclude that (`late`).
* A sign-out whose request fails forgets the stored token and leaves the cookie:
  the next reload signs the user in again.

## 4. Proofs

Every theorem is for all values of the constants under the modules' `ASSUME`s.
Those give the constants their types (a bound of the model is a natural number, a
marker for nothing is none of the things) and say in a comment what in the code
justifies the rest.

**Types and ownership** (`MailSchedulerProofs`).
`TypeCorrect` proves `TypeOK`. `TypeOK` alone is not inductive: `TypeInv` adds
that a lock is held on an active job only, that a job still to run has attempts
and stalls left (so counting one more stays in range), that a job without a hash
has no history, and that a slot about to classify has a verdict.
`OneOwnerPerRow` proves `OneOwner`, for every subset of events. `OwnerInv`
strengthens it with the link that makes it inductive: a row with an owner is
never SCHEDULED, so the where clause of a second claim does not match it, and
whoever puts a row back to SCHEDULED stops being its owner in that step.
`SentAtMostOnce` and `AcceptedAccounted` prove `AtMostOnce` and
`AcceptedIsAccountedFor` under the condition `SendResultsKept`, that is no `ack`
and no `unrecorded` event: without it they are false, as `sent_not_recorded`
shows. `SendInv` says in addition that SMTP has accepted nothing for the row of a
slot that is still before the send, or that is rolling back a row in PROCESSING,
and that a slot that finalizes has left no PROCESSING row behind.

**Refinement** (`MailSchedulerProofs`). `LifecycleImplemented`: under
`SendResultsKept` the send path implements `RowLifecycle`. `RecordInv`, that
SMTP accepted the message of a slot about to write SENT, is what maps `Record`
to `Report`; the other steps follow from `SendInv`.

**Final rows** (`CampaignProofs`). `RowsAreFinal` proves `RowFinality` under
`Gentle`, no `slow` and no `db` event. `FlightInv`: the row of a slot between its
claim and its result is in PROCESSING with a recent claim. Hence the two
unconditional writes find the row as its owner left it, and the sweep of a
booting worker passes it by. With a claim that outlives the threshold, or a lost
reply to a write, FAILED can become SENT or the reverse.

**Campaigns** (`CampaignProofs`). `CampaignInv` says that rows exist exactly
when their campaign does, that a slot that finalizes has settled its own row, and
that what it counted (all rows terminal, none failed) still holds: terminal rows
are final, so a count of none pending never goes out of date. From it, under
`Gentle`: `CompletedIsDelivered`, `FinishedStaysFinished` and
`LateCancelIsHarmless`. `CampaignsSettle` proves `SettledCampaign` for campaigns
that have rows (the input schema asks for one recipient at least) under `Quiet`:
moreover no kill of a worker and no failing Redis call, since a run that dies
between its row and its campaign leaves the campaign behind. `SettlingInv` names
who is responsible: a row in PROCESSING is in flight in some slot, and a campaign
in progress has a pending row or a slot that is counting.

**What the reading side relies on** (`CampaignProofs`). `RowsMoveAsRead`: between
any two states a row stays, moves by `MayMove`, or appears together with its whole
campaign. This is what `CampaignReads` takes the rows to do, so that the theorems
about the listings are about the rows of this system. It rests on `UnreportedInv`,
that the row of a slot in flight is in PROCESSING or was given up by the sweep, and
on `TogetherInv`, that the rows of a campaign exist together. It holds for all
events but `db`: when the reply to the write of SENT is lost, the catch block may
turn SENT into FAILED (or, with attempts left, finds no PROCESSING row to put
back), and such a move is not among those the reading side allows for.

**Attempts** (`CampaignProofs`). `GivenUpAfterAllAttempts` proves
`FailedAfterAllAttempts` under `Steady`: no kill, no failing call and no lost
result of a send, but any stalls, evictions and losses of the queue's data.
`AttemptInv`: a lock is held by the run that took it and was handed the counter
the job still has, and a job that can run has counted no more attempts than SMTP
refused sends. A job made anew after a loss starts from none and counts fewer.
`DueRowsHaveJobs` proves `ScheduledHasJob` under `Undisturbed` (cancellations,
evictions, shutdowns and restarts only). `ScheduleInv`: a run holds its job's
lock to its end, and returns only when its row has settled; so a job in the
completed or failed set belongs to a settled row, and only a job of a cancelled
or settled row is removed. With stalls this is false: a job found without a lock
once too often fails while its row is still due.

**Creation** (`SubmissionProofs`). For any number of requests, senders and edits,
and with all faults. `RepliesAreIdempotent`: by `IInv` the unique index makes the
campaign of a user and key unique, a result is a campaign of the request's own
user and key, created by one request, with the rows planned for it.
`RaceLosersAreAnswered`: a request in the catch block has lost to a campaign with
its key, which is never deleted; that the other index, on campaign and address,
cannot be what it violated is `RowsOfBody`, the rows of a body have one address
each. Both are proved of `CampaignCreation` with any accepted body as input.
`ClientsUseCreation` proves that `SubSpec` implements that specification: what
the page posts is an accepted body (`FormInv`, which with `IInv` gives `SubTypeOK`:
`SubmissionIsTyped`), and its other handlers leave the tables of the service
alone. So `RepliesToClients` carries the two results over.
`RecipientsOnce` (`EveryRecipientOnce`) follows from `RowsPlanned` and
`RowsOfBody`. `CampaignsUseActiveSenders` (`SendersWereActive`): by `Witnessed`,
whoever is past the check was handed senders that are in `seenActive`, which
only grows. `UploadsKeepEdits` proves the action
property `UploadKeepsEdits`. `OneCampaignEach` (`OneCampaignPerAttempt`) counts:
by `AttemptsInv` the requests of the page are at most its errors, plus one while
it submits or has left, and its campaigns are at most its requests that have
committed. `SubmissionAssumption` says that the page's user sends no other request
without a key, as those would be counted too.

**Planner** (`PlannerProofs`). `PlanInv`: row `i` is `PlannedRow(request, i-1)`.
`ClosedForm` rewrites the maximum of two terms as a whole number of windows plus
the spacing inside one; from it, `PlanIsEarliest` (the plan satisfies the
recurrence of the earliest feasible schedule) and `OperatorLimitsHold` (the
operator's spacing, and any hour, starting anywhere, has at most
`MAX_EMAILS_PER_HOUR` of the campaign's emails). `SendersAreBalanced`: by `Shared`
each sender has one row per full round of the senders, and one more if the round
under way has passed it.

**Limiter** (`RateLimiterProofs`). `HourlyCapHolds`: `CapInv` says that a counter
is the number of sends granted and that a used key expires no earlier than the
buffer after its hour; a reading of that hour is too old by then
(`LagWithinBuffer`), so an expired key is never counted as empty.
`SendsAreSpaced`: `GapInv` ties the marker and its expiry to the last send.
`LagWithinBuffer` is an assumption about the deployment: the code's five seconds
must cover the delay between a clock reading and the script, and any difference
between the workers' clocks. `WaitingIsEnough` proves `DeferredAtMostTwice`. By
`DeferInv`, as long as nothing is granted in between, the first denial sends a job
past the last grant and the gap after it (`PastTheGap`), and the second past every
hour with a grant in it (`PastTheHours`); so the third reading finds neither a
marker nor a full hour. It needs a cap of at least one, as the environment and
the input schema demand (`.positive()`): with a cap of zero every hour is full.

**Senders** (`SenderProofs`). `OldPasswordsGoWithTheProcess`
(`StaleOnlyUntilRestart`): a password in a transport got there from a row, through
a verification or a worker's load. `Known` follows it on its way: what is stored,
about to be verified or loaded for a send is in the process' `held`, which
collects what was stored since the process started, and a restart drops both
the transports of the process and what it had read. `OwnersControl`
(`OwnerControls`): a row that exists is written by updates and the reset alone
(`RowWriters`); an update writes the columns of its own patch into whatever the row
has become, and rows never change owner, so the owner whom the earlier statement
checked still has it. `ProvisioningSettles` (`ProvisionSettles`): a provisioning
inserts the row, or lost to one of the same user and address, as the unique index
is on both.

**Browser** (`BrowserProofs`). The inductive invariant has one part per module
and is `BrowserInv`; a step of one part leaves the others alone (`PartsRest`).
`ListInv` is about the list of emails: a request under way carries the query it
was made for; a page served for it is sorted, inside its tab, and reaches every row
that matches the search and has stayed in the tab since the request was sent (`LoadPage`,
`MorePage`), where reached means on the page or after its cursor; the same holds
of the list shown, unless it was overtaken (`ListHolds`). That a page is the head
of what lies behind its cursor, and the cursor its last row, comes from the rank
order of `Arranged`; that rows only move on (`RowsMoveOn`) and that a row which
stays keeps its place (`SteadyRows`) from `MayMove`. From it, `ListStaysSorted` and
`NothingSkipped`. `EmailInv`: one fetch at most is active and it is for the
address shown (`EmailMatchesAddress`). `SessionInv`: a `/me` under way carries what
is stored now unless it was overtaken, and an answered sign-out leaves nothing
stored (`OneUserEverywhere`, `SignOutLasts`). `NoSpinnerIsLeft`: each part names
the request that its spinner waits for. `BrowserIsTyped` is `TypeOK` of the whole.
`ListingsReadInFull` proves `ListingsAddUp`, and in every state: what follows a
cursor is the rest of the sorted list (`RanksOfTail`, `ListingReads`), so following
the cursors reads the list in pieces that join (`WalkReads`). `Walk` is a recursive
function of the number of pages, and the induction theorems cannot be
instantiated; instead the function that gives the rows up to each page satisfies
the same equation, and the least number at which the two would differ
(`LeastAndGreatest`) contradicts it.

**Data** (`DataLemmas`). Quotients and remainders; that a finite set under a
strict total order has one element of each rank, so that sorting lists every
element once and in order (`RanksFill`, `RanksSort`), and what comes after an
element is listed by the rest of the list (`RanksOfTail`); that `Distinct` keeps
each element once and `Without` drops what it should.

Only model-checked: liveness under fairness (`EveryRowSettles`,
`EveryCampaignSettles`, `EveryRowRecovered`, `BadgesCatchUp`), which is out of the
prover's reach. `RowsMoveAsRead` is proved and in no run.

## 5. What is not modelled

* HTTP routing, validation and error envelopes, encryption, JWTs and their
  expiry, logging, rendering and styling: no state, or out of reach.
* The `User` table. Two first development logins can both miss the user and one
  then fails on the unique index (`authService.ts:60`); the next attempt succeeds.
* `getCampaign` and the per-campaign tallies of `listCampaigns`: reads of one
  moment that nothing relates to another.
* A row that goes from SENT to FAILED after a lost reply of the database (section
  4, `RowsMoveAsRead`) is in the model of the send path and not in that of the
  listings.
* State local to a page and never exchanged: attachments, schedule presets, stars;
  and the hook `useAsync`, which no page uses.
* The other one-shot operator scripts, BullMQ's global throughput limiter (it
  postpones a take) and the internals of BullMQ, Prisma, Redis and nodemailer.

Possible extension: the send path with failing Redis under recurring restarts.
