# Verification of lead-score

TLA+ models of the lead-score backend (NestJS, PostgreSQL through TypeORM, Azure
Service Bus), model-checked with TLC, and theorems about them proved with TLAPS.
Paths below are those of the repository; the source is `src/`.

## 1. The system

A landing page registers a lead (`POST /lead-registration/start`), later sends the
answers of a form (`POST /lead-score/start`); the back office lists and exports the
captures, manages forms and pages, pulls sales from Hotmart and spending from Meta and
Google Ads, runs votings and watches dashboards. Everything slow goes through a queue.
Several replicas of the API and of the workers may run; the only things they share
are the database, the queues and the file storage.

| component | state it keeps | operations | talks to |
|---|---|---|---|
| capture export (`capture/`) | `capture_export_job` rows, files | create, claim under a lease, heartbeat, phases, upload, complete, fail, recover every minute | queue, storage |
| lead registration (`lead-registration/`) | `capture` rows with their metadata, persons, identifiers | enqueue; contact and persistence in parallel; attach the answer | queue, ActiveCampaign, captures |
| lead score (`lead-score/`) | `lead_score` rows, the form version of a capture | enqueue; resolve the capture; score; publish again | queue, captures, forms, ActiveCampaign |
| service bus (`service-bus/`) | none of its own | publish, subscribe (peek-lock), complete, close | all consumers |
| capture listing and sync | none (reads) | lists, filters, keyset feed for external systems | captures |
| form management (`form/`) | forms, versions, questions, scores, points, ranges, tiers | create, activate, edit, reorder, replace points, clone | lead score reads them |
| hotmart (`hotmart/`) | raw events, sales, sync schedules | webhook, pull, process a batch, reprocess | Hotmart |
| meta ads (`meta-ads/`) | executions, ads and figures, schedules | synchronise, start report jobs, poll, abort, import | Graph API |
| marketing sync (`marketing-sync/`) | extraction jobs, consolidated rows | schedule, enqueue, extract, replace rows, import | queue, Meta, Google |
| auth (`auth/`) | refresh sessions, reset tokens, rate-limit buckets | log in, refresh, reset, bootstrap | users |
| oauth connections (`oauth/`) | provider tokens, accounts listed | connect, renew, select, disconnect | Meta, Google |
| users and roles | users, roles, grants | create, update, assign, remove | auth |
| voting (`voting/`) | campaigns, candidates, voters, votes | administer, vote, tally | - |
| pages (`page/`) | pages of a launch, headlines, versions | create, update, number abbreviations | launches, seasons, forms |
| seasons, launches, temperatures | reference data | create, update, remove | pages |
| copilot (`copilot/`) | risk alerts, conversations | scan, raise, resolve, answer | language model |
| dashboards | targets of a launch | put an answer together from several reads | captures, sales, spending |
| inlead webhook | its log | contact and tag of a webhook | ActiveCampaign |
| audit, common, database | log rows; none; declarations | append; guards and pure functions; entities and migrations | |

What is hard in it, and what makes each part correct:

- **Capture export.** A handler can outlive its message lock; a dead one leaves a job
  half done; recovery works from rows it read earlier. Correct when a job ends exactly
  once, with the file of the attempt that holds it, when a live attempt is never robbed,
  and when every requested job ends.
- **Lead registration.** Two branches run at once and fail separately; a retry has to
  recognise what it already did; two submissions of one lead are merged by a dedupe
  window; the attachment rewrites a row read before. Correct when a completed message did
  both halves, captures of different leads never mix, no lead gets a second capture
  within its window, a requestId leads to its capture, a lead is one person, and its
  contact keeps its e-mail.
- **Lead score.** The score may overtake its registration and is published again with a
  count; publication and completion are two steps; the card it goes by is read in several
  statements. Correct when an accepted score is never dropped, is scored once, by one card,
  on the capture of its own lead, and always ends.
- **Form management.** At most one version of a form, one score of a version and one batch
  of points of a score are in force, and a question is where the administrator put it;
  nothing but the code sees to it.
- **Hotmart.** Webhooks and history pages write the same raw rows, each row is processed
  by a message or a call nobody awaits, and a row may change meanwhile. Correct when the
  raw row shows the newest event, the sale what the row says, a buyer is one person, and
  no event is left behind.
- **Meta ads, marketing sync.** Whoever read an execution saves all of it later; every
  replica has a poller; rows of a day are deleted and inserted one by one. Correct when
  counts account for every report job, what ended stays so, a day comes from one fetch,
  and no execution or job is left running.
- **Schedules, copilot.** Every process has a timer and waits for nobody. Correct when a
  schedule runs once a day and a signal is explained once.
- **Auth, users, OAuth.** A row is read, a hash or a provider takes its time, and the whole
  row is saved. Correct when a row says what was asked for, sessions go back to the
  password in force, and a connection that was closed stays closed.
- **Voting, pages.** Checks and saves in statements of their own. Correct when a vote stays
  with the voter who gave it and a page's version, season and launch go together.
- **Reports, feed, dashboards.** Several reads make one answer while captures come in.
  Correct when nothing there all along is left out and the numbers agree with each other.

`PROJECT.json` lists under "hazards" what can go wrong in these at the line where it
would, with the properties that catch it.

## 2. The modules

| module | what it is |
|---|---|
| `ExportLifecycle` | what the export promises to the client that polls a job: the abstract specification |
| `ExportJob` | the lease protocol of the export: API, worker, storage, recovery, clock |
| `ExportJob_proofs` | the theorems about `ExportJob` |
| `LeadRegistration` | registration: queue, both branches, dedupe, attachment, retries |
| `LeadScoring` | scoring: queue, resolution, idempotency, publication again |
| `LeadPipeline` | registration and scoring on the same table of captures |
| `HotmartSales` | raw events of Hotmart, their processing into sales and persons |
| `LeadPipeline_proofs` | the theorems about registration and scoring, alone and composed |
| `HotmartSales_proofs` | the theorems about `HotmartSales` |
| `FormManagement` | forms, versions, scores and their batches, and the consumer that scores by them |
| `MetaBulkJobs` | executions of Meta: direct ones, bulk ones with report jobs, pollers, aborts |
| `MarketingExtract` | extraction jobs, their queue and workers, the rows of a day, the import |
| `Marketing` | one of the two, chosen in the beginning |
| `Marketing_proofs` | the theorems about `Marketing`, part by part |
| `FormManagement_proofs` | the theorems about the forms in `Audience` |
| `Voting` | campaigns, categories, candidates, voters, votes |
| `Pages` | pages, headlines and versions; seasons and launches as far as pages go by them |
| `VersionQuestions` | questions, options, and their places in a version of a form |
| `SyncSchedules` | the daily schedules of Hotmart and Meta |
| `SyncFeed` | the keyset feed of captures and its cursor |
| `CaptureReports` | the file of an export, pages of a list, the answers of a batch |
| `Dashboards` | the answers of the dashboards, and the targets of a launch |
| `IdentityMatch` | persons and their identifiers |
| `ContactBook` | contacts in ActiveCampaign |
| `UserAccounts` | users, roles, sessions, resets, bootstrap |
| `RoleGrants` | roles and the permissions they grant |
| `AuthLimits` | the limits on logins, renewals and forgotten passwords |
| `OAuthConnections` | connections to Google and Meta, and the accounts they list |
| `MetaFigures` | ads and figures as synchronisations with Meta fill them |
| `CopilotAlerts` | scans, alerts, explanations |
| `CopilotChat` | conversations with the copilot, and its configuration |
| `Audience` | one of six, chosen in the beginning: what is about those the application addresses (`FormManagement`, `VersionQuestions`, `Voting`, `Pages`, `SyncFeed`, `CaptureReports`) |
| `BackOffice` | likewise, one of eleven behind it (`SyncSchedules`, `UserAccounts`, `RoleGrants`, `AuthLimits`, `OAuthConnections`, `MetaFigures`, `Dashboards`, `IdentityMatch`, `ContactBook`, `CopilotAlerts`, `CopilotChat`) |
| `Audience_proofs` | the theorems about votes, pages, questions, the feed and reports in `Audience` |
| `BackOffice_proofs` | the theorems about persons, contacts, schedules, alerts, limits, the copilot, figures and targets in `BackOffice` |
| `BackOfficeAccounts_proofs` | the theorem about users, roles and connections in `BackOffice` |
| `MC*` | their instances for TLC |

Faulty variants, named so in their comment, stand before the definition they distort;
they are used only to see that a property notices the fault.

Conventions. The parts of `Marketing`, `Audience` and `BackOffice` are independent: none changes a
row that another goes by, so that interleaving them would multiply states and say nothing.
A behaviour is therefore one of a part chosen by `Init`, and one run checks them. Where
parts do interact, they are composed (`LeadPipeline`, and the scorer in `FormManagement`).
The handler of a request in a controller is the disjunct of `Next` (or of `Request`) that
says which requests there are.

A row that TypeORM `save()`s after it was read is reloaded, and the columns in which the
entity differs from the reload are updated. So what ends up in the row is the entity as the
request holds it, every column it loaded over what others saved in between, and a row
that is gone is inserted again. The modules call this one step where nothing can come
between reload and update that would matter (`MetaBulkJobs`, `SyncSchedules`,
`UserAccounts`, `OAuthConnections`, `Dashboards`, `VersionQuestions`), and two, `Load` and
`Save`, where two requests can each write a part of one row (`Voting`, `Pages`, `RoleGrants`,
`CopilotChat`): between
the two reloads a row ends with columns of both.

Several properties name an exception by the past that leads to it, kept in a variable that
no action reads: rows two requests had in hand at a time, a step that was cut off, an event
that came out of order. None of them excuses more than its own rows. Each exception is
real: without it TLC finds a behaviour of the code that breaks the property.

### 2.1 ExportJob

`status`, `phase`, `lease`, `attempts`, `age`, `file` are the columns of
`capture_export_job`; `queue` counts the messages per job; `blobs` is the storage. Each
handler slot (a process, or one of the concurrent calls of its subscription) has a
program counter `pc`, the `job` and `token` of its attempt, `lost` (the `leaseLost` flag
of the closure) and `held` (it still has the message lock). `todo` is what a recovery
pass read.

| action | code (`src/capture/`) |
|---|---|
| `CreateAndPublish`, `CreateAndProcess` | `createExportJob`, with and without Service Bus |
| `Deliver`, `Ack`, `LockLapses` | the subscription and `completeMessage` |
| `Claim`, `ClaimThrows` | the claiming UPDATE of `processExportJob` |
| `Advance`, `Progress`, `StoreLocally`, `Upload`, `Complete` | the attempt, one step per `updateOwned` or storage call |
| `Heartbeat`, `HeartbeatThrows` | the 15 s timer |
| `WorkThrows`, `MarkFailed` | any exception, and the catch block |
| `Crash` | the process dies, or the handler rejects |
| `RecoverStart`, `RecoverRequeue`, `RecoverGiveUp`, `RecoverThrows` | `recoverExportJobs`, one row at a time |
| `Tick` | time |

Abstractions. A lease token is a fresh UUID per claim; the number of the claimed attempt
stands for it, which is as fresh (`TokensDiffer` below proves that two attempts never
share one). The clock is an age per job since
`COALESCE(heartbeat_at, started_at, created_at)` that saturates at `StaleAfter`: nothing
in the code distinguishes larger ages. The deployment decides whether a file goes to a
blob client; the model leaves it open at every attempt. The statements of an attempt are
atomic (each is one UPDATE), but an answer may be lost after the UPDATE took effect
(`Answered`). What is in the file, the download link and the counters of rows are left out.

### 2.2 LeadRegistration

`captures` is the table in order of `created_at`; of the metadata of a row the model keeps
what code branches on: `requestId`, `leadRegistrationRequestIds`, the dedupe key
(`lead`), and whether an answer was attached. `recent` says that a row is still within
the dedupe window, `inserter` which request inserted it (only properties read it).
A handler has two branches, `ac` and `db`, that interleave as `Promise.allSettled` lets
them; `snapshot` is the entity it read. READ COMMITTED is modelled by splitting a
transaction into its reads (`PersistRead`) and its commit (`PersistInsert`,
`PersistMerge`): others commit in between. `save()` writes the columns of the entity that
differ from the row, so the metadata is replaced by what the snapshot gave.
`attachActiveCampaign` reads and saves outside any transaction (`AttachRead`,
`AttachSave`). `ActiveCampaign` is external: a set of leads, whose calls may fail before
or after they took effect. A registration accepted where Service Bus is disabled is not
sent; the model has it as one that was not made, as no property promises it anything.

Persons and identifiers, written in the transaction that inserts, are in `IdentityMatch`,
and contacts in `ContactBook`. Left out: reference data that a payload names (they may fail
to resolve: `PersistThrows`), leads with neither e-mail nor phone, which have no dedupe key
and are never merged, and the requests that name a `capture_id` themselves.

### 2.3 LeadScoring and LeadPipeline

`LeadScoring` takes the table of captures as a variable it shares. A message is a score
with the count of its publications; `waiting` is a bag of them, `dead` the dead-letter
queue. A handler reads (`Read`: idempotency check and `resolveCapture`), commits a result
together with the form version of the capture (`Commit`, which rewrites the capture from
the row that was read), or publishes the message again with a count (`Requeue`) and only
then completes it (`Ack`). A score of `Offline` was answered by a process whose Service Bus is disabled:
the client is told that it was accepted, and `publish` returns without sending it. No
property promises it a result. The broker may take a message back at any time while the lock is
lost. A result is that a score was stored; points, ranges and tiers are in `FormManagement`.

`LeadPipeline` composes the two: a step is a step of one of them, on the same `captures`.

### 2.4 HotmartSales

`raw` and `import` are the payload and `import_status` of `hotmart_sale_raw`, `sale` is
`hotmart_sale`, `persons` the number of persons that the e-mail of a buyer leads to. A
purchase goes through versions, and a payload is the version it tells of. A receiver is a
webhook request or a page of a sync run (`page`: what is to be recorded, `seen`: the rows
that were found); a processor is a call of `processRaw` (`work`, the payload it `read`,
whether it `held` a message).

| action | code (`src/hotmart/`) |
|---|---|
| `ReceiveWebhook`, `FetchPage` | `receiveWebhook`, one page of `syncHistory` |
| `Look`, `InsertNew`, `UpdateRow`, `ReceiveThrows` | `upsertPage`; `saveRawItem` is the same for one item |
| `Trigger` (part of the two writes) | `triggerProcessing`: published, called, or lost, as it is where the queue is enabled and Service Bus is not |
| `Batch` | `processBatch` |
| `Deliver`, `Call` | the consumer of the queue, the call without it |
| `ReadRaw`, `MarkProcessing`, `FindPerson`, `CreatePerson`, `UpsertSale`, `Finish` | `processRaw`, one step per statement |
| `ProcessThrows`, `MarkError`, `Crash`, `LockLapses` | its catch block; a process that dies; the broker |

The code replaces a payload when the purchase status differs, without comparing dates, and
marks a row processed without looking at it again. The properties say what follows from
that, and name the exceptions by the past that leads to them (`reordered`: events of one
transaction out of order or received at once; `overtaken`: the row changed, or another
processor had it, while one worked on it; `crowded`: two purchases of a buyer processed at
once; `dropped`: a publication, a call or the last delivery lost). Outside these the
guarantees hold, and the exceptions are real: each of the four invariants fails without its
exception. Left out: products, items without a transaction code or an e-mail, one
transaction twice on one page, and the order and limit of a batch. Schedules are in
`SyncSchedules`.

### 2.5 FormManagement

Of the children of an owner at most one is active: the versions of a form, the scores of a
version, and the batches of points, ranges and tier rules of a score. `row` holds versions
and scores, which differ in what owns them; `batches` the batches of each part, whose rows
are in `Options`, `Ranges` and `Tiers`. A transaction is two steps under READ COMMITTED:
the statement that deactivates siblings, or deletes the old batch, sees the rows committed
by then (`seen`), and the last one commits. `crowded` names owners two transactions wrote to
at the same time.

| action | code (`src/form/form-management.service.ts`, `src/lead-score/services/`) |
|---|---|
| `CreateForm`, `CreateFull`, `RemoveForm` | of that name, with versions, scores and batches |
| `CreateVersion`, `CreateScore`, `CreateCommit` | creation, which deactivates siblings first |
| `UpdateVersion`, `UpdateScore`, `ActivateVersion`, `ActivateScore`, `EditBegin`, `EditCommit` | the row is read, siblings are deactivated, the row is saved as it was read |
| `RemoveVersion`, `RemoveScore` | with the cascade |
| `LinkQuestion`, `UnlinkQuestion` | as far as they decide whether a version can be scored |
| `ReplaceOptionPoints`, `ReplaceRangePoints`, `ReplaceTierRules`, `ReplaceCommit` | the old batch deleted, the new one inserted |
| `CloneBegin`, `CloneCommit` | a version with its scores and points copied into a form |
| `ScoreBegin` .. `ScoreSave` | the consumer: version, score, points by option, by range, tier, one statement each |

A range holds its minimum and not its maximum, either of which may be missing; of those that
hold a value the first in the order of the code counts (`Holds`, `ComesFirst`).
`ScoreByOneCard` compares the total of the five statements with what one card, taken as a
whole, gives (`Given`), where its ranges, and its tiers, do not overlap: nothing in the code
sees to that, and of two that hold a value the statements take the one that begins higher. Row locks of an UPDATE, and the roll-back of one of two transactions
that wait for each other, are not modelled: they remove behaviours, they add none.

### 2.6 VersionQuestions

`row` holds the questions, their options, and the links that put a question into a version;
`mark` is a column that is edited, `place` is `display_order`. `SaveRows` is the end of
every edit and of a reorder, which saves all links it was given; a row that was removed
meanwhile is inserted again, unless what it belongs to is gone too: then the foreign
key fails the request (`Orphans`). `AddFormVersionQuestion`, `FindPlace` and
`InsertLink` are the three statements of an addition, with the mark (`required`) it asks for. One version of one form is kept,
beside questions of another form, which it cannot take.

### 2.7 MetaBulkJobs and MarketingExtract

`exec` are rows of `meta_sync_execution`, `remote` the report jobs at Meta, `stored` those whose
figures are in the table, `poll` the pass of each replica's poller over an execution and
`abortRequests` the set each process keeps in memory. `EnqueueBulk`, `BeginPhase1`,
`EndPhase1` (Meta refuses the jobs in `lost`) run in the process that got the request;
`PollRead`, `PollStored`, `PollFailed`, `PollWait`, `PollSave` are `processPendingJobs`, of
which only a set local to the process prevents a second pass; `AbortRead` and `AbortSave` the
abort. `Crash` ends whatever a replica does; the catch block of a pass, which leaves the row
alone, has the same effect on that pass.

`MarketingExtract` has the `jobs` of one account, the `queue` with deliveries left, the
rows of a day in two tables (`campaigns`, `ads`: the number of the fetch they came from) and
the `raw` rows. A worker deletes the rows of its days, then inserts one after the other
(`DeleteCampaignRows`, `DeleteAdRows`, `StoreRaw`, `InsertCampaign`, `InsertAd`), each a
statement of its own that can be the last; the import rewrites the same rows. A unique index
refuses an insert beside another's (`Refused`). `Look`, `SaveJob`, `PublishJob` and
`PublishFails` make a job: a daily, a manual or an hourly one, which differ in which of the
jobs of that day they start again. Where Service Bus is disabled, and when a user asks for it
to be processed, the caller works on the job itself, with no message (`ProcessMade`,
`ProcessAsked`); whether it is enabled is left open at each request. `processMetaJob` has the
steps of `processGoogleJob`.

### 2.8 Voting and Pages

`Voting`: a vote looks the campaign and the candidate up, finds the voter by e-mail or phone,
updates or creates it, and inserts the vote, each a statement (`RegisterVote`, `FindVoter`,
`CreateVoter`, `LoadVoter`, `SaveVoter`, `SaveVote`); unique indexes hold e-mails, phones and
votes. Administrators put campaigns, categories and candidates.

`Pages`: a page and its headlines and versions are numbered one after the highest there is,
read in one statement and inserted in another (`NumberPage`, `InsertPage`,
`ReadAbbreviation`, `ReadNumber`, `InsertItem`). An update checks that form and version,
season and launch go together and that the launch has no other active page, then loads and saves
(`UpdatePage`, `LoadPage`, `SavePage`). `MoveSeason` and `RemoveLaunch` are the operations of
seasons and launches that touch what pages go by.

### 2.9 SyncSchedules, CopilotAlerts and CopilotChat

`SyncSchedules`: every process looks once a minute for schedules that are due (`Look`, `Due`),
dispatches each without waiting (`Dispatch`), and then saves the time of the run (`SaveRun`,
`SaveFails`). With Hotmart's scheduler the first failure ends the look, with Meta's it does not
(`inTurn`). `CopilotAlerts`: a scan looks at each signal, has it explained, and stores the alert
under a unique index (`Begin`, `Look`, `Explain`, `Store`). Which signals are bad is a choice at
each scan: figures and thresholds change.

`CopilotChat`: a request saves its question, reads the conversation, and has the model answer in
rounds of tools (`SaveQuestion`, `ReadHistory`, `Complete`, `Dispatch`, `SaveAnswer`); the model
and the tools may fail, and the question stays. `chat` is in the order in which messages were
saved; the code lists them by the beginning of their transaction, which differs for two that were
saved at the same time. Conversations are there from the beginning. Beside this the
configuration of the launch is saved (`Configure`, `InsertConfig`, `LoadConfig`, `WriteConfig`).

### 2.10 SyncFeed, CaptureReports, Dashboards

`SyncFeed`: a tick is a microsecond, the cursor is in milliseconds, ids are in any order, and a
capture is seen when its transaction commits, with the time at which it began.

`CaptureReports`: four ways to tell of captures: a file written in batches (keyset), one
written at once, pages by offset, and the answers in a batch of the feed. Captures are registered,
committed late, answered, given a contact, and questions get another text, between any two
reads. The answers, the response and the result of a score are inserted in one transaction; the
texts are read apart from them. Which of the texts of one key names its column is a choice.

`Dashboards`: an answer is one of eleven kinds, and a kind is a sequence of phases
(`Summary`, `Series`, ...), each a set of reads that end in any order, as `Promise.all` leaves
it; between them figures, captures, responses, sales and refunds are stored, as far as the
answer reads them (`Fetch`, `Register`, `Respond`, `Sell`, `Refund`), an extraction deletes the
figures of its days before it stores them again (`Clear`), a registration that comes again
rewrites the ad and the temperature of its capture (`Merge`), and the responses go with their
version (`RemoveVersion`). `changed` says what of this came after the first read: nothing,
rows that were added, or others. `Found` gives the result of each read: which rows its filters and joins
keep and what it counts. Beside this, two administrators save the targets of the launch
(`Edit`, `Save`, `Laid`). All is of one launch, which a merge keeps, one product, one account
and one version of a form; a row of figures and a sale are
one unit of money, a period begins at `from`, and a campaign or an adset is the set of its ads.

### 2.11 IdentityMatch and ContactBook

`IdentityMatch`: a registration looks for a person by e-mail, then phone, then CPF, each a
statement, creates one if it found nobody, and adds what is missing of the identifiers; a
purchase does so by e-mail alone and without a transaction. No index keeps an identifier
from having two persons.

`ContactBook`: a contact is created in ActiveCampaign; refused as a duplicate, it is searched for
and overwritten; then it gets a tag (`Create`, `Refuse`, `Search`, `Update`, `AttachTag`). Each
is a call that may fail before or after it took effect. ActiveCampaign is external: it has an
e-mail once and may refuse a phone twice; the order of its results is a choice.

### 2.12 UserAccounts, RoleGrants, AuthLimits, OAuthConnections

`UserAccounts`: a request takes a user's row, and every step of `Steps` is one statement: save
the row, issue, spend and revoke refresh tokens, clear, make and use reset tokens. Even a login
saves the row, for the time of the last login. `CutOff` ends a request between two
statements. The transaction of a bootstrap is one step: the upsert of the permissions, before
it reads users, locks rows that a second bootstrap waits for. `Logout` reads and saves in one
step: a token that is revoked stays so, whoever saves.

`RoleGrants`: a request reads a role with its permissions (`Take`), and a save adds and removes the
permissions that differ from those it loads (`Load`, `Save`, `Written`). A bootstrap reads the
role of the super admin and, at the end of its transaction, has made or completed it (`Commit`).

`AuthLimits`: one key of action, address and subject. A check counts in one statement of the
database, by the end of a window reckoned before (`Begin`, `CheckPostgres`), or, when that fails,
in the memory of its process (`CheckMemory`), which a restart empties. `SinceLimit` is how long
ago a counter had let the last checks through that make up a limit.

`OAuthConnections`: a consent finds or makes the connection (`HandleCallback`,
`FindConnection`), a use of the token renews it if it ran out (`TakeToken`, `Renew`), a user
chooses an account or disconnects (`Disconnect`, `SaveConnection`); the accounts are listed by
the provider, saved one by one and removed if they were not in the list (`ReadAccounts`,
`SaveAccount`, `RemoveAccount`), and selected by users (`SetSelection`). Google lists all
or fails, and marks accounts it bars; Meta's list may lack accounts, since a listing that
failed is passed over. A provider honours a code once.

### 2.13 MetaFigures

A direct synchronisation asks for the ads or the figures of each account, one page of it, and upserts
row by row (`Start`, `Fetch`, `Save`, `Finish`, `Fail`). A page that is too much is asked for
again in a smaller one, of which again the first is taken (`short`); of the ads, too, one page
is read, so that an account that has more than fit is cut off. `truth` is the version of
what Meta says, one for all rows; a row is the version it was fetched in. `Export` and
`ImportRow` are the CSV of figures. Campaigns and ad sets are stored as ads are.

## 3. What TLC checks

| run | instance | shows |
|---|---|---|
| `export_lease` | 1 job, 2 handlers, 2 attempts, 2 faults | types; `CompletedFileOwned`, `LiveAttemptKeepsJob`, `JobOnlyAdvances`, `FailedForCause`; that `ExportJob` implements `ExportLifecycle` |
| `export_live` | 2 jobs, 1 handler, 1 row per pass, 1 fault | `EveryExportSettles` under fairness |
| `lead_registration` | 2 requests of 1 lead, 2 handlers, 2 deliveries, 1 lapsed lock | `CompletedIsSynced`, `NoDuplicateInWindow`, `DuplicateOnlyIfDisplaced`, `LocatedUnlessCrowded` |
| `one_capture_per_request` | as above, 1 handler, no lapsed lock | finding 1 |
| `request_id_locates` | as above, 1 delivery | finding 2 |
| `lead_pipeline` | 2 requests of 1 lead, 1 score and another that was not sent, 2 scorers, 1 lapsed lock | `ScoreNotDropped`, `OneResultUnlessOverlapped`, `CompletedIsResolved` |
| `hotmart` | 2 purchases of 1 buyer (one with 2 statuses), 2 receivers, 2 processors, 2 requests, 2 faults, with and without the queue | `RawShowsNewest`, `ProcessedShowsRaw`, `OnePersonPerBuyer`, `NoRowForgotten` |
| `lead_pipeline_live` | 2 requests of 2 leads, 2 scores of the first | `CaptureKeepsLead`, `ResultOnOwnLead`; `EveryScoreEnds` under fairness |
| `marketing` | 1 execution of 2 report jobs, 2 replicas; 2 extraction jobs of 2 days, 2 workers, 2 deliveries; 1 fault | types; `CountsAddUp`, `AdvancesUnlessContended`, `DayIsOneFetchUnlessCut`; `EndsUnlessOrphaned`, `EndsUnlessUnsent` under fairness |
| `audience` | six parts: 2 administrators, 1 scorer, 3 requests and 3 forms in `FormManagement`; two of nearly everything in the others | types; `OneUnlessCrowded`, `ScoreByOneCard`, `ActiveLostOnlyOnRequest`; the first two invariants below |
| `back_office` | eleven parts, two of nearly everything | types; the other six |
| `sync_feed` | 3 captures in 2 milliseconds, batches of 1 or 2 | finding 3 |

The invariants of `audience` and `back_office` join those of their parts that make one promise:

| invariant | says, in the parts |
|---|---|
| `ConsistentUnlessRaced` | a vote is with the voter who gave it, for a candidate of its campaign (`Voting`); what a page refers to goes together, numbers given are free (`Pages`); questions are where they were put, once (`VersionQuestions`) |
| `ReadersMissNothing` | the feed skips nothing (`SyncFeed`), reports tell all (`CaptureReports`) |
| `OnceUnlessHeld` | once a day (`SyncSchedules`), once a signal (`CopilotAlerts`), no more than the limit in a window (`AuthLimits`) |
| `AccountsHoldUnlessRaced` | users, sessions and reset tokens are as asked (`UserAccounts`), so are roles (`RoleGrants`), connections and selections (`OAuthConnections`) |
| `OnePersonUnlessShared` | one person per identifier (`IdentityMatch`), a contact keeps e-mail and tag (`ContactBook`) |
| `FiguresKeptUnlessOverlapped` | figures are the newest (`MetaFigures`), targets are as sent (`Dashboards`) |
| `AnswersAgreeUnlessChanged` | the numbers of an answer agree where nothing was written between its reads, and where rows were only added none exceeds what is there in the end (`Dashboards`) |
| `CopilotSeesAllUnlessMixed` | an answer has the whole conversation in sight, the configuration is as asked (`CopilotChat`) |

**Why the bounds are enough.** A conflict over an export needs one job, an attempt and the
one that replaces it: two handlers and two attempts, and two faults let the first lose its
lock (a duplicate message) and the second die. With two attempts the limit is reached, so
that recovery gives up as well as re-queues. Two jobs and a pass of one row make recovery
choose, which is where starvation would come from; the one handler is the subscription
of a worker with concurrency 1. `MaxQueued` saturates: no guard asks for more than "is
there a message". Registrations conflict in pairs: the second submission merges
into, or duplicates, the capture of the first, and one retry each gives every order of a
failed branch, a merge and the closing of the window. A score meets one registration;
the other submission is the one that takes the capture over. Two scores of one request
share a handler in the liveness run, so that one could starve the other. In
`lead_pipeline_live` the registrations belong to two leads: there a row of the wrong lead
would be visible. Two purchases of one buyer and two processors are what it takes to create
a person twice; two receivers, to find no row twice; a second status, to change a row while
it is processed. Two requests are two events, or an event and a batch.

In the other runs the conflicts are of pairs too: two copies of a row, two writers of a day,
two scans. One request makes the row, two fight over it, so three are enough where a row has
to be made first (`MoreRequests`), and two where the first state has one (`MaxRequests`). The
answers and ranges of `FormManagement` are small but have a bound that is met, one that is missing and
a tier that ends at a total. Two report jobs leave one pending when the other is counted; two
deliveries reach the broker's limit; two days make a job that rewrites more than a day.
Three captures in two milliseconds, with ids in any order, have one whose cursor is cut below
it and one that shares its millisecond. Batches, and pages, of one row make every capture a
boundary. Two ads, two days, two captures and a sale make every sum of a dashboard have two
parts, and the number of writes is the number of reads that could fall apart, up to four. Of two
accounts one has an ad, which fits a page, and the other two, of which a page has the first and the
smaller one none. Five rows and
places 0..2 hold two questions of a form, one of another, and two links. A limit of one and three
checks in three ticks exceed it, in a window that ends meanwhile; one round of tools is the last.

The bounds are constants of the modules: `MaxRequests` and `MoreRequests` (requests, events
and batches), `MaxFaults`, `MaxLapses` and `MaxCrashes` (crashes, lost locks, errors),
`MaxRejects` and `MaxAborts` (of bulk jobs), `MaxQueued` and `MaxCopies` (messages
counted), `MaxDeliveries`, `Deliveries` and `MaxTries` (the broker's delivery count),
`MaxAttempts`, `RetryMax`, `MaxRounds`, `Limit` and `Ttl` (limits of the code, taken smaller),
`PendingAfter` and `StaleAfter` (1 and 5 minutes, taken as 1 and 2 ticks: what matters is
that the first is the shorter), `MaxGiven` (a capture that is given again and again is counted
up to 2: with a batch of one the feed never gets on), `MaxDay`, `MaxMinute`, `MaxTick`, `MaxTime` (time), and
the `Max...` of rows, versions and submissions named in each module.

**Fairness.** `HandlerStep` is weakly fair: Node runs the continuation of a handler whose
awaits settle. Every I/O of a handler may also fail, so this asks only that calls return.
`Deliver` is strongly fair per job (and per score): the broker hands out a message that
stays available each time a slot is free, and does not pass one over for ever. `Recover`
is weakly fair, as the interval timer fires every minute; `Tick`, as time passes. Of
`MetaBulkJobs`, the poller of each replica is weakly fair, because its timer fires every 30
seconds; the process that starts an execution goes on; Meta settles a report job; an abort
that was read is saved. Of `MarketingExtract`, makers and workers go on, and a message that is
free is taken. No fairness is asked of clients, of failures, of the heartbeat, of aborts or of
progress callbacks. Under these, an export that was requested settles although publications
fail, workers die and messages are dead-lettered; without Service Bus nothing recovers a job, so
`EveryExportSettles` speaks of deployments with it. The number of faults is bounded, that
is, a failure does not repeat for ever.

Deadlock is checked in the export runs, where time always passes. In the others the queues
run empty, or the requests the bound allows are made, and the system may stop.

**Findings.**
1. `OneCapturePerRequest`: a comment calls persistence idempotent by requestId. A retry
   looks only at `metadata->>'requestId'`, and a later request merged into the capture
   replaces that field. If the retry comes after the merge and after the window closed, a
   second capture is inserted. One handler suffices. `DuplicateOnlyIfDisplaced` states what
   does hold: only a request that was displaced, or whose lead had two handlers at once, can
   have two captures.
2. `RequestIdLocatesCapture`: the scoring API says that the requestId of a registration
   locates its capture. The attachment saves metadata read before another handler merged
   its request; that request's id is then in no capture. `LocatedUnlessCrowded` states what
   holds: without overlapping handlers of one lead, it does.
3. `OnlyNewCaptures`: the API says that passing the cursor on brings only new records. The
   cursor is given in milliseconds, while rows are ordered and compared in microseconds, so
   that the last capture of a batch comes after its own cursor and is given again; with a
   batch of one the feed does not get on. `FeedSkipsNothing` states what holds: nothing is
   left out, but captures committed after a younger one was given.

**What else the models show.** Each of these is a behaviour TLC reaches when the exception
in the property is dropped, or that the code showed while it was translated; no text of the
repository promises otherwise, so that they are not findings.

- A login, or the renewal of a token, that began before a deactivation or a disconnection
  and saves after it undoes it. Consent by a visitor who is not logged in takes over the
  connection of any owner.
- A listing of accounts that Meta failed in part removes the missing ones with their selection.
- A poller of Meta executions undoes an abort saved while it worked; an execution none of whose jobs
  Meta started is shown as aborted by the user; one whose process died before it saved the
  pending jobs stays running.
- A score, or a registration, accepted by a process whose Service Bus is disabled is told to be
  queued and is not sent.
- An answer of the marketing dashboard asked for while an extraction rewrites its days, or a
  registration is merged, may tell of more than there is in the end.
- Direct synchronisations read one page, of figures as of ads; the test for `code=1` also matches codes 10x, 17 and 190;
  a CSV import puts figures of one version beside columns of another.
- Hotmart's look at schedules ends with the first that fails.
- An update of a page that names no form version loads the version without its form and
  fails; a change of the launch alone skips the check of the season.
- A question may be linked to a version twice when two requests add it at once; creating a
  question does not keep its key unique in a form, while creating a whole form does.
- Two voters' updates can leave a voter with the e-mail of one vote and the phone of another.
- The header of a file goes by question keys and its answers by texts, so that questions that share one and
  not the other show in one column; an item of the feed may have the score of one response
  and the answers of another.
- A phone that ActiveCampaign refuses as a duplicate puts the new e-mail in the place of
  the other contact's. The webhook's log says failed of a contact that was sent when the log
  could not be saved.
- The revenue of an ad counts a sale once for each capture of its buyer on the ad, and
  direct revenue once for each row of the catalogue; the rate of a survey may exceed 1; an account
  filter restricts figures and not leads; a target cannot be cleared, while a key can.
- A change of a role's name writes the permissions it read over those another just took away; the
  role of the super admin can be given another name, and a bootstrap then makes a second one.
- A window of the limit on logins ends early when the check that opened it had to wait for the
  database; a check whose answer was lost counts twice, there and in memory.
- A conversation is saved after each answer as it was read, which writes nothing: the list by time
  of change stays in the order of creation.
- Scans of the copilot do not restrict ads by launch; an alert stored without an
  explanation, because the model failed, is never explained.

## 4. What is proved

Each theorem holds for every value of the constants that the assumption named beside it
allows; the assumptions fix the types of the constants, ask that a limit on deliveries or
attempts be positive, and that a value that stands for "none" be none of the values it stands
beside. TLC checked every inductive invariant on the instance of its run before it was proved.
In every module the argument is the same: the invariant that the run checks is joined by what
each process knows between its read and its write, one lemma per action shows that this is
kept, and the theorems follow.

### 4.1 The export (`ExportJob_proofs`, from `ExportConstants`)

| theorem | statement |
|---|---|
| `TypeCorrect` | `Spec => []TypeOK` |
| `InvHolds` | `Spec => []Inv` |
| `CompletedFileTheorem` | a completed job serves the stored file of its latest attempt |
| `SettledIsFinalTheorem` | nothing touches a completed or failed job |
| `FailedForCauseTheorem` | a job fails by its owner's error, or silent with all attempts used |
| `LiveAttemptTheorem` | no step takes a job from a live attempt |
| `PhaseTheorem` | within a lease the phase only moves forward |
| `JobAdvances` | a job only moves forward: `PhaseTheorem` and `SettledIsFinalTheorem` together |
| `RefinementTheorem` | `Spec => Lifecycle!Spec` |

`CompletedFileOwned` alone is not inductive: that the completing attempt owns the job says
nothing about where its file is, nor that it is the latest attempt. `Inv` adds

- `Base`: types, and that a busy slot has a job and a working one a token;
- `LeasesCount`: the lease of a job is its number of attempts, and no token is younger;
- `TokensDiffer`: two attempts at a job have different tokens;
- `UploadsStored`: an attempt past its upload has its file in the storage;
- `OwnersAnnounced`: the row shows the phase its owner is in;
- `RowsFresh`: a job that was never claimed has no attempts;
- `PassesOld`: a recovery pass remembers unsettled rows, with no more attempts than made.

The first three carry the argument: a claim makes a token younger than any other at
that job, so an older attempt can no longer own it. `OwnersAnnounced` and `TokensDiffer`
give `PhaseTheorem` (an owner announces the phase after its own). `PassesOld` gives
`FailedForCauseTheorem`: a pass that remembers a used-up job remembers no more than what
is so. The action properties and the refinement go through `TableSteps`: every step keeps
the rows or writes one of them in one of six ways (created, claimed, announced, completed,
failed by its owner, given up), each with what held before it.

### 4.2 Registration (`LeadPipeline_proofs`, from `RegistrationConstants`, `NoRowIsNoRow`)

| theorem | statement |
|---|---|
| `TypeCorrect` | `Spec => []TypeOK` |
| `CompletedSynced` | a completed request did both halves, the contact and the row |
| `CapturesKeepLead` | no capture mixes two leads |
| `WindowRespected` | no step inserts a second capture of a lead that had a recent one when it looked |
| `DuplicatesExplained` | a request has two captures only if it was displaced or its lead was in two hands |
| `CompletedLocated` | a completed request is found in a capture, unless its lead was in two hands |

A handler acts on what it read a few steps ago, so the properties say too little about it.
`Inv` adds `Base` (types, what a handler in a given step has in hand, deliveries left, locks
held by one handler), `LeadsKept` (the row a handler found and the copy it holds are of the
lead it works for: with it a merge, which writes the copy, cannot mix leads), `WindowSeen` (a
handler about to insert saw no recent capture among those there were), `TakingTurns` and
`ReadsCurrent` (where the handlers of a lead took turns, a copy is still what the row is:
hence no request id is lost), and `InsertersNamed` (a capture names the request that inserted
it until a later one displaces it: a second capture has a cause).

### 4.3 Scoring beside registration (`LeadPipeline_proofs`, with `ScoringConstants`, `ScoresNameRegistrations`)

| theorem | statement |
|---|---|
| `ScoresNotDropped` | an accepted score has a result, is in a message or a handler, or was dead-lettered |
| `ScoredOnce` | a score has one result, unless two handlers had it at once |
| `ResultsKeepLead` | a result is on a capture of the lead its score is of |
| `CapturesKeepLeadInPipeline` | no capture mixes two leads, with scores rewriting rows, too |
| `CompletedSyncedInPipeline` | a completed registration did both halves, likewise |
| `CompletedResolved` | a score of a completed registration is resolved, unless the lead was in two hands |

The lemmas about registration alone are used again for its steps; what
scoring does to its invariant is proved here. `PipelineInv` adds `TriesLeft` and `AllInHand`,
which is stronger than `ScoreNotDropped`: a score is in hand even if each message that is
about to be completed were completed now, which is why the order "publish, then complete" is
safe. `ScorersApart` and `CommitsFirst` give `ScoredOnce`; `TargetsOnLead` and `RowsCurrent`
say that the row a scorer read is of the lead, and current where nobody else had the lead.

### 4.4 Sales (`HotmartSales_proofs`, from `HotmartConstants`)

| theorem | statement |
|---|---|
| `TypeCorrect` | `Spec => []TypeOK` |
| `RawIsNewest` | the raw row shows the newest event, unless events came late or at once |
| `ProcessedIsRaw` | a processed row's payload is in the sale, unless it changed in a processor's hands |
| `BuyersOnce` | a buyer is one person, unless two purchases were processed at once |
| `RowsMinded` | an unprocessed row is in a message, a call or a handler, unless that was lost |

Each property has its companion in `Inv`: `ReceivedInOrder` (a reception that is neither late
nor accompanied has the newest version in hand, and the row as it found it), `HeldAsRead` (a
row in undisturbed hands is as it was read, and after its upsert as it was saved),
`BuyersApart` (where processors of a buyer take turns, nobody else creates the person).

### 4.5 Marketing (`Marketing_proofs`, from `MarketingConstants`)

| theorem | statement |
|---|---|
| `RowsAccount` | the counts of an execution account for every report job |
| `RowsAdvance` | what ended stays so and counts do not go back, unless two processes had it |
| `TypesKept` | both parts are typed |
| `DaysAgree` | the rows of a day come from one fetch, unless writers met or one was cut off |

`BulkInv` says of every row, and of every copy a poller holds, that the jobs counted and those
left are all jobs, and that without a failure the figures of those counted are stored
(`Accounted`): a copy overwrites the row, so it has to account for itself, whatever the row has
become. So counts are right for contended executions, too, and `CountsAddUp` excuses none. `Alone`
says that an execution in one hand is as that hand read it, which gives `RowsAdvance`.
`ExtractInv` adds to the property what a worker may still write (`Writes`) and, of the days it
is alone at, that nobody else may and that the rows are as it left them (`WriterKept`; for the
import, `ImportKept`); and that makers and workers know jobs there are (`JobsKnown`) and no
message is in two hands (`MessagesApart`).

### 4.6 Forms (`FormManagement_proofs`, from `FormConstants` and, for scores, `CardConstants`)

| theorem | statement |
|---|---|
| `FormsInvariant` | `Spec => []FormsInv` |
| `OneActiveUnlessCrowded` | one child and one batch is in force, unless two transactions wrote to the owner at once |
| `ActiveLostForAReason` | the child in force is lost only by a removal or an edit that saves it as not active |
| `ScoreFollowsOneCard` | a score computed by a card that keeps its batches is what the card gives |

`FormConstants` asks that ids of forms be none of rows, and for two forms and three rows, which
the first state holds; option, range and tier batches come from finite sets. The theorems are
about the behaviours of `Audience` in which the forms run; the other parts leave them alone.

`OneUnlessCrowded` says nothing of a transaction that is open. `ActiveKept` adds that one on an
uncontended owner that will make a child active saw every child that is (`Sees`), and `BatchesKept`
the same of one that replaces a batch. So a commit leaves one, and whoever else was open at that
owner makes it contended. A copy needs more: `RowsKnown` and `TxsKnown` say that no row or
transaction is on an id not given out, so nobody is on the copies and their owner; and
`RanksCovered`, about ranks in a finite set, that every copy is of one score and no two of the same,
so a copy of an uncontended version is as good as that. The second theorem needs that a transaction
deactivates children of its owner only (`Homes`): each id has one owner for good, although
an edit may insert its row again after it was deleted.

`CardConstants` makes answers and points numbers, and ends of ranges and tiers numbers or none.
`CardsInv` says of a computation, step by step, what its total must be by then (`CardWell`), as
long as the card is undisturbed (`steady`). A step of an administrator either watches
the computations, and leaves those steady whose batches it keeps (`WatchedLeaves`), or touches only
batches of rows not given out before, of which no computation knows (`UnwatchedLeaves`; hence the
bound on the score of a computation). The comparison with the reference is `FoundIsGiven`:
of disjoint rows one at most holds a value, so that the order of the query does not matter, and the
conditions of the query are those of the span, a missing end included.

### 4.7 Votes, pages and questions (`Audience_proofs`, from `AddressConstants`)

| theorem | statement |
|---|---|
| `ConsistentApart` | votes, pages and questions are consistent, unless two requests had a row in hand |

`VotingInv`, `PagesInv` and `QuestionsInv` say what the property says and, of the requests: a row
that is not in the excuse (`crowded`, `crowdedPages`, `mingled`) is in one request's hands, that
request knows the row as it is, or as it will be saved, and the numbers it read are still free. A
vote needs that candidates and categories stay in their campaign (`CandidateWell`), a page that the season
a request looked up is still of the launch, or excused (`PageWell`), a link that no other is of the
same question, or was put at the end in the same place (`LinksApart`).

The attempt corrected two excuses. With three clients and four requests, which the run does not
reach, TLC finds a page that is active and without a launch because two updates, of the launch and of the
flag, had it in hand, and rows of questions that a removal took by its cascade while a request had them
and then saved them again. Both are what the code does. `Pages` now excuses such a page of having a
launch, too, and `VersionQuestions` records the rows that went while they were held.

### 4.8 Readers (`Audience_proofs`, from `ReaderConstants`)

| theorem | statement |
|---|---|
| `NothingMissed` | the feed skips nothing but late captures; reports tell of all that was there all along |

For the feed, `FeedInv` says that a capture at or behind the cursor was given, or was committed late
(`NoneSkipped`), where the cursor cuts the time of the last capture given to milliseconds (`AtLast`).
For reports, `Covers` says where a capture that was there all along is: told, in the batch in hand, or
still to come; still to come means before the cursor for a file, and for a page, which counts
rows, behind as many captures as the pages had, which holds only while nothing came or went
(`shaken`). A batch shorter than its size was the last. The header of a file has the questions of the latest
responses of all captures, or they are excused (`FileHeaded`). The lemmas on ranks in a set of
numbers (`GreatestExists` and those after it) show that sorting and cutting such a set loses none.

### 4.9 Types of what is addressed (`Audience_proofs`, from all assumptions of `Audience`)

| theorem | statement |
|---|---|
| `AudienceTypes` | `Spec => []TypeOK`: types and bounds, and no row without what it belongs to |

`TypeOK` of the six parts says more than types, so each has a companion to the invariants above:

- `FormsBounded`: no version is without its form, no score without its version, no content without its
  row (`FormsWhole`). A deletion goes one level down, so the argument needs that what a score owns is
  nothing, also after an edit has saved a deleted row again: each id is of a version or of a score for
  good, in the rows and in what transactions will save (`Levels`, whose ids of versions are a witness that
  grows as ids are given out). A copy needs it as well, for its target to be a row.
- `QuestionsBounded`: likewise an id is of a question, an option or a link for good (`KindsFit`), so a removal
  of a question takes what belongs to it, and what a request saves back is refused if its question is gone.
- `PagesBounded`: no two active pages share a launch (`ActiveApart`), by the deactivation in the same statement.
- `VotingBounded`: no two voters share an e-mail or a phone; a voter is put only where nobody has them.
- `FeedBounded` and `ReportsBounded`: clocks, cursors and counts stay within bounds; the latest response of
  a capture is one of its own (`OwnLatest`).

`AudienceBounds` asks that bounds be numbers. The attempt corrected a type: the total of a score is an
integer, since the points of an option may be negative (the run has none that are).

### 4.10 Persons, contacts, figures and what goes by a clock (`BackOffice_proofs`, from `BackOfficeConstants`)

| theorem | statement |
|---|---|
| `PersonsAndContactsKept` | what shares an identifier is one person; a contact keeps e-mail and tag; unless requests met |
| `DoneOnce` | a schedule runs once a day, a signal is explained once, a window lets no more through than it may |
| `CopilotSeesAll` | an answer saw the questions before it, the configuration is as asked, unless two requests met |
| `FiguresKept` | figures are as new as any execution got them, and targets as sent, unless two had a row in hand |

- `PersonsInv`: a value that was in one request's hands has one holder, and so has what is stored with
  it (`InOneHand`); each person has an identifier, or is about to (`Named`).
- `ContactsInv`: a sender knows the contact it found or made (`SenderAt`), and what was sent is with its
  contact unless the e-mail was displaced (`SentWell`); the log says so, or nobody could tell it.
- `SchedulesInv`: a run is marked in the row, or the look that dispatched it will mark it (`Marked`), and no other
  look has the schedule to do (`OneRunner`, `NotToday`).
- `AlertsInv`: an explanation asked for is in the alert, or a scan is about to store it (`AskedOnce`).
- `LimitsInv`: checks let through are a window apart, limit by limit (`Spaced`), and the last ones are those
  the counter counts (`Windowed`, `Counting`); a counter that a restart emptied is excused.
- `ChatInv`: a question in hand has all before it in its history, as conversations only grow; the
  configuration has one request that writes it, which knows the row (`NotesHold`).
- `FiguresInv`: a row that an execution has in hand is no newer than what is in hand, and nobody else has it;
  everyone else got it no newer than it is stored (`Newest`). An execution counts what it stored, and has what it asked for
  but for what Meta cut short (`FetchWell`). Accounts and ads may be any number. The targets need no more
  than the property itself.

### 4.11 Users, roles and connections (`BackOfficeAccounts_proofs`, from `BackOfficeConstants`)

| theorem | statement |
|---|---|
| `AccountsHold` | rows are as asked and sessions go back to the password in force, unless two requests had a row |

`UsersInv` says of a user in one request's hands that the row is as asked and that the request knows
every column it will not change (`KnowsUser`): hence a save of the whole row undoes nothing. Sessions
are of the password in force, or the request that changed it has yet to revoke them (`Ending`), or was cut
off before it did (`unrevoked`). `GrantsInv` says the same of roles, of which a request loads
the permissions twice. `ConnectionsInv` adds that an owner has one connection (`OneEach`), and of the accounts
listed that those chosen are selected, or Meta left them out (`Chosen`), and that the rows a listing will
save and remove are as it read them (`RowsOf`).

### 4.12 Only model-checked

- Liveness (`EveryExportSettles`, `EveryScoreEnds`, `EndsUnlessOrphaned`, `EndsUnlessUnsent`), which the
  prover does not reach.
- `AnswersAgreeUnlessChanged`: the answers of `Dashboards` are sums over rows, and what a sum over a set
  is goes by induction over data.
- `TypeOK` of the scoring as far as it bounds captures by `MaxCaptures` (the bound follows from the
  number of deliveries, a count over all requests); the rest of its types is in `ScoringTyped`.
- `TypeOK` of `back_office`: the invariants above have the types they need (`...Typed`), which are not all
  that `TypeOK` says.
- The three findings, which are violations.

## 5. Plan

What remains, the most consequential first:

1. `TypeOK` of `BackOffice`, where the invariants do not have it already.
2. The answers of `Dashboards` that are single reads, as a property and a theorem of their own.

## 6. Not modelled

- **Audit, common, database.** The audit log appends rows; guards and sanitisers are pure
  functions; entities and migrations are declarations, of which the modules state what
  indexes and keys promise (in their type invariants).
- **Filters, rankings and ratios** of lists and dashboards, the list of questions and the
  counts of the ActiveCampaign gap: single queries whose arithmetic is PostgreSQL's.
- **The tools of the copilot**, which read what `Dashboards` reads; the language model is external.
- **Lockouts, the validity of tokens, encryption.** A count in the memory of one process, a
  comparison of times, a library.
- **Texts of pages**, their temperatures and templates; names of forms, seasons and launches; the
  keys and types of questions; the table of tiers; the RESTRICT of pages on a form version.
- **Reference data a registration names**, requests that name a capture themselves, the
  answers stored with a score, products of Hotmart, sums over rows of report jobs.
- **A change of a user's e-mail**, which an administrator may ask for together with what
  `SetActive` changes: in `UserAccounts` the e-mail is the user.
- **The Graph, Google, Hotmart and ActiveCampaign clients** are I/O whose outcomes the models
  leave open; the shutdown of the service bus ends a process like `Crash` does.
- **Reads that are one step.** A file's batch reads the latest responses, then by their ids the
  scores, and then the answers with the texts of their questions. What belongs to a response is
  inserted with it and does not change, so `ReadQuiz` is one step; a text edited between
  them is excused like one edited after the headers. Two responses of a capture with the same
  times of submission and creation, which the code orders in no way, are not told apart.
