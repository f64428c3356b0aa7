-------------------------- MODULE MarketingExtract --------------------------
(***************************************************************************)
(* The extraction of advertising figures of one account, selected and      *)
(* active.  Schedulers and users make jobs, a queue hands them to          *)
(* processors, or a process without Service Bus works on them at once, and *)
(* a processor rewrites the rows of its days in two tables, campaigns and  *)
(* ads, statement by statement and without a transaction.  A CSV import    *)
(* rewrites the same rows.                                                 *)
(*                                                                         *)
(* A day has one campaign with one ad; a row is the number of the fetch or *)
(* of the file it came from, 0 when there is none.                         *)
(***************************************************************************)
EXTENDS Integers, FiniteSets

CONSTANTS
  Yesterday, Today, \* the days there are
  Makers,          \* schedulers and requests that make jobs
  Workers,         \* calls of processJob in progress
  MaxJobs,         \* bound: jobs
  MaxRequests,     \* bound: requests for jobs and imports
  MaxMessages,     \* bound: publications
  Deliveries,      \* deliveries before the broker gives up
  MaxFaults        \* bound: errors, crashes and lapsed locks

Days == {Yesterday, Today}
JobIds == 1..MaxJobs
Messages == 1..MaxMessages

VARIABLES
  jobs,            \* the table of jobs
  made,            \* jobs so far
  making,          \* what each maker does
  unsent,          \* jobs that were saved as pending and not taken on since
  queue,           \* messages
  sent,            \* publications so far
  dropped,         \* jobs whose message the broker gave up, or whose worker died
                   \* without any message of them
  work,            \* what each worker does
  campaigns, ads,  \* the consolidated rows of each day
  raw,             \* fetches whose raw rows are stored
  importing,       \* the import in progress
  unsettled,       \* days being rewritten, or last rewritten by two at a time
                   \* or by one that was cut off
  requests, fetches, faults

jobVars == <<jobs, made, making, unsent>>
queueVars == <<queue, sent, dropped>>
rowVars == <<campaigns, ads, raw, unsettled>>
vars == <<jobVars, queueVars, work, rowVars, importing, requests, fetches, faults>>

NoJob == [days |-> {}, status |-> "none"]
NoMessage == [job |-> 0, left |-> 0, free |-> FALSE]
NotMaking == [at |-> "idle", kind |-> "daily", days |-> {}, job |-> 0, status |-> "none",
              enqueue |-> TRUE]
NotWorking == [at |-> "idle", job |-> 0, message |-> 0, fetch |-> 0, campaigns |-> {},
               ads |-> {}, clean |-> {}]
NotImporting == [at |-> "idle", day |-> Today, value |-> 0, found |-> 0, clean |-> {}]

Status == {"none", "pending", "running", "completed", "failed"}
Fetches == Nat

JobState == [days : SUBSET Days, status : Status]
MakerState == [at : {"idle", "looked", "saved"}, kind : {"daily", "manual", "hourly"},
               days : SUBSET Days, job : 0..MaxJobs, status : Status, enqueue : BOOLEAN]
MessageState == [job : 0..MaxJobs, left : 0..Deliveries, free : BOOLEAN]
WorkerState == [at : {"idle", "fetch", "ads", "raw", "rows", "failed"},
                job : 0..MaxJobs, message : 0..MaxMessages, fetch : Fetches,
                campaigns : SUBSET Days, ads : SUBSET Days, clean : SUBSET Days]
ImportState == [at : {"idle", "ad", "delete", "rebuild"}, day : Days, value : Fetches,
                found : Fetches, clean : SUBSET Days]

TypeOK ==
  /\ jobs \in [JobIds -> JobState]
  /\ made \in 0..MaxJobs
  /\ \A j \in JobIds : (jobs[j] = NoJob) = (j > made)
  /\ making \in [Makers -> MakerState]
  /\ unsent \subseteq JobIds /\ dropped \subseteq JobIds
  /\ queue \in [Messages -> MessageState]
  /\ sent \in 0..MaxMessages
  /\ work \in [Workers -> WorkerState]
  /\ campaigns \in [Days -> Fetches] /\ ads \in [Days -> Fetches]
  /\ raw \subseteq Fetches
  /\ importing \in ImportState
  /\ unsettled \subseteq Days
  /\ requests \in 0..MaxRequests
  /\ fetches \in Fetches /\ faults \in 0..MaxFaults
  \* a message in flight is in one hand
  /\ \A k \in Messages : queue[k].free => \A w \in Workers : work[w].message # k

Init ==
  /\ jobs = [j \in JobIds |-> NoJob] /\ made = 0
  /\ making = [m \in Makers |-> NotMaking] /\ unsent = {}
  /\ queue = [k \in Messages |-> NoMessage] /\ sent = 0 /\ dropped = {}
  /\ work = [w \in Workers |-> NotWorking]
  /\ campaigns = [d \in Days |-> 0] /\ ads = [d \in Days |-> 0]
  /\ raw = {} /\ unsettled = {}
  /\ importing = NotImporting
  /\ requests = 0 /\ fetches = 0 /\ faults = 0

Fault == faults < MaxFaults /\ faults' = faults + 1

-----------------------------------------------------------------------------
(* Making jobs *)

\* findOne by the range of days; several jobs may have it.
Found(D) == {j \in 1..made : jobs[j].days = D}

Look(m, kind, D, enqueue) ==
  /\ making[m].at = "idle"
  /\ requests < MaxRequests /\ requests' = requests + 1
  /\ \E j \in IF Found(D) = {} THEN {0} ELSE Found(D) :
       making' = [making EXCEPT ![m] =
         [at |-> "looked", kind |-> kind, days |-> D, job |-> j, enqueue |-> enqueue,
          status |-> IF j = 0 THEN "none" ELSE jobs[j].status]]
  /\ UNCHANGED <<jobs, made, unsent, queueVars, work, rowVars, importing, fetches, faults>>

\* createDailyJobs, for one day: a turn of its loop
CreateDailyJob(m, d, enqueue) == Look(m, "daily", {d}, enqueue)

CreateManualJob(m, D, enqueue) == D # {} /\ Look(m, "manual", D, enqueue)

ScheduleHourlyTodayJob(m) == Look(m, "hourly", {Today}, TRUE)

\* The states from which a request starts a job again.
Reset(kind) == IF kind = "daily" THEN {"failed"} ELSE {"failed", "completed"}

Saved(m, j, D) ==
  /\ jobs' = [jobs EXCEPT ![j] = [days |-> D, status |-> "pending"]]
  /\ unsent' = unsent \cup {j}
  /\ making' = [making EXCEPT ![m] =
       IF making[m].enqueue THEN [@ EXCEPT !.at = "saved", !.job = j] ELSE NotMaking]

\* No job: one is inserted.  One to start again: it is saved as it was read.
\* Another: the hourly run skips it, the others publish it as it is.
SaveJob(m) ==
  /\ making[m].at = "looked"
  /\ LET t == making[m] IN
     \/ /\ t.job = 0
        /\ made < MaxJobs /\ made' = made + 1
        /\ Saved(m, made + 1, t.days)
     \/ /\ t.job # 0 /\ t.status \in Reset(t.kind)
        /\ Saved(m, t.job, t.days)
        /\ UNCHANGED made
     \/ /\ t.job # 0 /\ t.status \notin Reset(t.kind)
        /\ making' = [making EXCEPT ![m] =
             IF t.kind = "hourly" \/ ~t.enqueue THEN NotMaking ELSE [t EXCEPT !.at = "saved"]]
        /\ UNCHANGED <<jobs, made, unsent>>
  /\ UNCHANGED <<queueVars, work, rowVars, importing, requests, fetches, faults>>

Published(j) ==
  /\ sent < MaxMessages /\ sent' = sent + 1
  /\ queue' = [queue EXCEPT ![sent + 1] = [job |-> j, left |-> Deliveries, free |-> TRUE]]
  /\ unsent' = unsent \ {j}

\* enqueueJob
PublishJob(m) ==
  /\ making[m].at = "saved"
  /\ Published(making[m].job)
  /\ making' = [making EXCEPT ![m] = NotMaking]
  /\ UNCHANGED <<jobs, made, dropped, work, rowVars, importing, requests, fetches, faults>>

\* enqueueJob, asked for by a user
EnqueueJob(j) ==
  /\ j <= made
  /\ requests < MaxRequests /\ requests' = requests + 1
  /\ Published(j)
  /\ UNCHANGED <<jobs, made, making, dropped, work, rowVars, importing, fetches, faults>>

\* processJob: the job is saved as running.  It came with message k, or with none.
Starts(w, j, k) ==
  /\ work[w].at = "idle"
  /\ jobs' = [jobs EXCEPT ![j].status = "running"]
  /\ work' = [work EXCEPT ![w] = [NotWorking EXCEPT !.at = "fetch", !.job = j, !.message = k]]

\* enqueueJob where Service Bus is disabled: the caller works on the job itself.
ProcessAtOnce(w, j) ==
  /\ Starts(w, j, 0)
  /\ unsent' = unsent \ {j}
  /\ UNCHANGED <<made, queueVars, rowVars, importing, fetches, faults>>

ProcessMade(m, w) ==
  /\ making[m].at = "saved"
  /\ ProcessAtOnce(w, making[m].job)
  /\ making' = [making EXCEPT ![m] = NotMaking]
  /\ UNCHANGED requests

ProcessAsked(w, j) ==
  /\ j <= made
  /\ requests < MaxRequests /\ requests' = requests + 1
  /\ ProcessAtOnce(w, j)
  /\ UNCHANGED making

\* The publication fails, or the process dies before it.
PublishFails(m) ==
  /\ making[m].at = "saved"
  /\ Fault
  /\ making' = [making EXCEPT ![m] = NotMaking]
  /\ UNCHANGED <<jobs, made, unsent, queueVars, work, rowVars, importing, requests, fetches>>

-----------------------------------------------------------------------------
(* Writers of the consolidated rows: workers and the import *)

\* Faulty variant: the tables are rewritten for the first day of a range only.
DaysOfFirst(j) == IF Yesterday \in jobs[j].days THEN {Yesterday} ELSE jobs[j].days

DaysOf(j) == jobs[j].days

\* A writer begins with D: whoever writes one of these days is not alone now.
Begin(w, D) ==
  LET busy == (UNION {work[v].clean \cup work[v].campaigns \cup work[v].ads : v \in Workers \ {w}})
                \cup {d \in Days : importing.at # "idle" /\ importing.day = d}
  IN D \ busy

WithoutDays(D) == [v \in Workers |-> [work[v] EXCEPT !.clean = @ \ D]]

\* Faulty variant: a message is completed when it is received.
TakenAtOnce(k) == [queue EXCEPT ![k] = NoMessage]

Taken(k) == [queue EXCEPT ![k].free = FALSE, ![k].left = @ - 1]

\* The consumer takes a message.
TakeMessage(w, k) ==
  /\ queue[k].free
  /\ queue' = Taken(k)
  /\ Starts(w, queue[k].job, k)
  /\ UNCHANGED <<made, making, unsent, sent, dropped, rowVars, importing, requests, fetches, faults>>

\* The provider answered; the campaign rows of the range are deleted.
DeleteCampaignRows(w) ==
  /\ work[w].at = "fetch"
  /\ fetches' = fetches + 1
  /\ LET j == work[w].job
         D == jobs[j].days IN
       /\ campaigns' = [d \in Days |-> IF d \in DaysOf(j) THEN 0 ELSE campaigns[d]]
       /\ unsettled' = unsettled \cup D
       /\ work' = [WithoutDays(D) EXCEPT ![w] =
            [work[w] EXCEPT !.at = "ads", !.fetch = fetches + 1, !.campaigns = D, !.ads = D,
                            !.clean = Begin(w, D)]]
       /\ importing' = [importing EXCEPT !.clean = @ \ D]
  /\ UNCHANGED <<jobVars, queueVars, ads, raw, requests, faults>>

\* ... and the ad rows.
DeleteAdRows(w) ==
  /\ work[w].at = "ads"
  /\ ads' = [d \in Days |-> IF d \in DaysOf(work[w].job) THEN 0 ELSE ads[d]]
  /\ work' = [work EXCEPT ![w].at = "raw"]
  /\ UNCHANGED <<jobVars, queueVars, campaigns, raw, unsettled, importing, requests, fetches, faults>>

StoreRaw(w) ==
  /\ work[w].at = "raw"
  /\ raw' = raw \cup {work[w].fetch}
  /\ work' = [work EXCEPT ![w].at = "rows"]
  /\ UNCHANGED <<jobVars, queueVars, campaigns, ads, unsettled, importing, requests, fetches, faults>>

\* The unique index of a table refuses a row: a writer that was not alone has
\* left its days as they happen to be.
Refused(w) ==
  work' = [work EXCEPT ![w].at = "failed", ![w].campaigns = {}, ![w].ads = {},
                       ![w].clean = IF @ = jobs[work[w].job].days THEN @ ELSE {}]

\* A row is inserted, or refused.
InsertCampaign(w, d) ==
  /\ work[w].at = "rows" /\ d \in work[w].campaigns
  /\ IF campaigns[d] = 0
     THEN /\ campaigns' = [campaigns EXCEPT ![d] = work[w].fetch]
          /\ work' = [work EXCEPT ![w].campaigns = @ \ {d}]
     ELSE /\ Refused(w)
          /\ UNCHANGED campaigns
  /\ UNCHANGED <<jobVars, queueVars, ads, raw, unsettled, importing, requests, fetches, faults>>

InsertAd(w, d) ==
  /\ work[w].at = "rows" /\ work[w].campaigns = {} /\ d \in work[w].ads
  /\ IF ads[d] = 0
     THEN /\ ads' = [ads EXCEPT ![d] = work[w].fetch]
          /\ work' = [work EXCEPT ![w].ads = @ \ {d}]
     ELSE /\ Refused(w)
          /\ UNCHANGED ads
  /\ UNCHANGED <<jobVars, queueVars, campaigns, raw, unsettled, importing, requests, fetches, faults>>

\* The provider or the database fails.
ExtractFails(w) ==
  /\ work[w].at \in {"fetch", "ads", "raw", "rows"}
  /\ Fault
  /\ work' = [work EXCEPT ![w].at = "failed", ![w].campaigns = {}, ![w].ads = {},
                       ![w].clean = {}]
  /\ UNCHANGED <<jobVars, queueVars, rowVars, importing, requests, fetches>>

\* Faulty variant: deliveries are not limited.
ReturnedAlways(k) == [queue EXCEPT ![k].free = TRUE]

\* The broker hands a message out again, or gives it up.
Returned(k) ==
  IF queue[k].left > 0 THEN [queue EXCEPT ![k].free = TRUE] ELSE [queue EXCEPT ![k] = NoMessage]

\* A worker lets go of its job, and of a message, without an outcome.
LetGo(w) ==
  IF work[w].message = 0
  THEN /\ UNCHANGED queue
       /\ dropped' = IF \E k \in Messages : queue[k].job = work[w].job THEN dropped
                     ELSE dropped \cup {work[w].job}
  ELSE LET k == work[w].message IN
    /\ queue' = Returned(k)
    /\ dropped' = IF queue[k].left > 0 THEN dropped ELSE dropped \cup {queue[k].job}

\* The last row is stored.
AllRowsStored(w) == work[w].at = "rows" /\ work[w].campaigns = {} /\ work[w].ads = {}

\* The job is completed and so is its message.
CompleteJob(w) ==
  /\ AllRowsStored(w)
  /\ jobs' = [jobs EXCEPT ![work[w].job].status = "completed"]
  /\ unsettled' = unsettled \ work[w].clean
  /\ work' = [work EXCEPT ![w] = NotWorking]
  /\ IF work[w].message # 0
     THEN queue' = [queue EXCEPT ![work[w].message] = NoMessage]
     ELSE UNCHANGED queue
  /\ UNCHANGED <<made, making, unsent, sent, dropped, campaigns, ads, raw, importing, requests, fetches, faults>>

\* The job is failed, and the error abandons the message.
FailJob(w) ==
  /\ work[w].at = "failed"
  /\ jobs' = [jobs EXCEPT ![work[w].job].status = "failed"]
  /\ unsettled' = unsettled \ work[w].clean
  /\ work' = [work EXCEPT ![w] = NotWorking]
  /\ queue' = IF work[w].message = 0 THEN queue ELSE Returned(work[w].message)
  /\ UNCHANGED <<made, making, unsent, sent, dropped, campaigns, ads, raw, importing, requests, fetches, faults>>

\* The lock lapses: the message goes back, the worker goes on.
LockLapses(w) ==
  /\ work[w].message # 0
  /\ Fault
  /\ LetGo(w)
  /\ work' = [work EXCEPT ![w].message = 0]
  /\ UNCHANGED <<jobVars, sent, rowVars, importing, requests, fetches>>

WorkerDies(w) ==
  /\ work[w].at # "idle"
  /\ Fault
  /\ LetGo(w)
  /\ work' = [work EXCEPT ![w] = NotWorking]
  /\ UNCHANGED <<jobVars, sent, rowVars, importing, requests, fetches>>

-----------------------------------------------------------------------------
(* importAdPerformanceCsv, for one day *)

\* The ad row is looked up.
ImportBegin(d) ==
  /\ importing.at = "idle"
  /\ requests < MaxRequests /\ requests' = requests + 1
  /\ fetches' = fetches + 1
  /\ importing' = [at |-> "ad", day |-> d, value |-> fetches + 1, found |-> ads[d],
                   clean |-> {d} \ UNION {work[v].clean \cup work[v].campaigns \cup work[v].ads : v \in Workers}]
  /\ work' = WithoutDays({d})
  /\ unsettled' = unsettled \cup {d}
  /\ UNCHANGED <<jobVars, queueVars, campaigns, ads, raw, faults>>

Imported(at) ==
  /\ importing' = IF at = "idle" THEN NotImporting ELSE [importing EXCEPT !.at = at]
  /\ unsettled' = IF at = "idle" THEN unsettled \ importing.clean ELSE unsettled

\* It is updated or inserted; the index refuses it when a row came meanwhile.
ImportAd ==
  /\ importing.at = "ad"
  /\ LET d == importing.day IN
       IF ads[d] \in {0, importing.found}
       THEN ads' = [ads EXCEPT ![d] = importing.value] /\ Imported("delete")
       ELSE Imported("idle") /\ UNCHANGED ads
  /\ UNCHANGED <<jobVars, queueVars, work, campaigns, raw, requests, fetches, faults>>

\* rebuildCampaignPerformanceFromAdRows
ImportDelete ==
  /\ importing.at = "delete"
  /\ campaigns' = [campaigns EXCEPT ![importing.day] = 0]
  /\ Imported("rebuild")
  /\ UNCHANGED <<jobVars, queueVars, work, ads, raw, requests, fetches, faults>>

ImportRebuild ==
  /\ importing.at = "rebuild"
  /\ LET d == importing.day IN
       campaigns' = IF campaigns[d] = 0 THEN [campaigns EXCEPT ![d] = ads[d]] ELSE campaigns
  /\ Imported("idle")
  /\ UNCHANGED <<jobVars, queueVars, work, ads, raw, requests, fetches, faults>>

ImportDies ==
  /\ importing.at # "idle"
  /\ Fault
  /\ importing' = NotImporting
  /\ UNCHANGED <<jobVars, queueVars, work, rowVars, requests, fetches>>

-----------------------------------------------------------------------------
Making(m) ==
  SaveJob(m) \/ PublishJob(m) \/ PublishFails(m) \/ \E w \in Workers : ProcessMade(m, w)

Progress(w) ==
  \/ \E k \in Messages : TakeMessage(w, k)
  \/ DeleteCampaignRows(w) \/ DeleteAdRows(w) \/ StoreRaw(w)
  \/ \E d \in Days : InsertCampaign(w, d) \/ InsertAd(w, d)
  \/ ExtractFails(w) \/ CompleteJob(w) \/ FailJob(w)

Next ==
  \/ \E m \in Makers :
       \/ \E d \in Days, q \in BOOLEAN : CreateDailyJob(m, d, q)
       \/ \E D \in SUBSET Days, q \in BOOLEAN : CreateManualJob(m, D, q)
       \/ ScheduleHourlyTodayJob(m)
       \/ Making(m)
  \/ \E j \in JobIds : EnqueueJob(j) \/ \E w \in Workers : ProcessAsked(w, j)
  \/ \E w \in Workers : Progress(w) \/ LockLapses(w) \/ WorkerDies(w)
  \/ \E d \in Days : ImportBegin(d)
  \/ ImportAd \/ ImportDelete \/ ImportRebuild \/ ImportDies

\* A process that began goes on, and the broker delivers what it holds.
Fairness ==
  /\ \A m \in Makers : WF_vars(Making(m))
  /\ \A w \in Workers : WF_vars(Progress(w))

Spec == Init /\ [][Next]_vars /\ Fairness

-----------------------------------------------------------------------------
(* Properties *)

\* The two tables agree about a day, from one fetch, unless it is being
\* rewritten, or was last rewritten by two at a time or by one that an error or
\* a crash cut off.  A job alone at its days is never refused by an index.
DayIsOneFetchUnlessCut ==
  \A d \in Days \ unsettled : campaigns[d] = ads[d]

\* A job that was published, or worked on at once, ends as completed or failed,
\* unless the broker gave one of its messages up or the process died with it.  One
\* that was saved and not taken on waits for somebody to ask for it again, because
\* the hourly run skips it.
EndsUnlessUnsent ==
  \A j \in JobIds :
    <>[](jobs[j].status \in {"none", "completed", "failed"} \/ j \in unsent \cup dropped)

=============================================================================
