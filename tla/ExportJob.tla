------------------------------ MODULE ExportJob ------------------------------
(***************************************************************************)
(* The capture export (src/src/capture/capture.service.ts, its consumer    *)
(* and its storage): the API saves a job and publishes its id, handlers of *)
(* the export worker claim the job under a lease, write the file and       *)
(* record it, and a periodic recovery re-queues what was abandoned.        *)
(*                                                                         *)
(* Time is a tick.  Only the time since a job's last sign of life matters  *)
(* (COALESCE(heartbeat_at, started_at, created_at)), so the clock is kept  *)
(* as an age per job that stops growing at StaleAfter.                     *)
(* lease_token is a fresh UUID per call of processExportJob; only claimed  *)
(* tokens are ever compared, so the number of the claimed attempt stands   *)
(* for it.                                                                 *)
(***************************************************************************)
EXTENDS Integers, FiniteSets

CONSTANTS
  NJobs,          \* jobs that may be requested, numbered in creation order
  Handlers,       \* message-handler slots: consumer processes x concurrency
  MaxAttempts,    \* attempt_count limit (3)
  PendingAfter,   \* ticks until a pending job counts as forgotten (1 minute)
  StaleAfter,     \* ticks until a silent attempt counts as dead (5 minutes)
  RecoverLimit,   \* rows one recovery pass reads (10)
  MaxQueued,      \* bound: messages counted per job, more are not told apart
  MaxFaults       \* bound: crashes, lost locks and database errors

ASSUME ExportConstants ==
  /\ NJobs \in Nat \ {0}
  /\ MaxAttempts \in Nat \ {0}
  /\ PendingAfter \in Nat \ {0}
  /\ StaleAfter \in Nat \ {0}
  /\ PendingAfter <= StaleAfter
  /\ RecoverLimit \in Nat \ {0}
  /\ MaxQueued \in Nat \ {0}
  /\ MaxFaults \in Nat

Jobs == 1..NJobs
NoJob == 0
NoToken == 0
Tokens == 1..MaxAttempts

VARIABLES
  \* the capture_export_job table
  status, phase, lease, attempts, age, file,
  \* the storage and the queue
  blobs, queue,
  \* one slot per concurrent processMessage call
  pc, job, token, lost, held,
  \* the recovery pass, the deployment mode and the fault budget
  todo, busEnabled, faults

table == <<status, phase, lease, attempts, age, file>>
slots == <<pc, job, token, lost, held>>
env   == <<busEnabled, faults>>
vars  == <<table, blobs, queue, slots, todo, env>>

-----------------------------------------------------------------------------
(* Types *)

Statuses == {"none", "pending", "processing", "completed", "failed"}
Phases == {"none", "queued", "counting", "preparing", "exporting",
           "finalizing", "uploading", "completed", "failed"}
\* Where a slot may stand while the heartbeat timer of its attempt runs.
Working == {"counting", "preparing", "exporting", "finalizing", "stored",
            "uploading", "uploaded"}
\* Where the file of an attempt is in the storage.
Kept == {"stored", "uploaded"}
Slots == Working \cup {"idle", "claim", "failing", "ack"}

\* What a recovery pass remembers of a row it read.
Snapshot == [job : Jobs, status : Statuses, attempts : 0..MaxAttempts]

RowsTyped ==
  /\ status \in [Jobs -> Statuses]
  /\ phase \in [Jobs -> Phases]
  /\ lease \in [Jobs -> {NoToken} \cup Tokens]
  /\ attempts \in [Jobs -> 0..MaxAttempts]
  /\ age \in [Jobs -> 0..StaleAfter]
  /\ file \in [Jobs -> {NoToken} \cup Tokens]

SlotsTyped ==
  /\ pc \in [Handlers -> Slots]
  /\ job \in [Handlers -> {NoJob} \cup Jobs]
  /\ token \in [Handlers -> {NoToken} \cup Tokens]
  /\ lost \in [Handlers -> BOOLEAN]
  /\ held \in [Handlers -> BOOLEAN]

TypeOK ==
  /\ RowsTyped
  /\ SlotsTyped
  /\ blobs \in SUBSET (Jobs \X Tokens)
  /\ queue \in [Jobs -> 0..MaxQueued]
  /\ todo \in SUBSET Snapshot
  /\ busEnabled \in BOOLEAN
  /\ faults \in 0..MaxFaults

Init ==
  /\ status = [j \in Jobs |-> "none"]
  /\ phase = [j \in Jobs |-> "none"]
  /\ lease = [j \in Jobs |-> NoToken]
  /\ attempts = [j \in Jobs |-> 0]
  /\ age = [j \in Jobs |-> 0]
  /\ file = [j \in Jobs |-> NoToken]
  /\ blobs = {}
  /\ queue = [j \in Jobs |-> 0]
  /\ pc = [h \in Handlers |-> "idle"]
  /\ job = [h \in Handlers |-> NoJob]
  /\ token = [h \in Handlers |-> NoToken]
  /\ lost = [h \in Handlers |-> FALSE]
  /\ held = [h \in Handlers |-> FALSE]
  /\ todo = {}
  /\ busEnabled \in BOOLEAN
  /\ faults = 0

-----------------------------------------------------------------------------
(* Helpers *)

Settled(j) == status[j] \in {"completed", "failed"}

Stale(j) == age[j] = StaleAfter

\* Faulty variant: no limit on attempts.
ClaimableUnlimited(j) ==
  \/ status[j] = "pending"
  \/ status[j] = "processing" /\ Stale(j)

\* Faulty variant: takes over without waiting for the lease to go stale.
ClaimableEager(j) ==
  status[j] \in {"pending", "processing"} /\ attempts[j] < MaxAttempts

\* The WHERE of the claiming UPDATE.
Claimable(j) ==
  /\ \/ status[j] = "pending"
     \/ status[j] = "processing" /\ Stale(j)
  /\ attempts[j] < MaxAttempts

\* Faulty variant: the token is not compared.
OwnsAnyToken(h) == status[job[h]] = "processing"

\* Faulty variant: the status is not compared.
OwnsAnyStatus(h) == lease[job[h]] = token[h]

\* The WHERE of every update an attempt makes to its job.
Owns(h) ==
  /\ lease[job[h]] = token[h]
  /\ status[job[h]] = "processing"

\* A message more for j; MaxQueued stands for "that many or more".
Enqueued(j) ==
  [queue EXCEPT ![j] = IF @ < MaxQueued THEN @ + 1 ELSE MaxQueued]

Goto(h, where) == pc' = [pc EXCEPT ![h] = where]

\* The slot is free again.
Release(h) ==
  /\ Goto(h, "idle")
  /\ job' = [job EXCEPT ![h] = NoJob]
  /\ token' = [token EXCEPT ![h] = NoToken]
  /\ lost' = [lost EXCEPT ![h] = FALSE]
  /\ held' = [held EXCEPT ![h] = FALSE]

Fault ==
  /\ faults < MaxFaults
  /\ faults' = faults + 1
  /\ UNCHANGED busEnabled

\* The row of j takes a new status and phase.
SetJob(j, newStatus, newPhase) ==
  /\ status' = [status EXCEPT ![j] = newStatus]
  /\ phase' = [phase EXCEPT ![j] = newPhase]

\* After an UPDATE that took effect the attempt goes on to `next`, or to the
\* catch block when the answer of the database never arrives.
Answered(h, next) == Goto(h, next) \/ Goto(h, "failing")

\* updateOwned: with the lease, `write` and a heartbeat; without it, the
\* attempt is marked lost and its next stop is the catch block.
UpdateOwned(h, write, next) ==
  \/ /\ ~lost[h] /\ Owns(h)
     /\ write
     /\ age' = [age EXCEPT ![job[h]] = 0]
     /\ Answered(h, next)
     /\ UNCHANGED lost
  \/ /\ lost[h] \/ ~Owns(h)
     /\ lost' = [lost EXCEPT ![h] = TRUE]
     /\ Goto(h, "failing")
     /\ UNCHANGED <<status, phase, age, file>>

-----------------------------------------------------------------------------
(* The API *)

Saved(j) ==
  /\ status[j] = "none"
  /\ \A k \in Jobs : k < j => status[k] # "none"
  /\ SetJob(j, "pending", "queued")
  /\ age' = [age EXCEPT ![j] = 0]
  /\ UNCHANGED <<lease, attempts, file, blobs, todo>>

\* createExportJob with Service Bus: the row is saved, then published; the
\* publication may fail, or the process die, between the two.
CreateAndPublish(j) ==
  /\ busEnabled
  /\ Saved(j)
  /\ \/ queue' = Enqueued(j) /\ UNCHANGED env
     \/ Fault /\ UNCHANGED queue
  /\ UNCHANGED slots

\* createExportJob without Service Bus: processed in this process, unawaited.
CreateAndProcess(j, h) ==
  /\ ~busEnabled
  /\ pc[h] = "idle"
  /\ Saved(j)
  /\ Goto(h, "claim")
  /\ job' = [job EXCEPT ![h] = j]
  /\ UNCHANGED <<token, lost, held, queue, env>>

-----------------------------------------------------------------------------
(* The worker *)

\* The broker hands a message to a free slot, whose handler reads the job.
Deliver(h, j) ==
  /\ pc[h] = "idle"
  /\ queue[j] > 0
  /\ queue' = [queue EXCEPT ![j] = @ - 1]
  /\ Goto(h, "claim")
  /\ job' = [job EXCEPT ![h] = j]
  /\ held' = [held EXCEPT ![h] = TRUE]
  /\ UNCHANGED <<table, blobs, token, lost, todo, env>>

\* The claiming UPDATE; a job that is not claimable is ignored and its
\* message completed.
Claim(h) ==
  LET j == job[h] IN
  /\ pc[h] = "claim"
  /\ \/ /\ Claimable(j)
        /\ SetJob(j, "processing", "counting")
        /\ attempts' = [attempts EXCEPT ![j] = @ + 1]
        /\ lease' = [lease EXCEPT ![j] = attempts[j] + 1]
        /\ token' = [token EXCEPT ![h] = attempts[j] + 1]
        /\ age' = [age EXCEPT ![j] = 0]
        /\ Answered(h, "counting")
     \/ /\ ~Claimable(j)
        /\ Goto(h, "ack")
        /\ UNCHANGED <<status, phase, attempts, lease, age, token>>
  /\ UNCHANGED <<file, blobs, queue, job, lost, held, todo, env>>

\* The claiming UPDATE throws: the catch block matches no row, the error is
\* swallowed and the message completed, the job untouched.
ClaimThrows(h) ==
  /\ pc[h] = "claim"
  /\ Fault
  /\ Goto(h, "ack")
  /\ UNCHANGED <<table, blobs, queue, job, token, lost, held, todo>>

\* The phase an attempt announces next.
Following == [counting |-> "preparing", preparing |-> "exporting",
              exporting |-> "finalizing", finalizing |-> "uploading"]

\* The attempt moves on to its next phase.
Advance(h) ==
  /\ pc[h] \in DOMAIN Following
  /\ UpdateOwned(h, /\ SetJob(job[h], "processing", Following[pc[h]])
                    /\ UNCHANGED file,
                 Following[pc[h]])
  /\ UNCHANGED <<lease, attempts, blobs, queue, job, token, held, todo, env>>

\* onProgress after each batch of rows.
Progress(h) ==
  /\ pc[h] = "exporting"
  /\ UpdateOwned(h, /\ SetJob(job[h], "processing", "exporting")
                    /\ UNCHANGED file,
                 "exporting")
  /\ UNCHANGED <<lease, attempts, blobs, queue, job, token, held, todo, env>>

\* Without a blob client the finished local file is the storage, and no
\* uploading phase is announced.  The deployment decides; here each attempt.
StoreLocally(h) ==
  /\ pc[h] = "finalizing"
  /\ blobs' = blobs \cup {<<job[h], token[h]>>}
  /\ Goto(h, "stored")
  /\ UNCHANGED <<table, queue, job, token, lost, held, todo, env>>

\* The file, whose name carries job and token, reaches the blob storage.
Upload(h) ==
  /\ pc[h] = "uploading"
  /\ blobs' = blobs \cup {<<job[h], token[h]>>}
  /\ Goto(h, "uploaded")
  /\ UNCHANGED <<table, queue, job, token, lost, held, todo, env>>

\* The final updateOwned: the job is completed and points at the file.
Complete(h) ==
  /\ pc[h] \in Kept
  /\ UpdateOwned(h, /\ SetJob(job[h], "completed", "completed")
                    /\ file' = [file EXCEPT ![job[h]] = token[h]],
                 "ack")
  /\ UNCHANGED <<lease, attempts, blobs, queue, job, token, held, todo, env>>

\* Any step of the attempt raises: a bad filter, the disk, the database.
WorkThrows(h) ==
  /\ pc[h] \in Working
  /\ Goto(h, "failing")
  /\ UNCHANGED <<table, blobs, queue, job, token, lost, held, todo, env>>

\* Faulty variant: the catch block updates the row by id alone.
MarkFailedUnowned(h) ==
  /\ pc[h] = "failing"
  /\ SetJob(job[h], "failed", "failed")
  /\ Goto(h, "ack")
  /\ UNCHANGED <<lease, attempts, age, file, blobs, queue, job, token, lost,
                 held, todo, env>>

\* The catch block: the job fails if the attempt still owns it.
MarkFailed(h) ==
  /\ pc[h] = "failing"
  /\ \/ Owns(h) /\ SetJob(job[h], "failed", "failed")
     \/ ~Owns(h) /\ UNCHANGED <<status, phase>>
  /\ Goto(h, "ack")
  /\ UNCHANGED <<lease, attempts, age, file, blobs, queue, job, token, lost,
                 held, todo, env>>

\* completeMessage after the handler returned; a lapsed lock changes nothing.
Ack(h) ==
  /\ pc[h] = "ack"
  /\ Release(h)
  /\ UNCHANGED <<table, blobs, queue, todo, env>>

\* The 15 s timer of a running attempt.
Heartbeat(h) ==
  /\ pc[h] \in Working
  /\ ~lost[h]
  /\ \/ Owns(h) /\ age' = [age EXCEPT ![job[h]] = 0] /\ UNCHANGED lost
     \/ ~Owns(h) /\ lost' = [lost EXCEPT ![h] = TRUE] /\ UNCHANGED age
  /\ UNCHANGED <<status, phase, lease, attempts, file, blobs, queue, pc, job,
                 token, held, todo, env>>

\* A heartbeat whose UPDATE raises gives the lease up for good.
HeartbeatThrows(h) ==
  /\ pc[h] \in Working
  /\ Fault
  /\ lost' = [lost EXCEPT ![h] = TRUE]
  /\ UNCHANGED <<table, blobs, queue, pc, job, token, held, todo>>

\* The process dies, or the handler itself throws because the UPDATE of its
\* catch block does: the message comes back, or is dead-lettered when its
\* deliveries are used up.
Crash(h) ==
  /\ pc[h] # "idle"
  /\ Fault
  /\ Release(h)
  /\ \/ held[h] /\ queue' = Enqueued(job[h])
     \/ UNCHANGED queue
  /\ UNCHANGED <<table, blobs, todo>>

\* The peek-lock lapses under a running handler: the broker delivers again.
LockLapses(h) ==
  /\ held[h]
  /\ Fault
  /\ held' = [held EXCEPT ![h] = FALSE]
  /\ queue' = Enqueued(job[h])
  /\ UNCHANGED <<table, blobs, pc, job, token, lost, todo>>

-----------------------------------------------------------------------------
(* Recovery, every minute and at start, never twice at once *)

\* Faulty variant: silent attempts are not looked for.
AbandonedPending == {j \in Jobs : status[j] = "pending" /\ age[j] >= PendingAfter}

\* The rows a pass reads: the oldest RecoverLimit that look abandoned.
Abandoned ==
  {j \in Jobs : \/ status[j] = "pending" /\ age[j] >= PendingAfter
                \/ status[j] = "processing" /\ Stale(j)}

Selected ==
  {j \in Abandoned : Cardinality({k \in Abandoned : k < j}) < RecoverLimit}

RecoverStart ==
  /\ busEnabled
  /\ todo = {}
  /\ todo' = {[job |-> j, status |-> status[j], attempts |-> attempts[j]] :
                j \in Selected}
  /\ UNCHANGED <<table, blobs, queue, slots, env>>

\* The rows are handled oldest first.
Oldest(r) == r \in todo /\ \A s \in todo : r.job <= s.job

RecoverRequeue(r) ==
  /\ Oldest(r)
  /\ r.attempts < MaxAttempts
  /\ queue' = Enqueued(r.job)
  /\ todo' = todo \ {r}
  /\ UNCHANGED <<table, blobs, slots, env>>

\* Faulty variant: the UPDATE trusts the age the pass had read.
RecoverGiveUpUnchecked(r) ==
  /\ Oldest(r)
  /\ r.attempts >= MaxAttempts
  /\ \/ status[r.job] = r.status /\ SetJob(r.job, "failed", "failed")
     \/ status[r.job] # r.status /\ UNCHANGED <<status, phase>>
  /\ todo' = todo \ {r}
  /\ UNCHANGED <<lease, attempts, age, file, blobs, queue, slots, env>>

\* The UPDATE that gives a job up checks again what the pass had read.
RecoverGiveUp(r) ==
  /\ Oldest(r)
  /\ r.attempts >= MaxAttempts
  /\ \/ status[r.job] = r.status /\ Stale(r.job)
        /\ SetJob(r.job, "failed", "failed")
     \/ ~(status[r.job] = r.status /\ Stale(r.job))
        /\ UNCHANGED <<status, phase>>
  /\ todo' = todo \ {r}
  /\ UNCHANGED <<lease, attempts, age, file, blobs, queue, slots, env>>

\* A statement or a publication of the pass raises, or its process dies.
RecoverThrows ==
  /\ todo # {}
  /\ Fault
  /\ todo' = {}
  /\ UNCHANGED <<table, blobs, queue, slots>>

Recover == RecoverStart \/ \E r \in todo : RecoverRequeue(r) \/ RecoverGiveUp(r)

-----------------------------------------------------------------------------

\* Time passes for every job at once.
Tick ==
  /\ age' = [j \in Jobs |-> IF age[j] < StaleAfter THEN age[j] + 1 ELSE age[j]]
  /\ UNCHANGED <<status, phase, lease, attempts, file, blobs, queue, slots,
                 todo, env>>

\* What a running handler does by itself.
HandlerStep(h) ==
  \/ Claim(h) \/ Advance(h) \/ StoreLocally(h) \/ Upload(h)
  \/ Complete(h) \/ MarkFailed(h) \/ Ack(h)

Api == \E j \in Jobs : CreateAndPublish(j) \/ \E h \in Handlers : CreateAndProcess(j, h)

Worker ==
  \E h \in Handlers :
    \/ \E j \in Jobs : Deliver(h, j)
    \/ HandlerStep(h)
    \/ Progress(h)
    \/ Heartbeat(h)
    \/ WorkThrows(h)
    \/ ClaimThrows(h) \/ HeartbeatThrows(h) \/ Crash(h) \/ LockLapses(h)

Next == Api \/ Worker \/ Recover \/ RecoverThrows \/ Tick

\* Handlers run, the broker delivers, the recovery timer fires and time
\* passes.  Nothing forces a client to request an export.
Fairness ==
  /\ \A h \in Handlers : WF_vars(HandlerStep(h))
  /\ \A j \in Jobs : SF_vars(\E h \in Handlers : Deliver(h, j))
  /\ WF_vars(Recover)
  /\ WF_vars(Tick)

Spec == Init /\ [][Next]_vars
FairSpec == Spec /\ Fairness

-----------------------------------------------------------------------------
(* Properties *)

\* A completed job serves the file of the attempt that holds its lease, and
\* that file is in the storage: a superseded attempt can neither complete the
\* job nor replace its file, and no job completes before its file is stored.
CompletedFileOwned ==
  \A j \in Jobs :
    /\ status[j] = "completed" => /\ file[j] = lease[j]
                                  /\ <<j, file[j]>> \in blobs
    /\ status[j] # "completed" => file[j] = NoToken

\* An attempt that has given a sign of life within StaleAfter keeps its lease:
\* neither a duplicate delivery nor a recovery pass, however old the rows it
\* read, takes the job over or fails it under a live attempt.
LiveAttemptKeepsJob ==
  [][\A h \in Handlers :
       pc[h] \in Working /\ Owns(h) /\ ~Stale(job[h])
         => /\ lease'[job[h]] = token[h]
            /\ status'[job[h]] # "failed"]_vars

PhaseRank ==
  [none |-> 0, queued |-> 1, counting |-> 2, preparing |-> 3, exporting |-> 4,
   finalizing |-> 5, uploading |-> 6, completed |-> 7, failed |-> 8]

\* The phase a client polls only moves forward while one attempt holds the
\* lease: a superseded attempt that wakes up cannot set it back.
PhaseOnlyAdvances ==
  [][\A j \in Jobs :
       lease'[j] = lease[j] => PhaseRank[phase[j]] <= PhaseRank[phase'[j]]]_vars

\* A completed or failed job is never touched again, by late attempts,
\* duplicate messages or recovery.
SettledIsFinal ==
  [][\A j \in Jobs :
       Settled(j) => /\ status'[j] = status[j]
                     /\ file'[j] = file[j]
                     /\ lease'[j] = lease[j]]_vars

\* A job only moves forward, whichever attempts, duplicate messages or recovery
\* passes wake up late: phase by phase within a lease, and no more once it ended.
JobOnlyAdvances == PhaseOnlyAdvances /\ SettledIsFinal

\* A job fails for one of two reasons: the attempt that owns it reports an
\* error, or all its attempts were used and the last one is silent.
FailedForCause ==
  [][\A j \in Jobs :
       status[j] # "failed" /\ status'[j] = "failed"
         => \/ \E h \in Handlers : pc[h] = "failing" /\ job[h] = j /\ Owns(h)
            \/ attempts[j] = MaxAttempts /\ Stale(j)]_vars

\* With Service Bus every requested export ends, whichever handlers crash,
\* locks lapse, messages are dead-lettered or publications fail on the way.
EveryExportSettles ==
  \A j \in Jobs : busEnabled /\ status[j] = "pending" ~> Settled(j)

Lifecycle ==
  INSTANCE ExportLifecycle WITH state <- status, begun <- attempts, result <- file

\* The lease protocol implements what the export promises.
ImplementsLifecycle == Lifecycle!Spec
==============================================================================
