---------------------------- MODULE MetaBulkJobs ----------------------------
(***************************************************************************)
(* The executions of a synchronisation with Meta Ads.  A direct one fetches*)
(* and stores within the request; a bulk one has Meta start a report job   *)
(* per account and period, saves the jobs in its row, and from then on is  *)
(* looked after by a poller that runs in every replica every 30 seconds.   *)
(*                                                                         *)
(* Nobody locks the row: whoever read it saves all of it later, over what  *)
(* others saved in between.                                                *)
(***************************************************************************)
EXTENDS Integers, FiniteSets

CONSTANTS
  Replicas,        \* processes of the API
  Execs,           \* ids of executions
  Jobs,            \* report jobs of a bulk execution
  MaxRejects,      \* bound: requests to Meta that fail and are tried again
  MaxCrashes,      \* bound: restarts of a replica
  MaxAborts,       \* bound: requests to abort
  NoExec, NoPoll, NoAbort

VARIABLES
  exec,            \* the table of executions
  starter,         \* what the process that created an execution does for it
  remote,          \* the jobs at Meta
  stored,          \* jobs whose rows are in the performance table
  poll,            \* what each replica's poller does for each execution
  abortRequests,   \* the set of that name, in the memory of each replica
  aborting,        \* the abort in progress for each execution
  asked,           \* executions somebody asked to abort
  contended,       \* executions of which two copies were held at a time
  rejects, crashes, aborts

vars == <<exec, starter, remote, stored, poll, abortRequests, aborting, asked,
          contended, rejects, crashes, aborts>>

Total == Cardinality(Jobs)
Terminal == {"completed", "failed", "partial", "aborted"}

Row == [status : Terminal \cup {"running"}, pending : SUBSET Jobs, done : 0..Total,
        failed : 0..Total, records : 0..Total]
Starter == [at : {"none", "queued", "starting", "direct", "over", "dead"},
            replica : Replicas]
Poll == [row : Row, left : SUBSET Jobs, still : SUBSET Jobs, done : 0..Total,
         failed : 0..Total, records : 0..Total]

TypeOK ==
  /\ exec \in [Execs -> Row \cup {NoExec}]
  /\ starter \in [Execs -> Starter]
  /\ remote \in [Execs -> [Jobs -> {"none", "running", "complete", "failed"}]]
  /\ stored \in [Execs -> SUBSET Jobs]
  /\ poll \in [Replicas -> [Execs -> Poll \cup {NoPoll}]]
  /\ abortRequests \in [Replicas -> SUBSET Execs]
  /\ aborting \in [Execs -> [row : Row, replica : Replicas] \cup {NoAbort}]
  /\ asked \subseteq Execs /\ contended \subseteq Execs
  /\ rejects \in 0..MaxRejects /\ crashes \in 0..MaxCrashes /\ aborts \in 0..MaxAborts
  /\ \A e \in Execs : exec[e] = NoExec <=> starter[e].at = "none"

Init ==
  /\ exec = [e \in Execs |-> NoExec]
  /\ starter \in [Execs -> [at : {"none"}, replica : {CHOOSE r \in Replicas : TRUE}]]
  /\ remote = [e \in Execs |-> [j \in Jobs |-> "none"]]
  /\ stored = [e \in Execs |-> {}]
  /\ poll = [r \in Replicas |-> [e \in Execs |-> NoPoll]]
  /\ abortRequests = [r \in Replicas |-> {}]
  /\ aborting = [e \in Execs |-> NoAbort]
  /\ asked = {} /\ contended = {}
  /\ rejects = 0 /\ crashes = 0 /\ aborts = 0

-----------------------------------------------------------------------------
(* Rows *)

Started == [status |-> "running", pending |-> {}, done |-> 0, failed |-> 0,
            records |-> 0]

\* A save writes the whole row.
Save(e, row) == exec' = [exec EXCEPT ![e] = row]

\* Somebody holds a copy of the row that will be saved.
Held(e) ==
  \/ starter[e].at \in {"queued", "starting", "direct"}
  \/ aborting[e] # NoAbort
  \/ \E r \in Replicas : poll[r][e] # NoPoll

\* A second copy is read.
Contend(e) == contended' = IF Held(e) THEN contended \cup {e} ELSE contended

\* Faulty variant: failures do not matter for the outcome.
OutcomeLenient(failed, records) == IF records > 0 \/ failed = 0 THEN "completed" ELSE "failed"

Outcome(failed, records) ==
  IF failed = 0 THEN "completed" ELSE IF records > 0 THEN "partial" ELSE "failed"

\* Faulty variant: the failures are counted among the jobs done once more.
FinalizedTwice(failed, records, wasAborted) ==
  [Started EXCEPT !.status = IF wasAborted THEN "aborted" ELSE Outcome(failed, records),
                  !.done = Total + failed, !.failed = failed, !.records = records]

\* The row finalizeExecution saves.
Finalized(failed, records, wasAborted) ==
  [Started EXCEPT !.status = IF wasAborted THEN "aborted" ELSE Outcome(failed, records),
                  !.done = Total - failed, !.failed = failed, !.records = records]

At(e, s) == starter' = [starter EXCEPT ![e].at = s]

-----------------------------------------------------------------------------
(* Direct executions: campaigns, adsets, ads, insights *)

\* startExecution, within syncCampaigns, syncAdsets, syncAds and syncInsights
StartDirect(r, e) ==
  /\ exec[e] = NoExec
  /\ exec' = [exec EXCEPT ![e] = Started]
  /\ starter' = [starter EXCEPT ![e] = [at |-> "direct", replica |-> r]]
  /\ UNCHANGED <<contended, remote, stored, poll, abortRequests, aborting, asked, rejects, crashes, aborts>>

\* finishExecution, after everything was fetched and stored or something threw
FinishDirect(e, ok) ==
  /\ starter[e].at = "direct"
  /\ Save(e, [Started EXCEPT !.status = IF ok THEN "completed" ELSE "failed",
                             !.records = IF ok THEN Total ELSE 0])
  /\ stored' = [stored EXCEPT ![e] = IF ok THEN Jobs ELSE @]
  /\ At(e, "over")
  /\ UNCHANGED <<contended, remote, poll, abortRequests, aborting, asked, rejects, crashes, aborts>>

-----------------------------------------------------------------------------
(* Bulk executions: phase 1, in the process that got the request *)

\* enqueueInsightsBulkAsync
EnqueueBulk(r, e) ==
  /\ exec[e] = NoExec
  /\ exec' = [exec EXCEPT ![e] = Started]
  /\ starter' = [starter EXCEPT ![e] = [at |-> "queued", replica |-> r]]
  /\ UNCHANGED <<contended, remote, stored, poll, abortRequests, aborting, asked, rejects, crashes, aborts>>

\* runBulkAsyncInsights saves its own copy of the row before it starts the jobs.
BeginPhase1(e) ==
  /\ starter[e].at = "queued"
  /\ Save(e, Started)
  /\ At(e, "starting")
  /\ UNCHANGED <<contended, remote, stored, poll, abortRequests, aborting, asked, rejects, crashes, aborts>>

\* Faulty variant: the jobs Meta started are not saved.
AfterStartUnsaved(lost) ==
  [Started EXCEPT !.done = Cardinality(lost), !.failed = Cardinality(lost)]

\* The row with the jobs Meta started; the others count as done and failed.
AfterStart(lost) ==
  [Started EXCEPT !.pending = Jobs \ lost, !.done = Cardinality(lost),
                  !.failed = Cardinality(lost)]

\* All jobs were sent to Meta, which refused those in lost.  An execution with
\* no job, or one this process was asked to abort, ends as aborted.
EndPhase1(e, lost) ==
  /\ starter[e].at = "starting"
  /\ LET r == starter[e].replica IN
       IF lost = Jobs \/ e \in abortRequests[r]
       THEN /\ abortRequests' = [abortRequests EXCEPT ![r] = @ \ {e}]
            /\ Save(e, Finalized(Cardinality(lost), 0, TRUE))
       ELSE Save(e, AfterStart(lost)) /\ UNCHANGED abortRequests
  /\ remote' = [remote EXCEPT ![e] = [j \in Jobs |-> IF j \in lost THEN "none" ELSE "running"]]
  /\ At(e, "over")
  /\ UNCHANGED <<contended, stored, poll, aborting, asked, rejects, crashes, aborts>>

\* Meta finishes a job.
Settle(e, j, s) ==
  /\ remote[e][j] = "running"
  /\ s \in {"complete", "failed"}
  /\ remote' = [remote EXCEPT ![e][j] = s]
  /\ UNCHANGED <<contended, exec, starter, stored, poll, abortRequests, aborting, asked, rejects, crashes, aborts>>

-----------------------------------------------------------------------------
(* Bulk executions: the pollers *)

\* Faulty variant: the records are counted from zero on each pass.
CopyRestarted(row) ==
  [row |-> row, left |-> row.pending, still |-> {}, done |-> row.done,
   failed |-> row.failed, records |-> 0]

\* processPendingJobs goes on from the counts of the row.
CopyOf(row) ==
  [row |-> row, left |-> row.pending, still |-> {}, done |-> row.done,
   failed |-> row.failed, records |-> row.records]

\* pollRunningBulkJobs: running, with pending jobs, and not polled by this
\* process already.
PollRead(r, e) ==
  /\ exec[e] # NoExec
  /\ exec[e].status = "running" /\ exec[e].pending # {}
  /\ poll[r][e] = NoPoll
  /\ poll' = [poll EXCEPT ![r][e] = CopyOf(exec[e])]
  /\ Contend(e)
  /\ UNCHANGED <<exec, starter, remote, stored, abortRequests, aborting, asked, rejects, crashes, aborts>>

Polling(r, e, j) == poll[r][e] # NoPoll /\ j \in poll[r][e].left

\* The job is complete and its rows are stored.
PollStored(r, e, j) ==
  /\ Polling(r, e, j) /\ remote[e][j] = "complete"
  /\ stored' = [stored EXCEPT ![e] = @ \cup {j}]
  /\ poll' = [poll EXCEPT ![r][e].left = @ \ {j}, ![r][e].done = @ + 1,
                          ![r][e].records = @ + 1]
  /\ UNCHANGED <<contended, exec, starter, remote, abortRequests, aborting, asked, rejects, crashes, aborts>>

\* The job failed at Meta, or its results could not be fetched or stored.
PollFailed(r, e, j) ==
  /\ Polling(r, e, j)
  /\ \/ remote[e][j] = "failed" /\ UNCHANGED rejects
     \/ /\ remote[e][j] = "complete"
        /\ rejects < MaxRejects /\ rejects' = rejects + 1
  /\ poll' = [poll EXCEPT ![r][e].left = @ \ {j}, ![r][e].done = @ + 1,
                          ![r][e].failed = @ + 1]
  /\ UNCHANGED <<contended, exec, starter, remote, stored, abortRequests, aborting, asked, crashes, aborts>>

\* The job still runs, or Meta could not be asked.
PollWait(r, e, j) ==
  /\ Polling(r, e, j)
  /\ \/ remote[e][j] = "running" /\ UNCHANGED rejects
     \/ /\ remote[e][j] # "running"
        /\ rejects < MaxRejects /\ rejects' = rejects + 1
  /\ poll' = [poll EXCEPT ![r][e].left = @ \ {j}, ![r][e].still = @ \cup {j}]
  /\ UNCHANGED <<contended, exec, starter, remote, stored, abortRequests, aborting, asked, crashes, aborts>>

\* Every pending job was looked at: the copy is saved, or finalised.
PollSave(r, e) ==
  /\ poll[r][e] # NoPoll /\ poll[r][e].left = {}
  /\ LET p == poll[r][e] IN
       Save(e, IF p.still = {} THEN Finalized(p.failed, p.records, FALSE)
               ELSE [p.row EXCEPT !.pending = p.still, !.done = p.done,
                                  !.failed = p.failed, !.records = p.records])
  /\ poll' = [poll EXCEPT ![r][e] = NoPoll]
  /\ UNCHANGED <<contended, starter, remote, stored, abortRequests, aborting, asked, rejects, crashes, aborts>>

-----------------------------------------------------------------------------
(* Aborts and crashes *)

\* abortExecution reads the row, and leaves a finished one alone ...
AbortRead(r, e) ==
  /\ aborts < MaxAborts /\ aborts' = aborts + 1
  /\ exec[e] # NoExec /\ exec[e].status = "running" /\ aborting[e] = NoAbort
  /\ abortRequests' = [abortRequests EXCEPT ![r] = @ \cup {e}]
  /\ asked' = asked \cup {e}
  /\ Contend(e)
  /\ aborting' = [aborting EXCEPT ![e] = [row |-> exec[e], replica |-> r]]
  /\ UNCHANGED <<exec, starter, remote, stored, poll, rejects, crashes>>

\* ... and saves what it read, as aborted.
AbortSave(e) ==
  /\ aborting[e] # NoAbort
  /\ Save(e, [aborting[e].row EXCEPT !.status = "aborted"])
  /\ aborting' = [aborting EXCEPT ![e] = NoAbort]
  /\ UNCHANGED <<contended, starter, remote, stored, poll, abortRequests, asked, rejects, crashes, aborts>>

\* What a process had in memory is gone.
Crash(r) ==
  /\ crashes < MaxCrashes /\ crashes' = crashes + 1
  /\ starter' = [e \in Execs |->
       IF starter[e].replica = r /\ starter[e].at \in {"queued", "starting", "direct"}
       THEN [starter[e] EXCEPT !.at = "dead"] ELSE starter[e]]
  /\ poll' = [poll EXCEPT ![r] = [e \in Execs |-> NoPoll]]
  /\ abortRequests' = [abortRequests EXCEPT ![r] = {}]
  /\ aborting' = [e \in Execs |->
       IF aborting[e] # NoAbort /\ aborting[e].replica = r THEN NoAbort ELSE aborting[e]]
  /\ UNCHANGED <<contended, exec, remote, stored, asked, rejects, aborts>>

-----------------------------------------------------------------------------
Poller(r, e) ==
  PollRead(r, e) \/ (\E j \in Jobs : PollStored(r, e, j) \/ PollFailed(r, e, j) \/ PollWait(r, e, j))
    \/ PollSave(r, e)

Starts(e) == BeginPhase1(e) \/ (\E lost \in SUBSET Jobs : EndPhase1(e, lost))
               \/ (\E ok \in BOOLEAN : FinishDirect(e, ok))

Meta(e) == \E j \in Jobs, s \in {"complete", "failed"} : Settle(e, j, s)

Next ==
  \/ \E e \in Execs :
       \/ \E r \in Replicas : StartDirect(r, e) \/ EnqueueBulk(r, e) \/ Poller(r, e) \/ AbortRead(r, e)
       \/ Starts(e) \/ Meta(e) \/ AbortSave(e)
  \/ \E r \in Replicas : Crash(r)

\* A process goes on with what it began, the interval of each poller comes
\* round, and Meta settles every job.
Fairness ==
  \A e \in Execs :
    /\ WF_vars(Starts(e)) /\ WF_vars(Meta(e)) /\ WF_vars(AbortSave(e))
    /\ \A r \in Replicas : WF_vars(Poller(r, e))

Spec == Init /\ [][Next]_vars /\ Fairness

-----------------------------------------------------------------------------
(* Properties *)

AnyStarted(e) == remote[e] # [j \in Jobs |-> "none"]

\* While a bulk execution runs, the counts its row shows account for every job
\* that is no longer pending, although pollers of several replicas overwrite
\* each other's rows and each result is stored before it is counted.  One that
\* has ended by itself left no job uncounted.  One that shows as completed has
\* the rows of every job in the table.  One that shows as aborted by a user was
\* so, or Meta started none of its jobs.
CountsAddUp ==
  \A e \in Execs : exec[e] # NoExec =>
    LET row == exec[e] IN
      /\ row.status = "running" /\ row.pending # {} =>
           row.done + Cardinality(row.pending) = Total /\ row.failed + row.records = row.done
      /\ row.status \in {"completed", "partial"} =>
           row.records = Total - row.failed /\ row.pending = {}
      /\ row.status = "completed" => stored[e] = Jobs
      /\ row.status = "aborted" => e \in asked \/ ~AnyStarted(e)

\* While no two copies of a row are held at the same time, what it shows only
\* advances: pending jobs leave, records add up, and the end is the end.  An
\* abort beside a poller, or pollers of two replicas, can take it back.
AdvancesUnlessContended ==
  [][\A e \in Execs \ contended :
       exec[e] # NoExec /\ starter[e].at \in {"over", "dead"} =>
         /\ exec'[e].pending \subseteq exec[e].pending
         /\ exec'[e].records >= exec[e].records
         /\ exec[e].status \in Terminal => exec'[e] = exec[e]
    ]_vars

\* Every execution ends for good, unless the process that created it died
\* before it had saved the pending jobs: nothing looks for such a row.
EndsUnlessOrphaned ==
  \A e \in Execs :
    <>[](exec[e] = NoExec \/ exec[e].status \in Terminal \/ starter[e].at = "dead")

=============================================================================
