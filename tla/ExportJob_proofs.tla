-------------------------- MODULE ExportJob_proofs --------------------------
(***************************************************************************)
(* Proofs about the capture export, for any number of jobs, handlers,      *)
(* attempts, messages and faults.                                          *)
(***************************************************************************)
EXTENDS ExportJob, TLAPS

-----------------------------------------------------------------------------
(* The inductive invariant *)

\* A busy slot has a job, and from its claim on a token of its own.
SlotsFilled ==
  \A h \in Handlers :
    /\ pc[h] # "idle" => job[h] \in Jobs
    /\ pc[h] \in Working \cup {"failing"} => token[h] \in Tokens
    /\ held[h] => pc[h] # "idle"

Base == TypeOK /\ SlotsFilled

Active(h) == pc[h] \in Working \cup {"failing"}

\* The lease of a job is its latest attempt, and no token is younger.
LeasesCount ==
  /\ \A j \in Jobs : lease[j] = attempts[j]
  /\ \A h \in Handlers : Active(h) => token[h] <= attempts[job[h]]

\* Two attempts at one job have different tokens.
TokensDiffer ==
  \A g, h \in Handlers :
    Active(g) /\ Active(h) /\ job[g] = job[h] /\ token[g] = token[h] => g = h

UploadsStored ==
  \A h \in Handlers : pc[h] \in Kept => <<job[h], token[h]>> \in blobs

Announced(where) ==
  CASE where = "uploaded" -> "uploading"
    [] where = "stored" -> "finalizing"
    [] OTHER -> where

\* The row shows the phase its owner is in.
OwnersAnnounced ==
  \A h \in Handlers :
    pc[h] \in Working /\ Owns(h) => phase[job[h]] = Announced(pc[h])

\* A job that was never claimed is as it was created.
RowsFresh ==
  \A j \in Jobs :
    /\ status[j] = "none" => phase[j] = "none"
    /\ status[j] \in {"none", "pending"} => attempts[j] = 0

\* A recovery pass remembers unsettled rows, and no more attempts than were made.
PassesOld ==
  \A r \in todo :
    r.status \in {"pending", "processing"} /\ r.attempts <= attempts[r.job]

Inv ==
  /\ Base /\ LeasesCount /\ TokensDiffer /\ UploadsStored
  /\ OwnersAnnounced /\ RowsFresh /\ PassesOld /\ CompletedFileOwned

-----------------------------------------------------------------------------
(* Types *)

LEMMA ConstantsTyped ==
  /\ NJobs \in Nat /\ MaxAttempts \in Nat \ {0} /\ StaleAfter \in Nat
  /\ MaxQueued \in Nat /\ MaxFaults \in Nat
BY ExportConstants

LEMMA FollowingTyped ==
  ASSUME NEW p \in DOMAIN Following
  PROVE  Following[p] \in Working /\ Following[p] \in Phases /\ p \in Working
BY DEF Following, Working, Phases

LEMMA EnqueuedTyped ==
  ASSUME NEW j \in Jobs, queue \in [Jobs -> 0..MaxQueued]
  PROVE  Enqueued(j) \in [Jobs -> 0..MaxQueued]
<1>1. queue[j] \in 0..MaxQueued
  OBVIOUS
<1>2. (IF queue[j] < MaxQueued THEN queue[j] + 1 ELSE MaxQueued) \in 0..MaxQueued
  BY <1>1, ConstantsTyped
<1> QED BY <1>2 DEF Enqueued

LEMMA InitBase == Init => Base
<1> SUFFICES ASSUME Init PROVE Base
  OBVIOUS
<1>1. RowsTyped
  BY ConstantsTyped DEF Init, RowsTyped, Statuses, Phases, NoToken
<1>2. SlotsTyped
  BY DEF Init, SlotsTyped, Slots, NoToken, NoJob
<1>3. SlotsFilled
  BY DEF Init, SlotsFilled, Working
<1> QED BY <1>1, <1>2, <1>3, ConstantsTyped DEF Init, Base, TypeOK

LEMMA ApiBase ==
  ASSUME Base, Api
  PROVE  Base'
<1> USE DEF Base, TypeOK
<1>1. ASSUME NEW j \in Jobs, CreateAndPublish(j) PROVE Base'
  <2>1. RowsTyped' /\ UNCHANGED slots /\ UNCHANGED <<blobs, todo>>
    BY <1>1, ConstantsTyped
    DEF CreateAndPublish, Saved, SetJob, RowsTyped, Statuses, Phases
  <2>2. SlotsTyped' /\ SlotsFilled'
    BY <2>1 DEF slots, SlotsTyped, SlotsFilled
  <2>3. queue' \in [Jobs -> 0..MaxQueued] /\ busEnabled' \in BOOLEAN /\ faults' \in 0..MaxFaults
    <3>1. queue' = Enqueued(j) \/ queue' = queue
      BY <1>1 DEF CreateAndPublish
    <3>2. busEnabled' = busEnabled
      BY <1>1, Zenon DEF CreateAndPublish, Fault, env
    <3>6. faults' = faults \/ (faults < MaxFaults /\ faults' = faults + 1)
      BY <1>1, Zenon DEF CreateAndPublish, Fault, env
    <3>7. faults' \in 0..MaxFaults
      BY <3>6, ConstantsTyped
    <3>3. queue \in [Jobs -> 0..MaxQueued]
      OBVIOUS
    <3>4. queue' \in [Jobs -> 0..MaxQueued]
      BY <3>1, <3>3, EnqueuedTyped
    <3>5. busEnabled' \in BOOLEAN
      BY <3>2
    <3> QED BY <3>4, <3>5, <3>7
  <2> QED BY <2>1, <2>2, <2>3
<1>2. ASSUME NEW j \in Jobs, NEW h \in Handlers, CreateAndProcess(j, h) PROVE Base'
  <2>1. RowsTyped' /\ UNCHANGED <<blobs, todo, queue, env>>
    BY <1>2, ConstantsTyped
    DEF CreateAndProcess, Saved, SetJob, RowsTyped, Statuses, Phases
  <2>2. SlotsTyped' /\ SlotsFilled'
    BY <1>2 DEF CreateAndProcess, Goto, SlotsTyped, SlotsFilled, Slots, Working
  <2> QED BY <2>1, <2>2 DEF env
<1> QED BY <1>1, <1>2 DEF Api

LEMMA DeliverBase ==
  ASSUME Base, NEW h \in Handlers, NEW j \in Jobs, Deliver(h, j)
  PROVE  Base'
<1> USE DEF Base, TypeOK
<1>1. RowsTyped' /\ UNCHANGED <<blobs, todo, busEnabled, faults>>
  BY DEF Deliver, table, env, RowsTyped
<1>2. SlotsTyped' /\ SlotsFilled'
  BY DEF Deliver, Goto, SlotsTyped, SlotsFilled, Slots, Working
<1>3. queue' \in [Jobs -> 0..MaxQueued]
  BY ConstantsTyped DEF Deliver
<1> QED BY <1>1, <1>2, <1>3

LEMMA ClaimBase ==
  ASSUME Base, NEW h \in Handlers, Claim(h)
  PROVE  Base'
<1> USE DEF Base, TypeOK
<1> DEFINE j == job[h]
<1>1. j \in Jobs /\ attempts[j] \in 0..MaxAttempts
  BY DEF Claim, SlotsFilled, SlotsTyped, RowsTyped
<1>2. CASE Claimable(j)
  <2>1. attempts[j] + 1 \in Tokens /\ attempts[j] + 1 \in 0..MaxAttempts
    BY <1>1, <1>2, ConstantsTyped DEF Claimable, Tokens
  <2>2. RowsTyped'
    BY <1>2, <2>1, ConstantsTyped DEF Claim, SetJob, RowsTyped, Statuses, Phases
  <2>3. SlotsTyped' /\ SlotsFilled'
    BY <1>1, <1>2, <2>1 DEF Claim, Answered, Goto, SlotsTyped, SlotsFilled, Slots, Working
  <2> QED BY <2>2, <2>3 DEF Claim, env
<1>3. CASE ~Claimable(j)
  BY <1>3 DEF Claim, Goto, RowsTyped, SlotsTyped, SlotsFilled, Slots, Working, env
<1> QED BY <1>2, <1>3

\* What an UPDATE of an attempt does to types, whatever it writes.
LEMMA UpdateOwnedSlots ==
  ASSUME Base, NEW h \in Handlers, pc[h] \in Working,
         NEW write, NEW next \in Working \cup {"ack"},
         UpdateOwned(h, write, next), UNCHANGED <<job, token, held>>
  PROVE  SlotsTyped' /\ SlotsFilled'
BY DEF Base, TypeOK, UpdateOwned, Answered, Goto, SlotsTyped, SlotsFilled, Slots, Working

LEMMA AdvanceBase ==
  ASSUME Base, NEW h \in Handlers, Advance(h)
  PROVE  Base'
<1> USE DEF Base, TypeOK
<1>1. pc[h] \in Working /\ Following[pc[h]] \in Working /\ Following[pc[h]] \in Phases
  BY FollowingTyped DEF Advance
<1>2. SlotsTyped' /\ SlotsFilled'
  BY <1>1, UpdateOwnedSlots DEF Advance
<1>3. RowsTyped'
  BY <1>1, ConstantsTyped DEF Advance, UpdateOwned, SetJob, RowsTyped, Statuses
<1> QED BY <1>2, <1>3 DEF Advance, env

LEMMA ProgressBase ==
  ASSUME Base, NEW h \in Handlers, Progress(h)
  PROVE  Base'
<1> USE DEF Base, TypeOK
<1>1. SlotsTyped' /\ SlotsFilled'
  BY UpdateOwnedSlots DEF Progress, Working
<1>2. RowsTyped'
  BY ConstantsTyped DEF Progress, UpdateOwned, SetJob, RowsTyped, Statuses, Phases
<1> QED BY <1>1, <1>2 DEF Progress, env

LEMMA CompleteBase ==
  ASSUME Base, NEW h \in Handlers, Complete(h)
  PROVE  Base'
<1> USE DEF Base, TypeOK
<1>1. SlotsTyped' /\ SlotsFilled'
  BY UpdateOwnedSlots DEF Kept, Complete, Working
<1>2. RowsTyped'
  BY ConstantsTyped
  DEF Complete, UpdateOwned, SetJob, RowsTyped, SlotsTyped, Statuses, Phases
<1> QED BY <1>1, <1>2 DEF Complete, env

LEMMA UploadBase ==
  ASSUME Base, NEW h \in Handlers, Upload(h) \/ StoreLocally(h)
  PROVE  Base'
<1> USE DEF Base, TypeOK
<1>1. <<job[h], token[h]>> \in Jobs \X Tokens
  BY DEF Upload, StoreLocally, SlotsFilled, Working
<1>2. SlotsTyped' /\ SlotsFilled'
  BY DEF Upload, StoreLocally, Goto, SlotsTyped, SlotsFilled, Slots, Working
<1>3. RowsTyped'
  BY DEF Upload, StoreLocally, table, RowsTyped
<1> QED BY <1>1, <1>2, <1>3 DEF Upload, StoreLocally, env

LEMMA ThrowsBase ==
  ASSUME Base, NEW h \in Handlers, ClaimThrows(h) \/ WorkThrows(h)
  PROVE  Base'
<1> USE DEF Base, TypeOK
<1>1. RowsTyped' /\ UNCHANGED <<blobs, queue, todo>>
  BY DEF ClaimThrows, WorkThrows, table, RowsTyped
<1>2. SlotsTyped' /\ SlotsFilled'
  BY DEF ClaimThrows, WorkThrows, Goto, SlotsTyped, SlotsFilled, Slots, Working
<1>3. busEnabled' = busEnabled /\ faults' \in 0..MaxFaults
  BY ConstantsTyped DEF ClaimThrows, WorkThrows, Fault, env
<1> QED BY <1>1, <1>2, <1>3

LEMMA MarkFailedBase ==
  ASSUME Base, NEW h \in Handlers, MarkFailed(h)
  PROVE  Base'
<1> USE DEF Base, TypeOK
<1>1. RowsTyped'
  BY DEF MarkFailed, SetJob, RowsTyped, Statuses, Phases
<1>2. SlotsTyped' /\ SlotsFilled'
  BY DEF MarkFailed, Goto, SlotsTyped, SlotsFilled, Slots, Working
<1> QED BY <1>1, <1>2 DEF MarkFailed, env

\* A released slot fits the invariant.
LEMMA ReleaseSlots ==
  ASSUME Base, NEW h \in Handlers, Release(h)
  PROVE  SlotsTyped' /\ SlotsFilled'
BY DEF Base, TypeOK, Release, Goto, SlotsTyped, SlotsFilled, Slots, Working

LEMMA AckBase ==
  ASSUME Base, NEW h \in Handlers, Ack(h)
  PROVE  Base'
<1>1. SlotsTyped' /\ SlotsFilled'
  BY ReleaseSlots DEF Ack
<1> QED BY <1>1 DEF Base, TypeOK, Ack, table, env, RowsTyped

LEMMA HeartbeatBase ==
  ASSUME Base, NEW h \in Handlers, Heartbeat(h) \/ HeartbeatThrows(h)
  PROVE  Base'
<1> USE DEF Base, TypeOK
<1>1. RowsTyped'
  BY ConstantsTyped DEF Heartbeat, HeartbeatThrows, table, RowsTyped
<1>2. SlotsTyped' /\ SlotsFilled'
  BY DEF Heartbeat, HeartbeatThrows, SlotsTyped, SlotsFilled
<1>3. busEnabled' = busEnabled /\ faults' \in 0..MaxFaults
  BY ConstantsTyped DEF Heartbeat, HeartbeatThrows, Fault, env
<1> QED BY <1>1, <1>2, <1>3 DEF Heartbeat, HeartbeatThrows

LEMMA CrashBase ==
  ASSUME Base, NEW h \in Handlers, Crash(h) \/ LockLapses(h)
  PROVE  Base'
<1> USE DEF Base, TypeOK
<1>1. RowsTyped' /\ UNCHANGED <<blobs, todo>>
  BY DEF Crash, LockLapses, table, RowsTyped
<1>2. SlotsTyped' /\ SlotsFilled'
  <2>1. CASE Crash(h)
    BY <2>1, ReleaseSlots DEF Crash
  <2>2. CASE LockLapses(h)
    BY <2>2 DEF LockLapses, SlotsTyped, SlotsFilled
  <2> QED BY <2>1, <2>2
<1>3. queue' \in [Jobs -> 0..MaxQueued]
  <2>1. job[h] \in Jobs
    BY DEF SlotsFilled, Crash, LockLapses
  <2>2. queue' = Enqueued(job[h]) \/ queue' = queue
    BY DEF Crash, LockLapses
  <2> QED BY <2>1, <2>2, EnqueuedTyped
<1>4. busEnabled' = busEnabled /\ faults' \in 0..MaxFaults
  BY ConstantsTyped DEF Crash, LockLapses, Fault
<1> QED BY <1>1, <1>2, <1>3, <1>4

LEMMA RecoverBase ==
  ASSUME Base, Recover \/ RecoverThrows
  PROVE  Base'
<1> USE DEF Base, TypeOK
<1>1. CASE RecoverStart
  <2>1. todo' \in SUBSET Snapshot
    <3>1. \A j \in Selected : j \in Jobs
      BY DEF Selected, Abandoned
    <3>2. \A j \in Jobs : [job |-> j, status |-> status[j], attempts |-> attempts[j]] \in Snapshot
      BY DEF Snapshot, RowsTyped
    <3> QED BY <1>1, <3>1, <3>2 DEF RecoverStart
  <2> QED BY <1>1, <2>1 DEF RecoverStart, table, slots, env, RowsTyped, SlotsTyped, SlotsFilled
<1>2. ASSUME NEW r \in todo, RecoverRequeue(r) PROVE Base'
  <2>1. r.job \in Jobs
    BY DEF Snapshot
  <2>2. queue' \in [Jobs -> 0..MaxQueued]
    BY <1>2, <2>1, EnqueuedTyped DEF RecoverRequeue
  <2> QED BY <1>2, <2>2 DEF RecoverRequeue, table, slots, env, RowsTyped, SlotsTyped, SlotsFilled
<1>3. ASSUME NEW r \in todo, RecoverGiveUp(r) PROVE Base'
  <2>1. RowsTyped'
    BY <1>3 DEF RecoverGiveUp, SetJob, RowsTyped, Statuses, Phases
  <2> QED BY <1>3, <2>1 DEF RecoverGiveUp, slots, env, SlotsTyped, SlotsFilled
<1>4. CASE RecoverThrows
  <2>1. faults' \in 0..MaxFaults
    BY <1>4, ConstantsTyped DEF RecoverThrows, Fault
  <2> QED BY <1>4, <2>1 DEF RecoverThrows, Fault, table, slots, RowsTyped, SlotsTyped, SlotsFilled
<1> QED BY <1>1, <1>2, <1>3, <1>4 DEF Recover

LEMMA TickBase ==
  ASSUME Base, Tick
  PROVE  Base'
<1>1. RowsTyped'
  BY ConstantsTyped DEF Base, TypeOK, Tick, RowsTyped
<1> QED BY <1>1 DEF Base, TypeOK, Tick, slots, env, SlotsTyped, SlotsFilled

\* Every step of the system preserves types and filled slots.
LEMMA NextBase ==
  ASSUME Base, [Next]_vars
  PROVE  Base'
<1>1. CASE UNCHANGED vars
  BY <1>1 DEF Base, TypeOK, vars, table, slots, env, RowsTyped, SlotsTyped, SlotsFilled
<1>2. CASE Worker
  <2> SUFFICES ASSUME NEW h \in Handlers,
                      \/ \E j \in Jobs : Deliver(h, j)
                      \/ HandlerStep(h) \/ Progress(h) \/ Heartbeat(h) \/ WorkThrows(h)
                      \/ ClaimThrows(h) \/ HeartbeatThrows(h) \/ Crash(h) \/ LockLapses(h)
               PROVE  Base'
    BY <1>2 DEF Worker
  <2> QED
    BY DeliverBase, ClaimBase, AdvanceBase, UploadBase, CompleteBase, MarkFailedBase, AckBase,
       ProgressBase, HeartbeatBase, ThrowsBase, CrashBase DEF HandlerStep
<1> QED BY <1>1, <1>2, ApiBase, RecoverBase, TickBase DEF Next

\* Jobs, handlers, messages and recovery passes keep their types
\* (capture.service.ts processExportJob, recoverExportJobs).
THEOREM TypeCorrect == Spec => []TypeOK
<1>1. Init => Base
  BY InitBase
<1>2. Base /\ [Next]_vars => Base'
  BY NextBase
<1>3. Base => TypeOK
  BY DEF Base
<1> QED BY <1>1, <1>2, <1>3, PTL DEF Spec

-----------------------------------------------------------------------------
(* The leases *)

LEMMA InitInv == Init => Inv
<1> SUFFICES ASSUME Init PROVE Inv
  OBVIOUS
<1>1. \A h \in Handlers : ~Active(h) /\ pc[h] \notin Working /\ pc[h] \notin Kept
  BY DEF Kept, Init, Active, Working
<1>2. LeasesCount /\ RowsFresh /\ PassesOld /\ CompletedFileOwned
  BY <1>1 DEF Init, LeasesCount, RowsFresh, PassesOld, CompletedFileOwned, NoToken
<1>3. TokensDiffer /\ UploadsStored /\ OwnersAnnounced
  BY <1>1 DEF TokensDiffer, UploadsStored, OwnersAnnounced
<1> QED BY <1>2, <1>3, InitBase DEF Inv

\* What a slot may do without a write to the table.
Quiet ==
  \A h \in Handlers :
    /\ Active(h)' => Active(h) /\ job'[h] = job[h] /\ token'[h] = token[h]
    /\ pc'[h] \in Working => pc[h] \in Working /\ Announced(pc'[h]) = Announced(pc[h])
    /\ pc'[h] \in Kept => <<job[h], token[h]>> \in blobs'

\* Steps that leave the rows alone keep the invariant.
LEMMA QuietInv ==
  ASSUME Inv, Base', Quiet, UNCHANGED <<status, phase, lease, attempts, file>>,
         blobs \subseteq blobs', PassesOld'
  PROVE  Inv'
<1>1. \A h \in Handlers : pc'[h] \in Working => Active(h)'
  BY DEF Active
<1>2. LeasesCount'
  BY DEF Inv, Quiet, LeasesCount
<1>3. TokensDiffer'
  BY DEF Inv, Quiet, TokensDiffer
<1>4. UploadsStored'
  BY <1>1 DEF Kept, Quiet, UploadsStored, Working
<1>5. OwnersAnnounced'
  BY <1>1 DEF Inv, Quiet, OwnersAnnounced, Owns
<1>6. RowsFresh' /\ CompletedFileOwned'
  BY DEF Inv, RowsFresh, CompletedFileOwned
<1> QED BY <1>2, <1>3, <1>4, <1>5, <1>6 DEF Inv

LEMMA SavedInv ==
  ASSUME Inv, Base', NEW j \in Jobs, Saved(j), Quiet
  PROVE  Inv'
<1> USE DEF Saved, SetJob
<1>1. /\ status[j] = "none" /\ status'[j] = "pending" /\ phase'[j] = "queued"
      /\ \A k \in Jobs : k # j => status'[k] = status[k] /\ phase'[k] = phase[k]
      /\ UNCHANGED <<lease, attempts, file, blobs, todo>>
  BY DEF Inv, Base, TypeOK, RowsTyped
<1>2. \A h \in Handlers : pc'[h] \in Working => Active(h)'
  BY DEF Active
<1>3. LeasesCount' /\ TokensDiffer'
  BY <1>1 DEF Inv, Quiet, LeasesCount, TokensDiffer
<1>4. UploadsStored'
  BY <1>2 DEF Kept, Quiet, UploadsStored, Working
<1>5. OwnersAnnounced'
  <2> SUFFICES ASSUME NEW h \in Handlers, pc'[h] \in Working, Owns(h)'
               PROVE  phase'[job'[h]] = Announced(pc'[h])
    BY DEF OwnersAnnounced
  <2>1. /\ pc[h] \in Working /\ Announced(pc'[h]) = Announced(pc[h])
        /\ job'[h] = job[h] /\ token'[h] = token[h] /\ job[h] \in Jobs
    BY <1>2 DEF Quiet, Inv, Base, SlotsFilled, Working
  <2>2. job[h] # j /\ Owns(h)
    BY <1>1, <2>1 DEF Owns
  <2> QED BY <1>1, <2>1, <2>2 DEF Inv, OwnersAnnounced
<1>6. RowsFresh' /\ PassesOld' /\ CompletedFileOwned'
  BY <1>1 DEF Inv, RowsFresh, PassesOld, CompletedFileOwned
<1> QED BY <1>3, <1>4, <1>5, <1>6 DEF Inv

LEMMA ApiInv ==
  ASSUME Inv, Api
  PROVE  Inv'
<1>1. Base'
  BY ApiBase DEF Inv
<1>2. ASSUME NEW j \in Jobs, CreateAndPublish(j) PROVE Inv'
  <2>1. Quiet
    BY <1>2 DEF CreateAndPublish, slots, Quiet, Active, Saved, Inv, UploadsStored
  <2> QED BY <1>1, <1>2, <2>1, SavedInv DEF CreateAndPublish
<1>3. ASSUME NEW j \in Jobs, NEW h \in Handlers, CreateAndProcess(j, h) PROVE Inv'
  <2>1. pc' = [pc EXCEPT ![h] = "claim"] /\ pc[h] = "idle" /\ job' = [job EXCEPT ![h] = j]
        /\ token' = token /\ blobs' = blobs
    BY <1>3 DEF CreateAndProcess, Goto, Saved
  <2>2. Quiet
    BY <2>1 DEF Kept, Quiet, Active, Working, Inv, Base, TypeOK, SlotsTyped, UploadsStored
  <2> QED BY <1>1, <1>3, <2>2, SavedInv DEF CreateAndProcess
<1> QED BY <1>2, <1>3 DEF Api

LEMMA DeliverInv ==
  ASSUME Inv, NEW h \in Handlers, NEW j \in Jobs, Deliver(h, j)
  PROVE  Inv'
<1>1. Base'
  BY DeliverBase DEF Inv
<1>2. Quiet
  BY DEF Kept, Deliver, Goto, Quiet, Active, Working, Inv, Base, TypeOK, SlotsTyped, UploadsStored
<1>3. PassesOld'
  BY DEF Inv, PassesOld, Deliver, table
<1> QED BY <1>1, <1>2, <1>3, QuietInv DEF Deliver, table

\* A slot that goes where no attempt is active, or fails, is quiet.
LEMMA StopIsQuiet ==
  ASSUME Inv, NEW h \in Handlers, NEW where, Goto(h, where), where \notin Working,
         where = "failing" => Active(h),
         UNCHANGED <<job, token, blobs>>
  PROVE  Quiet
BY DEF Kept, Goto, Quiet, Active, Working, Inv, Base, TypeOK, SlotsTyped, UploadsStored

LEMMA ThrowsInv ==
  ASSUME Inv, NEW h \in Handlers, ClaimThrows(h) \/ WorkThrows(h)
  PROVE  Inv'
<1>1. Base'
  BY ThrowsBase DEF Inv
<1>2. Quiet
  BY StopIsQuiet DEF ClaimThrows, WorkThrows, Active, Working
<1>3. PassesOld'
  BY DEF Inv, PassesOld, ClaimThrows, WorkThrows, table
<1> QED BY <1>1, <1>2, <1>3, QuietInv DEF ClaimThrows, WorkThrows, table

LEMMA UploadInv ==
  ASSUME Inv, NEW h \in Handlers, Upload(h) \/ StoreLocally(h)
  PROVE  Inv'
<1>1. Base'
  BY UploadBase DEF Inv
<1>2. Quiet
  BY DEF Upload, StoreLocally, Goto, Quiet, Active, Working, Kept, Announced, Inv, Base, TypeOK, SlotsTyped, UploadsStored
<1>3. PassesOld' /\ blobs \subseteq blobs'
  BY DEF Inv, PassesOld, Upload, StoreLocally, table
<1> QED BY <1>1, <1>2, <1>3, QuietInv DEF Upload, StoreLocally, table

\* A released slot is quiet.
LEMMA ReleaseIsQuiet ==
  ASSUME Inv, NEW h \in Handlers, Release(h), UNCHANGED blobs
  PROVE  Quiet
BY DEF Kept, Release, Goto, Quiet, Active, Working, Inv, Base, TypeOK, SlotsTyped, UploadsStored

LEMMA AckInv ==
  ASSUME Inv, NEW h \in Handlers, Ack(h)
  PROVE  Inv'
<1>1. Base'
  BY AckBase DEF Inv
<1>2. Quiet
  BY ReleaseIsQuiet DEF Ack
<1>3. PassesOld'
  BY DEF Inv, PassesOld, Ack, table
<1> QED BY <1>1, <1>2, <1>3, QuietInv DEF Ack, table

LEMMA HeartbeatInv ==
  ASSUME Inv, NEW h \in Handlers, Heartbeat(h) \/ HeartbeatThrows(h)
  PROVE  Inv'
<1>1. Base'
  BY HeartbeatBase DEF Inv
<1>2. UNCHANGED <<status, phase, lease, attempts, file, blobs, pc, job, token, todo>>
  BY DEF Heartbeat, HeartbeatThrows, table
<1>3. Quiet
  BY <1>2 DEF Quiet, Active, Inv, UploadsStored
<1>4. PassesOld'
  BY <1>2 DEF Inv, PassesOld
<1> QED BY <1>1, <1>2, <1>3, <1>4, QuietInv

LEMMA CrashInv ==
  ASSUME Inv, NEW h \in Handlers, Crash(h) \/ LockLapses(h)
  PROVE  Inv'
<1>1. Base'
  BY CrashBase DEF Inv
<1>2. UNCHANGED <<status, phase, lease, attempts, file, blobs, todo>>
  BY DEF Crash, LockLapses, table
<1>3. Quiet
  <2>1. CASE Crash(h)
    BY <1>2, <2>1, ReleaseIsQuiet DEF Crash
  <2>2. CASE LockLapses(h)
    BY <1>2, <2>2 DEF LockLapses, Quiet, Active, Inv, UploadsStored
  <2> QED BY <2>1, <2>2
<1>4. PassesOld'
  BY <1>2 DEF Inv, PassesOld
<1> QED BY <1>1, <1>2, <1>3, <1>4, QuietInv

LEMMA TickInv ==
  ASSUME Inv, Tick
  PROVE  Inv'
<1>1. Base'
  BY TickBase DEF Inv
<1>2. UNCHANGED <<status, phase, lease, attempts, file, blobs, pc, job, token, todo>>
  BY DEF Tick, slots
<1>3. Quiet
  BY <1>2 DEF Quiet, Active, Inv, UploadsStored
<1>4. PassesOld'
  BY <1>2 DEF Inv, PassesOld
<1> QED BY <1>1, <1>2, <1>3, <1>4, QuietInv

\* A claim makes the one lease that counts: its token is younger than all others.
LEMMA ClaimInv ==
  ASSUME Inv, NEW h \in Handlers, Claim(h)
  PROVE  Inv'
<1>0. Base'
  BY ClaimBase DEF Inv
<1> DEFINE j == job[h]
           t == attempts[j] + 1
<1>1. j \in Jobs /\ pc[h] = "claim" /\ attempts[j] \in Nat
  BY DEF Claim, Inv, Base, SlotsFilled, TypeOK, RowsTyped
<1>2. CASE ~Claimable(j)
  <2>1. Quiet
    BY <1>2, StopIsQuiet DEF Claim, Working
  <2>2. PassesOld'
    BY <1>2 DEF Inv, PassesOld, Claim
  <2> QED BY <1>0, <1>2, <2>1, <2>2, QuietInv DEF Claim
<1>3. CASE Claimable(j)
  <2>1. /\ status[j] \in {"pending", "processing"} /\ attempts[j] < MaxAttempts
        /\ status' = [status EXCEPT ![j] = "processing"]
        /\ phase' = [phase EXCEPT ![j] = "counting"]
        /\ attempts' = [attempts EXCEPT ![j] = t]
        /\ lease' = [lease EXCEPT ![j] = t]
        /\ token' = [token EXCEPT ![h] = t]
        /\ UNCHANGED <<file, blobs, job, todo>>
    BY <1>3 DEF Claim, Claimable, SetJob
  <2>2. \/ pc' = [pc EXCEPT ![h] = "counting"]
        \/ pc' = [pc EXCEPT ![h] = "failing"]
    BY <1>3 DEF Claim, Answered, Goto
  <2>3. \A g \in Handlers : g # h => pc'[g] = pc[g] /\ token'[g] = token[g]
    BY <2>1, <2>2 DEF Inv, Base, TypeOK, SlotsTyped
  <2>4. /\ token'[h] = t /\ lease'[j] = t /\ attempts'[j] = t /\ status'[j] = "processing"
        /\ phase'[j] = "counting" /\ pc'[h] \in {"counting", "failing"}
        /\ \A k \in Jobs : k # j => /\ status'[k] = status[k] /\ phase'[k] = phase[k]
                                    /\ lease'[k] = lease[k] /\ attempts'[k] = attempts[k]
    BY <1>1, <2>1, <2>2 DEF Inv, Base, TypeOK, RowsTyped, SlotsTyped
  <2>5. \A g \in Handlers : g # h /\ Active(g) => job[g] \in Jobs /\ token[g] \in Nat
    BY DEF Active, Inv, Base, SlotsFilled, Working, Tokens
  <2>6. \A g \in Handlers : g # h /\ Active(g) /\ job[g] = j => token[g] <= attempts[j]
    BY DEF Inv, LeasesCount
  <2>7. LeasesCount'
    <3>1. \A k \in Jobs : lease'[k] = attempts'[k]
      BY <2>4 DEF Inv, LeasesCount
    <3>2. ASSUME NEW g \in Handlers, Active(g)' PROVE token'[g] <= attempts'[job'[g]]
      <4>1. CASE g = h
        BY <1>1, <2>1, <2>4, <4>1
      <4>2. CASE g # h /\ job[g] = j
        BY <1>1, <2>1, <2>3, <2>4, <2>5, <2>6, <3>2, <4>2 DEF Active
      <4>3. CASE g # h /\ job[g] # j
        BY <2>1, <2>3, <2>4, <2>5, <3>2, <4>3 DEF Active, Inv, LeasesCount
      <4> QED BY <4>1, <4>2, <4>3
    <3> QED BY <3>1, <3>2 DEF LeasesCount
  <2>8. TokensDiffer'
    <3>1. \A g \in Handlers : g # h /\ Active(g)' /\ job[g] = j => token'[g] # t
      BY <1>1, <2>3, <2>5, <2>6 DEF Active
    <3> QED BY <2>1, <2>3, <2>4, <3>1 DEF TokensDiffer, Active, Inv
  <2>9. UploadsStored'
    BY <2>1, <2>3, <2>4 DEF Kept, UploadsStored, Inv
  <2>10. OwnersAnnounced'
    <3> SUFFICES ASSUME NEW g \in Handlers, pc'[g] \in Working, Owns(g)'
                 PROVE  phase'[job'[g]] = Announced(pc'[g])
      BY DEF OwnersAnnounced
    <3>1. CASE g = h
      BY <2>1, <2>4, <3>1 DEF Announced, Kept, Working
    <3>2. CASE g # h
      <4>1. Active(g) /\ pc[g] \in Working
        BY <2>3, <3>2 DEF Active
      <4>2. job[g] # j
        BY <1>1, <2>1, <2>3, <2>4, <2>5, <2>6, <3>2, <4>1 DEF Owns
      <4> QED BY <2>1, <2>3, <2>4, <2>5, <3>2, <4>1, <4>2 DEF Owns, Inv, OwnersAnnounced
    <3> QED BY <3>1, <3>2
  <2>11. RowsFresh'
    BY <2>4 DEF Inv, RowsFresh
  <2>12. PassesOld'
    <3> SUFFICES ASSUME NEW r \in todo
                 PROVE  r.status \in {"pending", "processing"} /\ r.attempts <= attempts'[r.job]
      BY <2>1 DEF PassesOld
    <3>1. r.job \in Jobs /\ r.attempts \in Nat
      BY DEF Inv, Base, TypeOK, Snapshot
    <3>2. r.status \in {"pending", "processing"} /\ r.attempts <= attempts[r.job]
      BY DEF Inv, PassesOld
    <3> QED BY <1>1, <2>4, <3>1, <3>2
  <2>13. CompletedFileOwned'
    BY <2>1, <2>4 DEF Inv, CompletedFileOwned
  <2> QED BY <1>0, <2>7, <2>8, <2>9, <2>10, <2>11, <2>12, <2>13 DEF Inv
<1> QED BY <1>2, <1>3

\* What every UPDATE of an attempt that holds its lease has in common: it
\* touches no lease, only the row of its job, and only its own slot.
OwnerWrites(h) ==
  /\ Owns(h) /\ Active(h)
  /\ UNCHANGED <<lease, attempts, job, token, blobs, todo>>
  /\ \A g \in Handlers : g # h => pc'[g] = pc[g]
  /\ \A k \in Jobs : k # job[h] =>
       status'[k] = status[k] /\ phase'[k] = phase[k] /\ file'[k] = file[k]
  /\ pc'[h] \notin Kept
  /\ status'[job[h]] # "none"

\* Such an update keeps the invariant if it announces its phase and completes
\* the job with a stored file of its own.
LEMMA OwnerWritesInv ==
  ASSUME Inv, Base', NEW h \in Handlers, OwnerWrites(h),
         status'[job[h]] # "pending",
         pc'[h] \in Working => phase'[job[h]] = Announced(pc'[h]),
         \/ status'[job[h]] # "completed" /\ file'[job[h]] = file[job[h]]
         \/ status'[job[h]] = "completed" /\ file'[job[h]] = token[h]
            /\ <<job[h], token[h]>> \in blobs
  PROVE  Inv'
<1> USE DEF OwnerWrites
<1>1. job[h] \in Jobs /\ status[job[h]] = "processing" /\ lease[job[h]] = token[h]
  BY DEF Active, Working, Inv, Base, SlotsFilled, Owns
<1>2. \A g \in Handlers : Active(g)' => Active(g)
  BY DEF Active
<1>3. LeasesCount'
  BY <1>2 DEF Inv, LeasesCount
<1>4. TokensDiffer'
  BY <1>2 DEF Inv, TokensDiffer
<1>5. UploadsStored'
  BY DEF Inv, UploadsStored
<1>6. OwnersAnnounced'
  <2> SUFFICES ASSUME NEW g \in Handlers, pc'[g] \in Working, Owns(g)', g # h
               PROVE  phase'[job'[g]] = Announced(pc'[g])
    BY DEF OwnersAnnounced
  <2>1. Active(g) /\ pc[g] \in Working /\ job[g] \in Jobs
    BY DEF Active, Working, Inv, Base, SlotsFilled
  <2>2. job[g] # job[h]
    BY <1>1, <2>1 DEF Owns, Inv, TokensDiffer
  <2> QED BY <2>1, <2>2 DEF Owns, Inv, OwnersAnnounced
<1>7. RowsFresh'
  BY <1>1 DEF Inv, RowsFresh
<1>8. PassesOld'
  BY DEF Inv, PassesOld
<1>9. CompletedFileOwned'
  BY <1>1 DEF Inv, CompletedFileOwned
<1> QED BY <1>3, <1>4, <1>5, <1>6, <1>7, <1>8, <1>9 DEF Inv

\* An attempt that finds its lease gone only changes its own slot.
LEMMA LeaseLostInv ==
  ASSUME Inv, Base', NEW h \in Handlers, pc[h] \in Working, Goto(h, "failing"),
         UNCHANGED <<status, phase, lease, attempts, file, blobs, job, token, todo>>
  PROVE  Inv'
<1>1. Quiet
  BY StopIsQuiet DEF Working, Active
<1>2. PassesOld'
  BY DEF Inv, PassesOld
<1> QED BY <1>1, <1>2, QuietInv

\* An update that announces a phase keeps the job processing.
LEMMA AnnounceInv ==
  ASSUME Inv, Base', NEW h \in Handlers, pc[h] \in Working,
         NEW p \in Working \ Kept,
         UpdateOwned(h, SetJob(job[h], "processing", p) /\ UNCHANGED file, p),
         UNCHANGED <<lease, attempts, blobs, job, token, todo>>
  PROVE  Inv'
<1>1. CASE ~lost[h] /\ Owns(h)
  <2>1. job[h] \in Jobs
    BY DEF Inv, Base, SlotsFilled, Working
  <2>2. /\ SetJob(job[h], "processing", p) /\ file' = file
        /\ Answered(h, p)
    BY <1>1 DEF UpdateOwned
  <2>3. pc'[h] \in {p, "failing"} /\ \A g \in Handlers : g # h => pc'[g] = pc[g]
    BY <2>2 DEF Answered, Goto, Inv, Base, TypeOK, SlotsTyped
  <2>4. /\ status'[job[h]] = "processing" /\ phase'[job[h]] = p
        /\ \A k \in Jobs : k # job[h] => status'[k] = status[k] /\ phase'[k] = phase[k]
    BY <2>1, <2>2 DEF SetJob, Inv, Base, TypeOK, RowsTyped
  <2>5. Announced(p) = p
    BY DEF Announced, Kept
  <2> QED
    BY <1>1, <2>2, <2>3, <2>4, <2>5, OwnerWritesInv DEF Kept, OwnerWrites, Active, Working
<1>2. CASE ~(~lost[h] /\ Owns(h))
  BY <1>2, LeaseLostInv DEF UpdateOwned
<1> QED BY <1>1, <1>2

LEMMA AdvanceInv ==
  ASSUME Inv, NEW h \in Handlers, Advance(h) \/ Progress(h)
  PROVE  Inv'
<1>1. Base'
  BY AdvanceBase, ProgressBase DEF Inv
<1>2. CASE Advance(h)
  <2>1. pc[h] \in Working /\ Following[pc[h]] \in Working \ Kept
    BY <1>2 DEF Kept, Advance, Following, Working
  <2> QED BY <1>1, <1>2, <2>1, AnnounceInv DEF Advance
<1>3. CASE Progress(h)
  BY <1>1, <1>3, AnnounceInv DEF Kept, Progress, Working
<1> QED BY <1>2, <1>3

\* A completing update points the job at the file of the attempt.
LEMMA CompleteInv ==
  ASSUME Inv, NEW h \in Handlers, Complete(h)
  PROVE  Inv'
<1>1. Base'
  BY CompleteBase DEF Inv
<1>2. CASE ~lost[h] /\ Owns(h)
  <2>1. job[h] \in Jobs /\ <<job[h], token[h]>> \in blobs
    BY DEF Kept, Complete, Inv, Base, SlotsFilled, Working, UploadsStored
  <2>2. /\ SetJob(job[h], "completed", "completed")
        /\ file' = [file EXCEPT ![job[h]] = token[h]] /\ Answered(h, "ack")
    BY <1>2 DEF Complete, UpdateOwned
  <2>3. pc'[h] \in {"ack", "failing"} /\ \A g \in Handlers : g # h => pc'[g] = pc[g]
    BY <2>2 DEF Answered, Goto, Inv, Base, TypeOK, SlotsTyped
  <2>4. /\ status'[job[h]] = "completed" /\ file'[job[h]] = token[h]
        /\ \A k \in Jobs : k # job[h] =>
             status'[k] = status[k] /\ phase'[k] = phase[k] /\ file'[k] = file[k]
    BY <2>1, <2>2 DEF SetJob, Inv, Base, TypeOK, RowsTyped
  <2>5. UNCHANGED <<lease, attempts, job, token, blobs, todo>> /\ Active(h)
    BY DEF Kept, Complete, Active, Working
  <2> QED
    BY <1>1, <1>2, <2>1, <2>3, <2>4, <2>5, OwnerWritesInv DEF Kept, OwnerWrites, Working
<1>3. CASE ~(~lost[h] /\ Owns(h))
  BY <1>1, <1>3, LeaseLostInv DEF Kept, Complete, UpdateOwned, Working
<1> QED BY <1>2, <1>3

LEMMA MarkFailedInv ==
  ASSUME Inv, NEW h \in Handlers, MarkFailed(h)
  PROVE  Inv'
<1>1. Base'
  BY MarkFailedBase DEF Inv
<1>2. CASE Owns(h)
  <2>1. job[h] \in Jobs /\ Active(h) /\ SetJob(job[h], "failed", "failed")
    BY <1>2 DEF MarkFailed, Active, Inv, Base, SlotsFilled
  <2>2. pc'[h] = "ack" /\ \A g \in Handlers : g # h => pc'[g] = pc[g]
    BY DEF MarkFailed, Goto, Inv, Base, TypeOK, SlotsTyped
  <2>3. /\ status'[job[h]] = "failed"
        /\ \A k \in Jobs : k # job[h] => status'[k] = status[k] /\ phase'[k] = phase[k]
    BY <2>1 DEF SetJob, Inv, Base, TypeOK, RowsTyped
  <2> QED
    BY <1>1, <1>2, <2>1, <2>2, <2>3, OwnerWritesInv DEF Kept, MarkFailed, OwnerWrites, Working
<1>3. CASE ~Owns(h)
  <2>1. Quiet
    BY StopIsQuiet DEF MarkFailed, Working
  <2>2. PassesOld'
    BY DEF MarkFailed, Inv, PassesOld
  <2> QED BY <1>1, <1>3, <2>1, <2>2, QuietInv DEF MarkFailed
<1> QED BY <1>2, <1>3

\* A pass gives up only jobs that are out of attempts, silent and still processing.
LEMMA GivenUpForCause ==
  ASSUME Inv, NEW r \in todo, RecoverGiveUp(r), status' # status \/ phase' # phase
  PROVE  /\ r.job \in Jobs /\ status[r.job] = "processing"
         /\ attempts[r.job] = MaxAttempts /\ Stale(r.job)
         /\ SetJob(r.job, "failed", "failed")
<1>1. /\ status[r.job] = r.status /\ Stale(r.job) /\ SetJob(r.job, "failed", "failed")
      /\ r.attempts >= MaxAttempts
  BY DEF RecoverGiveUp
<1>2. r.job \in Jobs /\ r.attempts \in 0..MaxAttempts /\ attempts[r.job] \in 0..MaxAttempts
  BY DEF Inv, Base, TypeOK, RowsTyped, Snapshot
<1>3. r.status \in {"pending", "processing"} /\ r.attempts <= attempts[r.job]
  BY DEF Inv, PassesOld
<1>4. attempts[r.job] = MaxAttempts
  BY <1>1, <1>2, <1>3, ConstantsTyped
<1>5. status[r.job] # "pending"
  BY <1>2, <1>4, ConstantsTyped DEF Inv, RowsFresh
<1> QED BY <1>1, <1>2, <1>3, <1>4, <1>5

LEMMA RecoverInv ==
  ASSUME Inv, Recover \/ RecoverThrows
  PROVE  Inv'
<1>1. Base'
  BY RecoverBase DEF Inv
<1>2. UNCHANGED <<lease, attempts, file, blobs, pc, job, token>>
  BY DEF Recover, RecoverStart, RecoverRequeue, RecoverGiveUp, RecoverThrows, table, slots
<1>3. Quiet
  BY <1>2 DEF Quiet, Active, Inv, UploadsStored
<1>4. PassesOld'
  <2>1. CASE RecoverStart
    <3>1. \A j \in Selected :
            j \in Jobs /\ status[j] \in {"pending", "processing"} /\ attempts[j] <= attempts[j]
      BY DEF Selected, Abandoned, Inv, Base, TypeOK, RowsTyped
    <3>2. todo' = {[job |-> j, status |-> status[j], attempts |-> attempts[j]] : j \in Selected}
      BY <2>1 DEF RecoverStart
    <3> QED BY <1>2, <3>1, <3>2 DEF PassesOld
  <2>2. CASE ~RecoverStart
    <3>1. todo' \subseteq todo
      BY <2>2 DEF Recover, RecoverRequeue, RecoverGiveUp, RecoverThrows
    <3> QED BY <1>2, <3>1 DEF Inv, PassesOld
  <2> QED BY <2>1, <2>2
<1>5. CASE UNCHANGED <<status, phase>>
  BY <1>1, <1>2, <1>3, <1>4, <1>5, QuietInv
<1>6. CASE ~UNCHANGED <<status, phase>>
  <2>1. PICK r \in todo : RecoverGiveUp(r)
    BY <1>6 DEF Recover, RecoverStart, RecoverRequeue, RecoverThrows, table
  <2>2. /\ r.job \in Jobs /\ status[r.job] = "processing"
        /\ SetJob(r.job, "failed", "failed")
    BY <1>6, <2>1, GivenUpForCause
  <2>3. /\ status'[r.job] = "failed"
        /\ \A k \in Jobs : k # r.job => status'[k] = status[k] /\ phase'[k] = phase[k]
    BY <2>2 DEF SetJob, Inv, Base, TypeOK, RowsTyped
  <2>4. LeasesCount' /\ TokensDiffer' /\ UploadsStored'
    BY <1>2 DEF Inv, LeasesCount, TokensDiffer, UploadsStored, Active
  <2>5. OwnersAnnounced'
    <3> SUFFICES ASSUME NEW h \in Handlers, pc'[h] \in Working, Owns(h)'
                 PROVE  phase'[job'[h]] = Announced(pc'[h])
      BY DEF OwnersAnnounced
    <3>1. pc[h] \in Working /\ job[h] \in Jobs /\ job[h] # r.job
      BY <1>2, <2>3 DEF Owns, Inv, Base, SlotsFilled, Working
    <3> QED BY <1>2, <2>3, <3>1 DEF Owns, Inv, OwnersAnnounced
  <2>6. RowsFresh' /\ CompletedFileOwned'
    BY <1>2, <2>2, <2>3 DEF Inv, RowsFresh, CompletedFileOwned
  <2> QED BY <1>1, <1>4, <2>4, <2>5, <2>6 DEF Inv
<1> QED BY <1>5, <1>6

LEMMA NextInv ==
  ASSUME Inv, [Next]_vars
  PROVE  Inv'
<1>1. CASE UNCHANGED vars
  <2>1. Base' /\ UNCHANGED <<status, phase, lease, attempts, file, blobs, pc, job, token, todo>>
    BY <1>1, NextBase DEF Inv, vars, table, slots
  <2>2. Quiet /\ PassesOld'
    BY <2>1 DEF Quiet, Active, Inv, UploadsStored, PassesOld
  <2> QED BY <2>1, <2>2, QuietInv
<1>2. CASE Worker
  <2> SUFFICES ASSUME NEW h \in Handlers,
                      \/ \E j \in Jobs : Deliver(h, j)
                      \/ HandlerStep(h) \/ Progress(h) \/ Heartbeat(h) \/ WorkThrows(h)
                      \/ ClaimThrows(h) \/ HeartbeatThrows(h) \/ Crash(h) \/ LockLapses(h)
               PROVE  Inv'
    BY <1>2 DEF Worker
  <2> QED
    BY DeliverInv, ClaimInv, AdvanceInv, UploadInv, CompleteInv, MarkFailedInv, AckInv,
       HeartbeatInv, ThrowsInv, CrashInv DEF HandlerStep
<1> QED BY <1>1, <1>2, ApiInv, RecoverInv, TickInv DEF Next

THEOREM InvHolds == Spec => []Inv
BY InitInv, NextInv, PTL DEF Spec

\* A completed job serves the file of its last attempt, which is in the storage,
\* and no other job serves one: the lease token of updateOwned keeps superseded
\* attempts from completing the job (capture.service.ts:1153, 1249).
THEOREM CompletedFileTheorem == Spec => []CompletedFileOwned
<1>1. Inv => CompletedFileOwned
  BY DEF Inv
<1> QED BY <1>1, InvHolds, PTL

-----------------------------------------------------------------------------
(* What a step may do to the table *)

\* createExportJob.
RowSaved(j) ==
  /\ status[j] = "none" /\ SetJob(j, "pending", "queued")
  /\ UNCHANGED <<lease, attempts, file>>

\* The claiming UPDATE.
RowClaimed(j) ==
  /\ Claimable(j) /\ SetJob(j, "processing", "counting")
  /\ attempts' = [attempts EXCEPT ![j] = @ + 1]
  /\ lease' = [lease EXCEPT ![j] = attempts[j] + 1]
  /\ UNCHANGED file

\* An attempt announces a phase, never an earlier one.
RowAnnounced(h) ==
  /\ pc[h] \in Working /\ Owns(h)
  /\ \E p \in Phases : /\ PhaseRank[phase[job[h]]] <= PhaseRank[p]
                       /\ SetJob(job[h], "processing", p)
  /\ UNCHANGED <<lease, attempts, file>>

RowCompleted(h) ==
  /\ Owns(h) /\ SetJob(job[h], "completed", "completed")
  /\ phase[job[h]] \in {"finalizing", "uploading"}
  /\ file' = [file EXCEPT ![job[h]] = token[h]]
  /\ UNCHANGED <<lease, attempts>>

RowFailed(h) ==
  /\ pc[h] = "failing" /\ Owns(h) /\ SetJob(job[h], "failed", "failed")
  /\ UNCHANGED <<lease, attempts, file>>

RowGivenUp(j) ==
  /\ status[j] = "processing" /\ attempts[j] = MaxAttempts /\ Stale(j)
  /\ SetJob(j, "failed", "failed")
  /\ UNCHANGED <<lease, attempts, file>>

RowsKept == UNCHANGED <<status, phase, lease, attempts, file>>

RowWritten ==
  \/ \E j \in Jobs : RowSaved(j) \/ RowClaimed(j) \/ RowGivenUp(j)
  \/ \E h \in Handlers :
       job[h] \in Jobs /\ (RowAnnounced(h) \/ RowCompleted(h) \/ RowFailed(h))

LEMMA RanksTyped ==
  /\ \A p \in Phases : PhaseRank[p] \in 0..8
  /\ PhaseRank["none"] = 0 /\ PhaseRank["failed"] = 8
  /\ PhaseRank["finalizing"] = 5 /\ PhaseRank["uploading"] = 6
  /\ PhaseRank["completed"] = 7
BY DEF PhaseRank, Phases

LEMMA FollowingIsLater ==
  ASSUME NEW p \in DOMAIN Following
  PROVE  PhaseRank[Announced(p)] <= PhaseRank[Following[p]]
BY DEF Following, PhaseRank, Announced

LEMMA AttemptWrites ==
  ASSUME Inv, NEW h \in Handlers, Advance(h) \/ Progress(h) \/ Complete(h)
  PROVE  RowsKept \/ (job[h] \in Jobs /\ (RowAnnounced(h) \/ RowCompleted(h)))
<1>1. pc[h] \in Working /\ job[h] \in Jobs
  BY FollowingTyped DEF Kept, Advance, Progress, Complete, Working, Inv, Base, SlotsFilled
<1>2. CASE ~(~lost[h] /\ Owns(h))
  BY <1>2 DEF Advance, Progress, Complete, UpdateOwned, RowsKept
<1>3. CASE ~lost[h] /\ Owns(h)
  <2>1. phase[job[h]] = Announced(pc[h])
    BY <1>1, <1>3 DEF Inv, OwnersAnnounced
  <2>2. CASE Advance(h)
    <3>1. PhaseRank[phase[job[h]]] <= PhaseRank[Following[pc[h]]] /\ Following[pc[h]] \in Phases
      BY <2>1, <2>2, FollowingIsLater, FollowingTyped DEF Advance
    <3> QED BY <1>1, <1>3, <2>2, <3>1 DEF Advance, UpdateOwned, RowAnnounced
  <2>3. CASE Progress(h)
    <3>1. phase[job[h]] = "exporting" /\ "exporting" \in Phases
      BY <2>1, <2>3 DEF Progress, Announced, Phases
    <3>2. PhaseRank["exporting"] <= PhaseRank["exporting"]
      BY <3>1, RanksTyped
    <3> QED BY <1>1, <1>3, <2>3, <3>1, <3>2 DEF Progress, UpdateOwned, RowAnnounced
  <2>4. CASE Complete(h)
    <3>1. phase[job[h]] \in {"finalizing", "uploading"}
      BY <2>1, <2>4 DEF Kept, Complete, Announced
    <3> QED BY <1>1, <1>3, <2>4, <3>1 DEF Complete, UpdateOwned, RowCompleted
  <2> QED BY <2>2, <2>3, <2>4
<1> QED BY <1>2, <1>3

\* Every step leaves the table alone or writes it in one of six ways.
LEMMA TableSteps ==
  ASSUME Inv, [Next]_vars
  PROVE  RowsKept \/ RowWritten
<1>1. CASE UNCHANGED vars
  BY <1>1 DEF vars, table, RowsKept
<1>2. CASE Api
  BY <1>2 DEF Api, CreateAndPublish, CreateAndProcess, Saved, RowSaved, RowWritten
<1>3. ASSUME NEW h \in Handlers, NEW j \in Jobs, Deliver(h, j) PROVE RowsKept
  BY <1>3 DEF Deliver, table, RowsKept
<1>4. ASSUME NEW h \in Handlers, HandlerStep(h) \/ Progress(h) PROVE RowsKept \/ RowWritten
  <2>1. CASE Claim(h)
    <3>1. job[h] \in Jobs
      BY <2>1 DEF Claim, Inv, Base, SlotsFilled
    <3> QED BY <2>1, <3>1 DEF Claim, RowClaimed, RowsKept, RowWritten
  <2>2. CASE Advance(h) \/ Progress(h) \/ Complete(h)
    BY <2>2, AttemptWrites DEF RowWritten
  <2>3. CASE MarkFailed(h)
    <3>1. job[h] \in Jobs
      BY <2>3 DEF MarkFailed, Inv, Base, SlotsFilled
    <3> QED BY <2>3, <3>1 DEF MarkFailed, RowFailed, RowsKept, RowWritten
  <2>4. CASE Upload(h) \/ StoreLocally(h) \/ Ack(h)
    BY <2>4 DEF Upload, StoreLocally, Ack, table, RowsKept
  <2> QED BY <1>4, <2>1, <2>2, <2>3, <2>4 DEF HandlerStep
<1>5. ASSUME NEW h \in Handlers,
             \/ Heartbeat(h) \/ WorkThrows(h) \/ ClaimThrows(h)
             \/ HeartbeatThrows(h) \/ Crash(h) \/ LockLapses(h)
      PROVE  RowsKept
  BY <1>5 DEF Heartbeat, WorkThrows, ClaimThrows, HeartbeatThrows, Crash, LockLapses, table, RowsKept
<1>6. CASE Recover \/ RecoverThrows
  <2>1. CASE UNCHANGED <<status, phase>>
    BY <1>6, <2>1
    DEF Recover, RecoverStart, RecoverRequeue, RecoverGiveUp, RecoverThrows, table, RowsKept
  <2>2. CASE ~UNCHANGED <<status, phase>>
    <3>1. PICK r \in todo : RecoverGiveUp(r)
      BY <1>6, <2>2 DEF Recover, RecoverStart, RecoverRequeue, RecoverThrows, table
    <3>2. /\ r.job \in Jobs /\ status[r.job] = "processing"
          /\ attempts[r.job] = MaxAttempts /\ Stale(r.job)
          /\ SetJob(r.job, "failed", "failed")
      BY <2>2, <3>1, GivenUpForCause
    <3> QED BY <3>1, <3>2 DEF RecoverGiveUp, RowGivenUp, RowWritten
  <2> QED BY <2>1, <2>2
<1>7. CASE Tick
  BY <1>7 DEF Tick, RowsKept
<1> QED BY <1>1, <1>2, <1>3, <1>4, <1>5, <1>6, <1>7 DEF Next, Worker

-----------------------------------------------------------------------------
(* What a step may never do *)

\* The state of one row, and of the rest, after a SetJob.
LEMMA SetJobRows ==
  ASSUME Inv, NEW j \in Jobs, NEW s, NEW p, SetJob(j, s, p)
  PROVE  /\ status'[j] = s /\ phase'[j] = p
         /\ \A k \in Jobs : k # j => status'[k] = status[k] /\ phase'[k] = phase[k]
BY DEF SetJob, Inv, Base, TypeOK, RowsTyped

\* A completed or failed job is never touched again: every UPDATE of a job
\* requires it unsettled (capture.service.ts:1153, 1178, 935).
THEOREM SettledIsFinalTheorem == Spec => SettledIsFinal
<1> DEFINE A == \A j \in Jobs :
                 Settled(j) => /\ status'[j] = status[j]
                               /\ file'[j] = file[j]
                               /\ lease'[j] = lease[j]
<1>1. ASSUME Inv, [Next]_vars PROVE A
  <2> SUFFICES ASSUME NEW j \in Jobs, status[j] \in {"completed", "failed"}, RowWritten
               PROVE  status'[j] = status[j] /\ file'[j] = file[j] /\ lease'[j] = lease[j]
    BY <1>1, TableSteps DEF RowsKept, Settled
  <2>1. ASSUME NEW k \in Jobs, RowSaved(k) \/ RowClaimed(k) \/ RowGivenUp(k)
        PROVE  k # j /\ status'[j] = status[j] /\ file'[j] = file[j] /\ lease'[j] = lease[j]
    BY <1>1, <2>1, SetJobRows
    DEF RowSaved, RowClaimed, RowGivenUp, Claimable, Inv, Base, TypeOK, RowsTyped
  <2>2. ASSUME NEW h \in Handlers, job[h] \in Jobs,
               RowAnnounced(h) \/ RowCompleted(h) \/ RowFailed(h)
        PROVE  status'[j] = status[j] /\ file'[j] = file[j] /\ lease'[j] = lease[j]
    <3>1. job[h] # j
      BY <2>2 DEF RowAnnounced, RowCompleted, RowFailed, Owns
    <3> QED BY <1>1, <2>2, <3>1, SetJobRows
            DEF RowAnnounced, RowCompleted, RowFailed, Inv, Base, TypeOK, RowsTyped
  <2> QED BY <2>1, <2>2 DEF RowWritten
<1>2. Inv /\ [Next]_vars => [A]_vars
  BY <1>1
<1>3. [][A]_vars => SettledIsFinal
  BY DEF SettledIsFinal
<1> QED BY <1>2, <1>3, InvHolds, PTL DEF Spec

\* A job fails by the error of the attempt that owns it, or out of attempts and
\* silent: the catch block and recoverExportJobs check what they had read
\* (capture.service.ts:1267, 935).
THEOREM FailedForCauseTheorem == Spec => FailedForCause
<1> DEFINE A == \A j \in Jobs :
                 status[j] # "failed" /\ status'[j] = "failed"
                   => \/ \E h \in Handlers : pc[h] = "failing" /\ job[h] = j /\ Owns(h)
                      \/ attempts[j] = MaxAttempts /\ Stale(j)
<1>1. ASSUME Inv, [Next]_vars PROVE A
  <2> SUFFICES ASSUME NEW j \in Jobs, status[j] # "failed", status'[j] = "failed", RowWritten
               PROVE  \/ \E h \in Handlers : pc[h] = "failing" /\ job[h] = j /\ Owns(h)
                      \/ attempts[j] = MaxAttempts /\ Stale(j)
    BY <1>1, TableSteps DEF RowsKept
  <2>1. ASSUME NEW k \in Jobs, RowSaved(k) \/ RowClaimed(k) \/ RowGivenUp(k)
        PROVE  attempts[j] = MaxAttempts /\ Stale(j)
    BY <1>1, <2>1, SetJobRows DEF RowSaved, RowClaimed, RowGivenUp
  <2>2. ASSUME NEW h \in Handlers, job[h] \in Jobs,
               RowAnnounced(h) \/ RowCompleted(h) \/ RowFailed(h)
        PROVE  pc[h] = "failing" /\ job[h] = j /\ Owns(h)
    BY <1>1, <2>2, SetJobRows DEF RowAnnounced, RowCompleted, RowFailed
  <2> QED BY <2>1, <2>2 DEF RowWritten
<1>2. Inv /\ [Next]_vars => [A]_vars
  BY <1>1
<1>3. [][A]_vars => FailedForCause
  BY DEF FailedForCause
<1> QED BY <1>2, <1>3, InvHolds, PTL DEF Spec

\* An attempt that gave a sign of life keeps its job: only it can fail it, and no
\* claim takes it over before it is stale (capture.service.ts:1178).
THEOREM LiveAttemptTheorem == Spec => LiveAttemptKeepsJob
<1> DEFINE A == \A h \in Handlers :
                 pc[h] \in Working /\ Owns(h) /\ ~Stale(job[h])
                   => /\ lease'[job[h]] = token[h]
                      /\ status'[job[h]] # "failed"
<1>1. ASSUME Inv, [Next]_vars PROVE A
  <2> SUFFICES ASSUME NEW h \in Handlers, pc[h] \in Working, Owns(h), ~Stale(job[h]), RowWritten
               PROVE  lease'[job[h]] = token[h] /\ status'[job[h]] # "failed"
    BY <1>1, TableSteps DEF RowsKept, Owns
  <2>1. /\ job[h] \in Jobs /\ lease[job[h]] = token[h] /\ status[job[h]] = "processing"
        /\ Active(h)
    BY <1>1 DEF Inv, Base, SlotsFilled, Owns, Active, Working
  <2>2. ASSUME NEW k \in Jobs, RowSaved(k) \/ RowClaimed(k) \/ RowGivenUp(k)
        PROVE  lease'[job[h]] = token[h] /\ status'[job[h]] # "failed"
    <3>1. k # job[h]
      BY <2>1, <2>2 DEF RowSaved, RowClaimed, RowGivenUp, Claimable
    <3> QED BY <1>1, <2>1, <2>2, <3>1, SetJobRows
            DEF RowSaved, RowClaimed, RowGivenUp, Inv, Base, TypeOK, RowsTyped
  <2>3. ASSUME NEW g \in Handlers, job[g] \in Jobs,
               RowAnnounced(g) \/ RowCompleted(g) \/ RowFailed(g)
        PROVE  lease'[job[h]] = token[h] /\ status'[job[h]] # "failed"
    <3>1. lease' = lease
      BY <2>3 DEF RowAnnounced, RowCompleted, RowFailed
    <3>2. CASE RowAnnounced(g) \/ RowCompleted(g)
      BY <1>1, <2>1, <2>3, <3>1, <3>2, SetJobRows DEF RowAnnounced, RowCompleted
    <3>3. CASE RowFailed(g)
      <4>1. Active(g) /\ g # h /\ lease[job[g]] = token[g] /\ SetJob(job[g], "failed", "failed")
        BY <3>3 DEF RowFailed, Active, Owns, Working
      <4>2. job[g] # job[h]
        BY <1>1, <2>1, <4>1 DEF Inv, TokensDiffer
      <4> QED BY <1>1, <2>1, <2>3, <3>1, <4>1, <4>2, SetJobRows
    <3> QED BY <2>3, <3>2, <3>3
  <2> QED BY <2>2, <2>3 DEF RowWritten
<1>2. Inv /\ [Next]_vars => [A]_vars
  BY <1>1
<1>3. [][A]_vars => LiveAttemptKeepsJob
  BY DEF LiveAttemptKeepsJob
<1> QED BY <1>2, <1>3, InvHolds, PTL DEF Spec

\* While one attempt holds the lease the phase only advances: no superseded
\* attempt can announce an earlier one (capture.service.ts:1153).
THEOREM PhaseTheorem == Spec => PhaseOnlyAdvances
<1> DEFINE A == \A j \in Jobs :
                 lease'[j] = lease[j] => PhaseRank[phase[j]] <= PhaseRank[phase'[j]]
<1>1. ASSUME Inv, [Next]_vars PROVE A
  <2> SUFFICES ASSUME NEW j \in Jobs, lease'[j] = lease[j]
               PROVE  PhaseRank[phase[j]] <= PhaseRank[phase'[j]]
    OBVIOUS
  <2>1. phase[j] \in Phases /\ PhaseRank[phase[j]] \in 0..8
    BY <1>1, RanksTyped DEF Inv, Base, TypeOK, RowsTyped
  <2>2. CASE phase'[j] = phase[j]
    BY <2>1, <2>2
  <2>3. ASSUME NEW k \in Jobs, RowSaved(k) \/ RowClaimed(k) \/ RowGivenUp(k), phase'[j] # phase[j]
        PROVE  PhaseRank[phase[j]] <= PhaseRank[phase'[j]]
    <3>1. CASE RowSaved(k)
      <4>1. k = j /\ phase[j] = "none"
        BY <1>1, <2>3, <3>1, SetJobRows DEF RowSaved, Inv, RowsFresh
      <4>2. phase'[j] \in Phases
        BY <1>1, NextInv DEF Inv, Base, TypeOK, RowsTyped
      <4>3. PhaseRank[phase[j]] = 0 /\ PhaseRank[phase'[j]] \in 0..8
        BY <4>1, <4>2, RanksTyped
      <4> QED BY <4>3
    <3>2. CASE RowClaimed(k)
      <4>1. k = j
        BY <1>1, <2>3, <3>2, SetJobRows DEF RowClaimed
      <4>2. lease'[j] = attempts[j] + 1 /\ lease[j] = attempts[j] /\ attempts[j] \in Nat
        BY <1>1, <3>2, <4>1 DEF RowClaimed, Inv, LeasesCount, Base, TypeOK, RowsTyped
      <4>3. \A n \in Nat : n + 1 # n
        OBVIOUS
      <4> QED BY <4>2, <4>3, Zenon
    <3>3. CASE RowGivenUp(k)
      <4>1. phase'[j] = "failed"
        BY <1>1, <2>3, <3>3, SetJobRows DEF RowGivenUp
      <4> QED BY <2>1, <4>1, RanksTyped
    <3> QED BY <2>3, <3>1, <3>2, <3>3
  <2>4. ASSUME NEW h \in Handlers, job[h] \in Jobs, phase'[j] # phase[j],
               RowAnnounced(h) \/ RowCompleted(h) \/ RowFailed(h)
        PROVE  PhaseRank[phase[j]] <= PhaseRank[phase'[j]]
    <3>1. job[h] = j
      BY <1>1, <2>4, SetJobRows DEF RowAnnounced, RowCompleted, RowFailed
    <3>2. CASE RowAnnounced(h)
      BY <1>1, <3>1, <3>2, SetJobRows DEF RowAnnounced
    <3>3. CASE RowCompleted(h)
      <4>1. phase[j] \in {"finalizing", "uploading"} /\ phase'[j] = "completed"
        BY <1>1, <3>1, <3>3, SetJobRows DEF RowCompleted
      <4> QED BY <4>1, RanksTyped
    <3>4. CASE RowFailed(h)
      <4>1. phase'[j] = "failed"
        BY <1>1, <3>1, <3>4, SetJobRows DEF RowFailed
      <4> QED BY <2>1, <4>1, RanksTyped
    <3> QED BY <2>4, <3>2, <3>3, <3>4
  <2>5. CASE RowsKept
    BY <2>2, <2>5 DEF RowsKept
  <2> QED BY <1>1, <2>2, <2>3, <2>4, <2>5, TableSteps DEF RowWritten
<1>2. Inv /\ [Next]_vars => [A]_vars
  BY <1>1
<1>3. [][A]_vars => PhaseOnlyAdvances
  BY DEF PhaseOnlyAdvances
<1> QED BY <1>2, <1>3, InvHolds, PTL DEF Spec

\* A job only moves forward: no late attempt announces an earlier phase or
\* touches a job that ended (capture.service.ts:1153, 1178, 935).
THEOREM JobAdvances == Spec => JobOnlyAdvances
BY PhaseTheorem, SettledIsFinalTheorem DEF JobOnlyAdvances

-----------------------------------------------------------------------------
(* The refinement *)

\* The lease protocol implements the lifecycle a client of the export sees
\* (ExportLifecycle), for any number of workers, crashes and duplicates.
THEOREM RefinementTheorem == Spec => ImplementsLifecycle
<1>1. Init => Lifecycle!Init
  BY DEF Init, Lifecycle!Init, NoToken
<1>2. ASSUME Inv, [Next]_vars PROVE [Lifecycle!Next]_(Lifecycle!vars)
  <2>1. CASE RowsKept
    BY <2>1 DEF RowsKept, Lifecycle!vars
  <2>2. ASSUME NEW j \in Jobs, RowSaved(j) \/ RowClaimed(j) \/ RowGivenUp(j)
        PROVE  Lifecycle!Next
    BY <2>2 DEF RowSaved, RowClaimed, RowGivenUp, SetJob, Claimable,
       Lifecycle!Next, Lifecycle!Request, Lifecycle!Begin, Lifecycle!GiveUp
  <2>3. ASSUME NEW h \in Handlers, job[h] \in Jobs,
               RowAnnounced(h) \/ RowCompleted(h) \/ RowFailed(h)
        PROVE  [Lifecycle!Next]_(Lifecycle!vars)
    <3>1. status[job[h]] = "processing" /\ token[h] = attempts[job[h]]
      BY <1>2, <2>3 DEF RowAnnounced, RowCompleted, RowFailed, Owns, Inv, LeasesCount
    <3>2. CASE RowAnnounced(h)
      <4>1. status' = [status EXCEPT ![job[h]] = "processing"] /\ UNCHANGED <<attempts, file>>
        BY <3>2 DEF RowAnnounced, SetJob
      <4>2. status' = status
        BY <1>2, <3>1, <4>1 DEF Inv, Base, TypeOK, RowsTyped
      <4> QED BY <4>1, <4>2 DEF Lifecycle!vars
    <3>3. CASE RowCompleted(h)
      BY <2>3, <3>1, <3>3 DEF RowCompleted, SetJob, Lifecycle!Next, Lifecycle!Deliver
    <3>4. CASE RowFailed(h)
      BY <2>3, <3>1, <3>4 DEF RowFailed, SetJob, Lifecycle!Next, Lifecycle!GiveUp
    <3> QED BY <2>3, <3>2, <3>3, <3>4
  <2> QED BY <1>2, <2>1, <2>2, <2>3, TableSteps DEF RowWritten
<1>3. Inv /\ [Next]_vars => [Lifecycle!Next]_(Lifecycle!vars)
  BY <1>2
<1> QED BY <1>1, <1>3, InvHolds, PTL DEF Spec, ImplementsLifecycle, Lifecycle!Spec

=============================================================================
