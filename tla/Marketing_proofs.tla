--------------------------- MODULE Marketing_proofs ---------------------------
(***************************************************************************)
(* Proofs about the executions of Meta, for any executions, report jobs,   *)
(* replicas, crashes, aborts and requests that fail; and about the         *)
(* extraction of daily figures, for any makers, workers, jobs, messages,   *)
(* deliveries and faults.                                                  *)
(***************************************************************************)
EXTENDS Marketing, FiniteSetTheorems, TLAPS

-----------------------------------------------------------------------------
(* The inductive invariant, execution by execution *)

\* Jobs that are not in rest were counted, and none failed if failed is 0.
Accounts(e, rest, done, failed, records) ==
  /\ done + Cardinality(rest) = Bulk!Total
  /\ failed + records = done
  /\ failed = 0 => Jobs \ rest \subseteq stored[e]

\* The row of e accounts for its jobs, while it runs and when it ended.
RowAccounts(e) ==
  exec[e] # NoExec =>
    LET row == exec[e] IN
      /\ row.status = "running" /\ row.pending # {} =>
           Accounts(e, row.pending, row.done, row.failed, row.records)
      /\ row.status \in {"completed", "partial"} =>
           row.records = Bulk!Total - row.failed /\ row.pending = {}
      /\ row.status = "completed" => stored[e] = Jobs
      /\ row.status = "aborted" =>
           e \in asked \/ (starter[e].at = "over" /\ ~Bulk!AnyStarted(e))

\* So does the copy of each poller, with the jobs it has looked at.
CopyAccounts(r, e) ==
  poll[r][e] # NoPoll =>
    LET p == poll[r][e] IN
      /\ exec[e] # NoExec
      /\ p.row.status = "running"
      /\ p.left \cap p.still = {}
      /\ Accounts(e, p.left \cup p.still, p.done, p.failed, p.records)

\* Who aborts, now or at the end of the start, was asked to.
AbortAsked(e) ==
  /\ aborting[e] # NoAbort => e \in asked /\ exec[e] # NoExec
  /\ \A r \in Replicas : e \in abortRequests[r] => e \in asked

Accounted(e) == RowAccounts(e) /\ (\A r \in Replicas : CopyAccounts(r, e)) /\ AbortAsked(e)

Unpolled(e) == \A r \in Replicas : poll[r][e] = NoPoll

\* An execution that was never in two hands is in one, as the row has it or
\* further on.
Alone(e) ==
  /\ starter[e].at \in {"queued", "starting", "direct"} =>
       aborting[e] = NoAbort /\ Unpolled(e) /\ exec[e] = Bulk!Started
  /\ aborting[e] # NoAbort =>
       aborting[e].row = exec[e] /\ exec[e].status = "running" /\ Unpolled(e)
  /\ \A r \in Replicas : poll[r][e] # NoPoll =>
       /\ poll[r][e].row = exec[e]
       /\ poll[r][e].left \cup poll[r][e].still \subseteq exec[e].pending
       /\ poll[r][e].records >= exec[e].records
       /\ \A s \in Replicas : poll[s][e] # NoPoll => s = r

BulkInv ==
  /\ Bulk!TypeOK
  /\ \A e \in Execs : Accounted(e) /\ (e \notin contended => Alone(e))

-----------------------------------------------------------------------------
(* The operators of the model *)

LEMMA SameCount == \A S : Bulk!Cardinality(S) = Cardinality(S)
BY DEF Bulk!Cardinality, Cardinality

LEMMA BulkConstants ==
  /\ Bulk!Total \in Nat /\ Cardinality(Jobs) = Bulk!Total
  /\ NoExec \notin Bulk!Row /\ NoPoll \notin Bulk!Poll
  /\ NoAbort \notin [row : Bulk!Row, replica : Replicas]
  /\ MaxRejects \in Nat /\ MaxCrashes \in Nat /\ MaxAborts \in Nat
  /\ Replicas # {}
BY MarketingConstants, FS_CardinalityType, SameCount DEF Bulk!Total

LEMMA SomeJobs ==
  ASSUME NEW S \in SUBSET Jobs
  PROVE  /\ IsFiniteSet(S) /\ Cardinality(S) \in Nat /\ Cardinality(S) \in 0..Bulk!Total
         /\ Cardinality(S) = 0 <=> S = {}
         /\ Cardinality(S) + Cardinality(Jobs \ S) = Bulk!Total
         /\ Cardinality(S) = Bulk!Total <=> S = Jobs
         /\ \A j \in S : Cardinality(S \ {j}) = Cardinality(S) - 1
<1>1. IsFiniteSet(Jobs)
  BY MarketingConstants
<1>2. IsFiniteSet(S) /\ Cardinality(S) \in Nat /\ Cardinality(S) <= Cardinality(Jobs)
      /\ (Cardinality(S) = Cardinality(Jobs) => S = Jobs)
  BY <1>1, FS_Subset, FS_CardinalityType
<1>3. Cardinality(S) = 0 <=> S = {}
  BY <1>2, FS_EmptySet
<1>4. Cardinality(Jobs \ S) = Cardinality(Jobs) - Cardinality(Jobs \cap S)
  BY <1>1, <1>2, FS_Difference
<1>5. Jobs \cap S = S
  OBVIOUS
<1>6. \A j \in S : Cardinality(S \ {j}) = Cardinality(S) - 1
  BY <1>2, FS_RemoveElement
<1>7. Cardinality(S) \in 0..Bulk!Total
  BY <1>2, BulkConstants
<1>8. Cardinality(S) + Cardinality(Jobs \ S) = Bulk!Total
  <2>1. Cardinality(Jobs \ S) = Cardinality(Jobs) - Cardinality(S)
    BY <1>4, <1>5, Zenon
  <2> QED BY <1>2, <2>1, BulkConstants
<1>9. Cardinality(S) = Bulk!Total <=> S = Jobs
  BY <1>2, BulkConstants
<1> QED BY <1>2, <1>3, <1>6, <1>7, <1>8, <1>9

LEMMA RowsTyped ==
  /\ Bulk!Started \in Bulk!Row
  /\ \A failed, records \in 0..Bulk!Total, b \in BOOLEAN :
       Bulk!Finalized(failed, records, b) \in Bulk!Row
  /\ \A lost \in SUBSET Jobs : Bulk!AfterStart(lost) \in Bulk!Row
<1>1. Bulk!Started \in Bulk!Row
  BY BulkConstants DEF Bulk!Started, Bulk!Row
<1>2. ASSUME NEW failed \in 0..Bulk!Total, NEW records \in 0..Bulk!Total, NEW b \in BOOLEAN
      PROVE  Bulk!Finalized(failed, records, b) \in Bulk!Row
  <2>1. Bulk!Total - failed \in 0..Bulk!Total
    BY BulkConstants
  <2>2. Bulk!Outcome(failed, records) \in {"completed", "partial", "failed"}
    BY DEF Bulk!Outcome
  <2> QED BY <2>1, <2>2 DEF Bulk!Finalized, Bulk!Started, Bulk!Row, Bulk!Terminal
<1>3. ASSUME NEW lost \in SUBSET Jobs PROVE Bulk!AfterStart(lost) \in Bulk!Row
  BY BulkConstants, SomeJobs, SameCount DEF Bulk!AfterStart, Bulk!Started, Bulk!Row
<1> QED BY <1>1, <1>2, <1>3

-----------------------------------------------------------------------------
(* Types *)

\* A step that concerns e leaves the other executions as they were.
SameAt(e) ==
  /\ exec'[e] = exec[e] /\ starter'[e] = starter[e] /\ remote'[e] = remote[e]
  /\ stored'[e] = stored[e] /\ aborting'[e] = aborting[e]
  /\ \A r \in Replicas : poll'[r][e] = poll[r][e]
                         /\ (e \in abortRequests'[r] <=> e \in abortRequests[r])
  /\ e \in asked' <=> e \in asked
  /\ e \in contended' <=> e \in contended

LEMMA SameAtKeeps ==
  ASSUME NEW e \in Execs, SameAt(e), Accounted(e), e \notin contended => Alone(e)
  PROVE  Accounted(e)' /\ (e \notin contended' => Alone(e)')
<1>1. RowAccounts(e)'
  BY DEF SameAt, Accounted, RowAccounts, Accounts, Bulk!AnyStarted
<1>2. \A r \in Replicas : CopyAccounts(r, e)'
  BY DEF SameAt, Accounted, CopyAccounts, Accounts
<1>3. AbortAsked(e)'
  BY DEF SameAt, Accounted, AbortAsked
<1>4. e \notin contended' => Alone(e)'
  BY DEF SameAt, Alone, Unpolled
<1> QED BY <1>1, <1>2, <1>3, <1>4 DEF Accounted

LEMMA OneExecution ==
  ASSUME BulkInv, NEW e \in Execs, Bulk!TypeOK', \A f \in Execs \ {e} : SameAt(f),
         Accounted(e)', e \notin contended' => Alone(e)'
  PROVE  BulkInv'
<1> SUFFICES ASSUME NEW f \in Execs
             PROVE  Accounted(f)' /\ (f \notin contended' => Alone(f)')
  BY DEF BulkInv
<1>1. CASE f = e
  BY <1>1
<1>2. CASE f # e
  BY <1>2, SameAtKeeps DEF BulkInv
<1> QED BY <1>1, <1>2

-----------------------------------------------------------------------------
(* The processes that start executions *)

LEMMA StartKeeps ==
  ASSUME BulkInv, NEW r \in Replicas, NEW e \in Execs,
         Bulk!StartDirect(r, e) \/ Bulk!EnqueueBulk(r, e)
  PROVE  BulkInv'
<1> USE DEF BulkInv
<1>1. PICK at \in {"direct", "queued"} :
        /\ exec[e] = NoExec
        /\ exec' = [exec EXCEPT ![e] = Bulk!Started]
        /\ starter' = [starter EXCEPT ![e] = [at |-> at, replica |-> r]]
        /\ UNCHANGED <<contended, remote, stored, poll, abortRequests, aborting, asked,
                       rejects, crashes, aborts>>
  BY DEF Bulk!StartDirect, Bulk!EnqueueBulk
<1>2. Bulk!Started \in Bulk!Row /\ Bulk!Started # NoExec
  BY RowsTyped, BulkConstants
<1>3. Bulk!TypeOK'
  BY <1>1, <1>2 DEF Bulk!TypeOK, Bulk!Starter
<1>4. \A f \in Execs \ {e} : SameAt(f)
  BY <1>1 DEF Bulk!TypeOK, SameAt
<1>5. exec'[e] = Bulk!Started /\ starter'[e].at = at
  BY <1>1 DEF Bulk!TypeOK
<1>6. Unpolled(e) /\ aborting[e] = NoAbort
  BY <1>1 DEF Accounted, CopyAccounts, AbortAsked, Unpolled
<1>7. RowAccounts(e)'
  BY <1>5 DEF RowAccounts, Bulk!Started
<1>8. (\A s \in Replicas : CopyAccounts(s, e)') /\ AbortAsked(e)' /\ Alone(e)'
  BY <1>1, <1>5, <1>6 DEF Accounted, CopyAccounts, AbortAsked, Unpolled, Alone
<1> QED BY <1>3, <1>4, <1>7, <1>8, OneExecution DEF Accounted

LEMMA FinishDirectKeeps ==
  ASSUME BulkInv, NEW e \in Execs, NEW ok \in BOOLEAN, Bulk!FinishDirect(e, ok)
  PROVE  BulkInv'
<1> USE DEF BulkInv
<1> DEFINE row == [Bulk!Started EXCEPT !.status = IF ok THEN "completed" ELSE "failed",
                                       !.records = IF ok THEN Bulk!Total ELSE 0]
           now == IF ok THEN Jobs ELSE stored[e]
<1>1. /\ starter[e].at = "direct" /\ exec' = [exec EXCEPT ![e] = row]
      /\ stored' = [stored EXCEPT ![e] = now]
      /\ starter' = [starter EXCEPT ![e].at = "over"]
      /\ UNCHANGED <<contended, remote, poll, abortRequests, aborting, asked, rejects,
                     crashes, aborts>>
  BY DEF Bulk!FinishDirect, Bulk!Save, Bulk!At
<1>2. /\ row \in Bulk!Row /\ row # NoExec /\ row.pending = {} /\ row.failed = 0
      /\ row.status \in {"completed", "failed"}
      /\ row.status = "completed" => ok /\ row.records = Bulk!Total
  <2>1. row.pending = {} /\ row.failed = 0 /\ row.status \in {"completed", "failed"}
        /\ (row.status = "completed" => ok /\ row.records = Bulk!Total)
    BY DEF Bulk!Started
  <2>2. row \in Bulk!Row
    <3>1. 0 \in 0..Bulk!Total /\ Bulk!Total \in 0..Bulk!Total
      BY BulkConstants
    <3> QED BY <3>1 DEF Bulk!Started, Bulk!Row, Bulk!Terminal
  <2> QED BY <2>1, <2>2, BulkConstants
<1>3. now \in SUBSET Jobs /\ stored[e] \subseteq now /\ (ok => now = Jobs)
  BY DEF Bulk!TypeOK
<1> HIDE DEF row, now
<1>4. Bulk!TypeOK'
  BY <1>1, <1>2, <1>3 DEF Bulk!TypeOK, Bulk!Starter
<1>5. \A f \in Execs \ {e} : SameAt(f)
  BY <1>1 DEF Bulk!TypeOK, SameAt
<1>6. exec'[e] = row /\ starter'[e].at = "over" /\ stored'[e] = now
  BY <1>1 DEF Bulk!TypeOK, Bulk!Starter
<1>7. RowAccounts(e)'
  BY <1>2, <1>3, <1>6, BulkConstants DEF RowAccounts
<1>8. (\A s \in Replicas : CopyAccounts(s, e)') /\ AbortAsked(e)'
  BY <1>1, <1>2, <1>3, <1>6 DEF Accounted, CopyAccounts, Accounts, AbortAsked
<1>9. e \notin contended' => Alone(e)'
  BY <1>1, <1>6 DEF Alone, Unpolled
<1> QED BY <1>4, <1>5, <1>7, <1>8, <1>9, OneExecution DEF Accounted

LEMMA BeginPhase1Keeps ==
  ASSUME BulkInv, NEW e \in Execs, Bulk!BeginPhase1(e)
  PROVE  BulkInv'
<1> USE DEF BulkInv
<1>1. /\ starter[e].at = "queued" /\ exec' = [exec EXCEPT ![e] = Bulk!Started]
      /\ starter' = [starter EXCEPT ![e].at = "starting"]
      /\ UNCHANGED <<contended, remote, stored, poll, abortRequests, aborting, asked, rejects,
                     crashes, aborts>>
  BY DEF Bulk!BeginPhase1, Bulk!Save, Bulk!At
<1>2. Bulk!Started \in Bulk!Row /\ Bulk!Started # NoExec
  BY RowsTyped, BulkConstants
<1>3. Bulk!TypeOK'
  BY <1>1, <1>2 DEF Bulk!TypeOK, Bulk!Starter
<1>4. \A f \in Execs \ {e} : SameAt(f)
  BY <1>1 DEF Bulk!TypeOK, SameAt
<1>5. exec'[e] = Bulk!Started /\ starter'[e].at = "starting"
  BY <1>1 DEF Bulk!TypeOK, Bulk!Starter
<1>6. RowAccounts(e)'
  BY <1>5 DEF RowAccounts, Bulk!Started
<1>7. (\A s \in Replicas : CopyAccounts(s, e)') /\ AbortAsked(e)'
  BY <1>1, <1>2, <1>5 DEF Accounted, CopyAccounts, Accounts, AbortAsked
<1>8. e \notin contended' => Alone(e)'
  BY <1>1, <1>5 DEF Alone, Unpolled
<1> QED BY <1>3, <1>4, <1>6, <1>7, <1>8, OneExecution DEF Accounted

LEMMA EndPhase1Keeps ==
  ASSUME BulkInv, NEW e \in Execs, NEW lost \in SUBSET Jobs, Bulk!EndPhase1(e, lost)
  PROVE  BulkInv'
<1> USE DEF BulkInv
<1> DEFINE started == [j \in Jobs |-> IF j \in lost THEN "none" ELSE "running"]
           ended == lost = Jobs \/ e \in abortRequests[starter[e].replica]
<1>0. starter[e] \in Bulk!Starter /\ starter[e].replica \in Replicas
  BY DEF Bulk!TypeOK, Bulk!Starter
<1>1. /\ starter[e].at = "starting"
      /\ remote' = [remote EXCEPT ![e] = started]
      /\ starter' = [starter EXCEPT ![e].at = "over"]
      /\ UNCHANGED <<contended, stored, poll, aborting, asked, rejects, crashes, aborts>>
      /\ IF ended
           THEN /\ abortRequests' = [abortRequests EXCEPT ![starter[e].replica] = @ \ {e}]
                /\ exec' = [exec EXCEPT ![e] = Bulk!Finalized(Cardinality(lost), 0, TRUE)]
           ELSE exec' = [exec EXCEPT ![e] = Bulk!AfterStart(lost)] /\ abortRequests' = abortRequests
  BY SameCount DEF Bulk!EndPhase1, Bulk!Save, Bulk!At
<1>2. PICK row \in Bulk!Row :
        /\ exec' = [exec EXCEPT ![e] = row]
        /\ ended => row = Bulk!Finalized(Cardinality(lost), 0, TRUE)
        /\ ~ended => row = Bulk!AfterStart(lost)
  <2>1. Cardinality(lost) \in 0..Bulk!Total /\ 0 \in 0..Bulk!Total
    BY SomeJobs, BulkConstants
  <2>2. Bulk!Finalized(Cardinality(lost), 0, TRUE) \in Bulk!Row
        /\ Bulk!AfterStart(lost) \in Bulk!Row
    BY <2>1, RowsTyped
  <2> QED BY <1>1, <2>2
<1>3. /\ abortRequests' \in [Replicas -> SUBSET Execs]
      /\ \A s \in Replicas : abortRequests'[s] \subseteq abortRequests[s]
                             /\ abortRequests[s] \subseteq abortRequests'[s] \cup {e}
  <2>1. CASE ended
    <3>1. /\ abortRequests \in [Replicas -> SUBSET Execs]
          /\ abortRequests' = [abortRequests EXCEPT ![starter[e].replica] = @ \ {e}]
      BY <1>1, <2>1 DEF Bulk!TypeOK
    <3> QED BY <1>0, <3>1
  <2>2. CASE ~ended
    BY <1>1, <2>2 DEF Bulk!TypeOK
  <2> QED BY <2>1, <2>2
<1>4. started \in [Jobs -> {"none", "running", "complete", "failed"}]
      /\ (lost = Jobs => started = [j \in Jobs |-> "none"])
  <2>1. started \in [Jobs -> {"none", "running", "complete", "failed"}]
    OBVIOUS
  <2>2. ASSUME lost = Jobs PROVE started = [j \in Jobs |-> "none"]
    BY <2>2
  <2> QED BY <2>1, <2>2
<1> HIDE DEF started, ended
<1>5. row # NoExec
  BY BulkConstants
<1>6. Bulk!TypeOK'
  <2>1. /\ starter' \in [Execs -> Bulk!Starter]
        /\ remote' \in [Execs -> [Jobs -> {"none", "running", "complete", "failed"}]]
        /\ exec' \in [Execs -> Bulk!Row \cup {NoExec}]
    <3>1. starter' \in [Execs -> Bulk!Starter]
      <4>1. [starter[e] EXCEPT !.at = "over"] \in Bulk!Starter
        BY <1>0 DEF Bulk!Starter
      <4>2. starter' = [starter EXCEPT ![e] = [starter[e] EXCEPT !.at = "over"]]
        BY <1>1
      <4> QED BY <4>1, <4>2 DEF Bulk!TypeOK
    <3>2. remote' \in [Execs -> [Jobs -> {"none", "running", "complete", "failed"}]]
      BY <1>1, <1>4 DEF Bulk!TypeOK
    <3>3. exec' \in [Execs -> Bulk!Row \cup {NoExec}]
      BY <1>2 DEF Bulk!TypeOK
    <3> QED BY <3>1, <3>2, <3>3
  <2>2. \A f \in Execs : exec'[f] = NoExec <=> starter'[f].at = "none"
    BY <1>1, <1>2, <1>5 DEF Bulk!TypeOK, Bulk!Starter
  <2>3. /\ stored' = stored /\ poll' = poll /\ aborting' = aborting /\ asked' = asked
        /\ contended' = contended /\ rejects' = rejects /\ crashes' = crashes
        /\ aborts' = aborts
    BY <1>1
  <2> QED BY <1>3, <2>1, <2>2, <2>3 DEF Bulk!TypeOK
<1>7. \A f \in Execs \ {e} : SameAt(f)
  BY <1>1, <1>2, <1>3 DEF Bulk!TypeOK, SameAt
<1>8. exec'[e] = row /\ starter'[e].at = "over" /\ remote'[e] = started
  BY <1>1, <1>2 DEF Bulk!TypeOK, Bulk!Starter
<1>9. RowAccounts(e)'
  <2>1. CASE ended
    <3>1. row.status = "aborted"
      BY <1>2, <2>1 DEF Bulk!Finalized, Bulk!Started
    <3>2. lost = Jobs \/ e \in asked
      BY <1>0, <2>1 DEF ended, Accounted, AbortAsked
    <3> QED BY <1>1, <1>4, <1>8, <3>1, <3>2 DEF RowAccounts, Bulk!AnyStarted
  <2>2. CASE ~ended
    <3>1. /\ row.status = "running" /\ row.pending = Jobs \ lost
          /\ row.done = Cardinality(lost) /\ row.failed = Cardinality(lost) /\ row.records = 0
      BY <1>2, <2>2, SameCount DEF Bulk!AfterStart, Bulk!Started
    <3>2. /\ Cardinality(lost) \in Nat /\ (Cardinality(lost) = 0 => lost = {})
          /\ Cardinality(lost) + Cardinality(Jobs \ lost) = Bulk!Total
      BY SomeJobs
    <3>3. Accounts(e, Jobs \ lost, Cardinality(lost), Cardinality(lost), 0)'
      <4>1. Jobs \ (Jobs \ lost) = lost
        OBVIOUS
      <4>2. 0 \in Nat /\ Cardinality(lost) + 0 = Cardinality(lost)
        BY <3>2
      <4> QED BY <3>2, <4>1, <4>2 DEF Accounts
    <3> QED BY <1>8, <3>1, <3>3 DEF RowAccounts
  <2> QED BY <2>1, <2>2
<1>10. (\A s \in Replicas : CopyAccounts(s, e)') /\ AbortAsked(e)'
  BY <1>1, <1>3, <1>5, <1>8 DEF Accounted, CopyAccounts, Accounts, AbortAsked
<1>11. e \notin contended' => Alone(e)'
  BY <1>1, <1>8 DEF Alone, Unpolled
<1> QED BY <1>6, <1>7, <1>9, <1>10, <1>11, OneExecution DEF Accounted

LEMMA SettleKeeps ==
  ASSUME BulkInv, NEW e \in Execs, NEW j \in Jobs, NEW s \in {"complete", "failed"},
         Bulk!Settle(e, j, s)
  PROVE  BulkInv'
<1> USE DEF BulkInv
<1>1. /\ remote[e][j] = "running" /\ remote' = [remote EXCEPT ![e][j] = s]
      /\ UNCHANGED <<contended, exec, starter, stored, poll, abortRequests, aborting, asked,
                     rejects, crashes, aborts>>
  BY DEF Bulk!Settle
<1>2. Bulk!TypeOK'
  BY <1>1 DEF Bulk!TypeOK
<1>3. \A f \in Execs \ {e} : SameAt(f)
  BY <1>1 DEF Bulk!TypeOK, SameAt
<1>4. Bulk!AnyStarted(e)
  BY <1>1 DEF Bulk!AnyStarted
<1>5. RowAccounts(e)'
  BY <1>1, <1>4 DEF Accounted, RowAccounts, Accounts
<1>6. (\A q \in Replicas : CopyAccounts(q, e)') /\ AbortAsked(e)'
  BY <1>1 DEF Accounted, CopyAccounts, Accounts, AbortAsked
<1>7. e \notin contended' => Alone(e)'
  BY <1>1 DEF Alone, Unpolled
<1> QED BY <1>2, <1>3, <1>5, <1>6, <1>7, OneExecution DEF Accounted

-----------------------------------------------------------------------------
(* The pollers *)

LEMMA CopiesTyped ==
  \A row \in Bulk!Row : Bulk!CopyOf(row) \in Bulk!Poll /\ Bulk!CopyOf(row) # NoPoll
<1> SUFFICES ASSUME NEW row \in Bulk!Row PROVE Bulk!CopyOf(row) \in Bulk!Poll
  BY BulkConstants
<1> QED BY DEF Bulk!CopyOf, Bulk!Row, Bulk!Poll

LEMMA HeldNone ==
  ASSUME NEW e \in Execs, Bulk!Contend(e)
  PROVE  /\ contended' = contended \/ contended' = contended \cup {e}
         /\ e \notin contended' =>
              /\ e \notin contended
              /\ starter[e].at \notin {"queued", "starting", "direct"}
              /\ aborting[e] = NoAbort /\ Unpolled(e)
BY DEF Bulk!Contend, Bulk!Held, Unpolled

LEMMA PollReadKeeps ==
  ASSUME BulkInv, NEW r \in Replicas, NEW e \in Execs, Bulk!PollRead(r, e)
  PROVE  BulkInv'
<1> USE DEF BulkInv
<1>1. /\ exec[e] # NoExec /\ exec[e].status = "running" /\ exec[e].pending # {}
      /\ poll[r][e] = NoPoll
      /\ Bulk!Contend(e)
      /\ UNCHANGED <<exec, starter, remote, stored, abortRequests, aborting, asked, rejects,
                     crashes, aborts>>
  BY DEF Bulk!PollRead
<1>2. exec[e] \in Bulk!Row
  BY <1>1 DEF Bulk!TypeOK
<1>3. PICK copy \in Bulk!Poll :
        /\ copy # NoPoll /\ poll' = [poll EXCEPT ![r][e] = copy]
        /\ copy.row = exec[e] /\ copy.left = exec[e].pending /\ copy.still = {}
        /\ copy.done = exec[e].done /\ copy.failed = exec[e].failed
        /\ copy.records = exec[e].records
  BY <1>2, CopiesTyped DEF Bulk!PollRead, Bulk!CopyOf
<1>4. /\ contended' = contended \/ contended' = contended \cup {e}
      /\ e \notin contended' =>
           /\ e \notin contended
           /\ starter[e].at \notin {"queued", "starting", "direct"}
           /\ aborting[e] = NoAbort /\ Unpolled(e)
  BY <1>1, HeldNone
<1>5. /\ poll' \in [Replicas -> [Execs -> Bulk!Poll \cup {NoPoll}]]
      /\ \A s \in Replicas, f \in Execs :
           poll'[s][f] = IF s = r /\ f = e THEN copy ELSE poll[s][f]
  BY <1>3 DEF Bulk!TypeOK
<1>6. Bulk!TypeOK'
  BY <1>1, <1>4, <1>5 DEF Bulk!TypeOK
<1>7. \A f \in Execs \ {e} : SameAt(f)
  BY <1>1, <1>4, <1>5 DEF SameAt
<1>8. RowAccounts(e)' /\ AbortAsked(e)'
  BY <1>1 DEF Accounted, RowAccounts, Accounts, AbortAsked, Bulk!AnyStarted
<1>9. ASSUME NEW s \in Replicas PROVE CopyAccounts(s, e)'
  <2>1. CASE s = r
    <3>1. Accounts(e, exec[e].pending, exec[e].done, exec[e].failed, exec[e].records)
      BY <1>1 DEF Accounted, RowAccounts
    <3>2. copy.left \cup copy.still = copy.left /\ copy.left \cap copy.still = {}
      BY <1>3
    <3>3. poll'[s][e] = copy
      BY <1>5, <2>1
    <3> QED BY <1>1, <1>3, <3>1, <3>2, <3>3 DEF CopyAccounts, Accounts
  <2>2. CASE s # r
    <3>1. poll'[s][e] = poll[s][e] /\ exec' = exec /\ stored' = stored
      BY <1>1, <1>5, <2>2
    <3>2. CopyAccounts(s, e)
      BY DEF Accounted
    <3> QED BY <3>1, <3>2 DEF CopyAccounts, Accounts
  <2> QED BY <2>1, <2>2
<1>10. ASSUME e \notin contended' PROVE Alone(e)'
  <2>1. /\ starter[e].at \notin {"queued", "starting", "direct"}
        /\ aborting[e] = NoAbort /\ \A s \in Replicas : poll[s][e] = NoPoll
    BY <1>4, <1>10 DEF Unpolled
  <2>2. /\ exec[e].records \in Int /\ copy.left \cup copy.still \subseteq exec[e].pending
    BY <1>2, <1>3, BulkConstants DEF Bulk!Row
  <2> QED BY <1>1, <1>3, <1>5, <2>1, <2>2 DEF Alone
<1> QED BY <1>6, <1>7, <1>8, <1>9, <1>10, OneExecution DEF Accounted

\* A poller that goes on with its copy.
LEMMA PollGoesOn ==
  ASSUME BulkInv, NEW r \in Replicas, NEW e \in Execs, NEW copy \in Bulk!Poll,
         poll[r][e] # NoPoll, poll' = [poll EXCEPT ![r][e] = copy],
         copy.row = poll[r][e].row, copy.left \cap copy.still = {},
         copy.left \cup copy.still \subseteq poll[r][e].left \cup poll[r][e].still,
         copy.records >= poll[r][e].records,
         copy.done + Cardinality(copy.left \cup copy.still) = Bulk!Total,
         copy.failed + copy.records = copy.done,
         copy.failed = 0 => Jobs \ (copy.left \cup copy.still) \subseteq stored'[e],
         stored' \in [Execs -> SUBSET Jobs], stored[e] \subseteq stored'[e],
         \A f \in Execs \ {e} : stored'[f] = stored[f],
         rejects' \in 0..MaxRejects,
         UNCHANGED <<contended, exec, starter, remote, abortRequests, aborting, asked, crashes,
                     aborts>>
  PROVE  BulkInv'
<1> USE DEF BulkInv
<1>1. /\ poll' \in [Replicas -> [Execs -> Bulk!Poll \cup {NoPoll}]]
      /\ \A s \in Replicas, f \in Execs :
           poll'[s][f] = IF s = r /\ f = e THEN copy ELSE poll[s][f]
  BY DEF Bulk!TypeOK
<1>2. Bulk!TypeOK'
  BY <1>1 DEF Bulk!TypeOK
<1>3. \A f \in Execs \ {e} : SameAt(f)
  BY <1>1 DEF SameAt
<1>4. RowAccounts(e)'
  <2>1. RowAccounts(e) /\ stored[e] \subseteq stored'[e] /\ stored'[e] \subseteq Jobs
    BY DEF Accounted
  <2> QED BY <2>1 DEF RowAccounts, Accounts, Bulk!AnyStarted
<1>5. AbortAsked(e)'
  BY DEF Accounted, AbortAsked
<1>6. poll[r][e].row.status = "running" /\ exec[e] # NoExec
  BY DEF Accounted, CopyAccounts
<1>7. ASSUME NEW s \in Replicas PROVE CopyAccounts(s, e)'
  <2>1. CASE s = r
    <3>1. poll'[s][e] = copy
      BY <1>1, <2>1
    <3> QED BY <1>6, <3>1 DEF CopyAccounts, Accounts
  <2>2. CASE s # r
    <3>1. poll'[s][e] = poll[s][e] /\ exec' = exec /\ stored[e] \subseteq stored'[e]
      BY <1>1, <2>2
    <3>2. CopyAccounts(s, e)
      BY DEF Accounted
    <3> QED BY <3>1, <3>2 DEF CopyAccounts, Accounts
  <2> QED BY <2>1, <2>2
<1>8. ASSUME e \notin contended' PROVE Alone(e)'
  <2>1. Alone(e)
    BY <1>8
  <2>2. /\ starter[e].at \notin {"queued", "starting", "direct"} /\ aborting[e] = NoAbort
        /\ poll[r][e].row = exec[e]
        /\ poll[r][e].left \cup poll[r][e].still \subseteq exec[e].pending
        /\ poll[r][e].records >= exec[e].records
        /\ \A s \in Replicas \ {r} : poll[s][e] = NoPoll
    BY <2>1 DEF Alone, Unpolled
  <2>3. copy.records >= exec[e].records
    <3>1. poll[r][e] \in Bulk!Poll /\ exec[e] \in Bulk!Row
      BY <1>6 DEF Bulk!TypeOK
    <3>2. copy.records \in Int /\ poll[r][e].records \in Int /\ exec[e].records \in Int
      BY <3>1, BulkConstants DEF Bulk!Poll, Bulk!Row
    <3> QED BY <2>2, <3>2
  <2>4. \A s \in Replicas : poll'[s][e] # NoPoll => s = r
    BY <1>1, <2>2
  <2>5. poll'[r][e] = copy
    BY <1>1
  <2> QED BY <2>2, <2>3, <2>4, <2>5 DEF Alone
<1> QED BY <1>2, <1>3, <1>4, <1>5, <1>7, <1>8, OneExecution DEF Accounted

\* The jobs of a copy, before and after one of them was looked at.
LEMMA CopyCounts ==
  ASSUME BulkInv, NEW r \in Replicas, NEW e \in Execs, NEW j \in Jobs, Bulk!Polling(r, e, j)
  PROVE  LET p == poll[r][e]
             rest == (p.left \ {j}) \cup p.still IN
         /\ p \in Bulk!Poll /\ p # NoPoll /\ p.left \cap p.still = {}
         /\ p.done \in Nat /\ p.failed \in Nat /\ p.records \in Nat
         /\ p.failed + p.records = p.done
         /\ p.done + 1 <= Bulk!Total
         /\ p.done + 1 + Cardinality(rest) = Bulk!Total
         /\ rest \in SUBSET (p.left \cup p.still) /\ j \notin rest
         /\ p.done + Cardinality(p.left \cup p.still) = Bulk!Total
         /\ p.failed = 0 => Jobs \ (p.left \cup p.still) \subseteq stored[e]
<1> DEFINE p == poll[r][e]
           all == p.left \cup p.still
           rest == (p.left \ {j}) \cup p.still
<1>1. p # NoPoll /\ j \in p.left
  BY DEF Bulk!Polling
<1>2. p \in Bulk!Poll
  BY <1>1 DEF BulkInv, Bulk!TypeOK
<1>3. p.left \cap p.still = {} /\ Accounts(e, all, p.done, p.failed, p.records)
  BY <1>1 DEF BulkInv, Accounted, CopyAccounts
<1>4. p.done \in Nat /\ p.failed \in Nat /\ p.records \in Nat /\ all \in SUBSET Jobs
  BY <1>2, BulkConstants DEF Bulk!Poll
<1>5. rest = all \ {j} /\ j \in all /\ rest \in SUBSET Jobs
  BY <1>1, <1>3, <1>4
<1> HIDE DEF p, all, rest
<1>6. Cardinality(rest) = Cardinality(all) - 1 /\ Cardinality(all) \in Nat
      /\ Cardinality(rest) \in Nat
  <2>1. Cardinality(all) \in Nat /\ \A i \in all : Cardinality(all \ {i}) = Cardinality(all) - 1
    BY <1>4, SomeJobs
  <2>2. Cardinality(all \ {j}) = Cardinality(all) - 1
    BY <1>5, <2>1
  <2>3. Cardinality(rest) \in Nat
    BY <1>5, SomeJobs
  <2> QED BY <1>5, <2>1, <2>2, <2>3
<1>7. p.done + 1 + Cardinality(rest) = Bulk!Total /\ p.done + 1 <= Bulk!Total
      /\ p.done + Cardinality(all) = Bulk!Total
  BY <1>3, <1>4, <1>6, BulkConstants DEF Accounts
<1>8. rest \in SUBSET all /\ j \notin rest
  BY <1>5
<1> USE DEF p, all, rest
<1> QED BY <1>1, <1>2, <1>3, <1>4, <1>7, <1>8 DEF Accounts

LEMMA PollStoredKeeps ==
  ASSUME BulkInv, NEW r \in Replicas, NEW e \in Execs, NEW j \in Jobs,
         Bulk!PollStored(r, e, j)
  PROVE  BulkInv'
<1> DEFINE p == poll[r][e]
           rest == (p.left \ {j}) \cup p.still
<1>1. /\ p \in Bulk!Poll /\ p # NoPoll /\ p.left \cap p.still = {}
      /\ p.done \in Nat /\ p.failed \in Nat /\ p.records \in Nat
      /\ p.failed + p.records = p.done
      /\ p.done + 1 <= Bulk!Total /\ p.done + 1 + Cardinality(rest) = Bulk!Total
      /\ rest \in SUBSET (p.left \cup p.still)
      /\ p.failed = 0 => Jobs \ (p.left \cup p.still) \subseteq stored[e]
  BY CopyCounts DEF Bulk!PollStored
<1>2. PICK copy \in Bulk!Poll :
        /\ poll' = [poll EXCEPT ![r][e] = copy]
        /\ copy.row = p.row /\ copy.left = p.left \ {j} /\ copy.still = p.still
        /\ copy.done = p.done + 1 /\ copy.failed = p.failed /\ copy.records = p.records + 1
  <2> DEFINE next == [p EXCEPT !.left = @ \ {j}, !.done = @ + 1, !.records = @ + 1]
  <2>1. p.done + 1 \in 0..Bulk!Total /\ p.records + 1 \in 0..Bulk!Total
    BY <1>1, BulkConstants
  <2>2. next \in Bulk!Poll
    BY <1>1, <2>1 DEF Bulk!Poll
  <2>3. poll' = [poll EXCEPT ![r][e] = next]
    BY DEF Bulk!PollStored
  <2>4. /\ next.row = p.row /\ next.left = p.left \ {j} /\ next.still = p.still
        /\ next.done = p.done + 1 /\ next.failed = p.failed /\ next.records = p.records + 1
    BY <1>1 DEF Bulk!Poll
  <2> HIDE DEF next
  <2> QED BY <2>2, <2>3, <2>4
<1>3. /\ stored' = [stored EXCEPT ![e] = @ \cup {j}]
      /\ UNCHANGED <<contended, exec, starter, remote, abortRequests, aborting, asked, rejects,
                     crashes, aborts>>
  BY DEF Bulk!PollStored
<1>4. /\ stored' \in [Execs -> SUBSET Jobs] /\ stored'[e] = stored[e] \cup {j}
      /\ \A f \in Execs \ {e} : stored'[f] = stored[f]
      /\ rejects' \in 0..MaxRejects
  BY <1>3 DEF BulkInv, Bulk!TypeOK
<1>5. stored[e] \subseteq stored'[e]
      /\ (copy.failed = 0 => Jobs \ (copy.left \cup copy.still) \subseteq stored'[e])
  BY <1>1, <1>2, <1>4
<1>6. /\ copy.left \cup copy.still = rest /\ copy.left \cap copy.still = {}
      /\ copy.records >= p.records /\ copy.failed + copy.records = copy.done
      /\ copy.done + Cardinality(rest) = Bulk!Total /\ rest \subseteq p.left \cup p.still
  BY <1>1, <1>2
<1>7. /\ poll[r][e] # NoPoll /\ copy.row = poll[r][e].row
      /\ copy.left \cap copy.still = {}
      /\ copy.left \cup copy.still \subseteq poll[r][e].left \cup poll[r][e].still
      /\ copy.records >= poll[r][e].records
      /\ copy.done + Cardinality(copy.left \cup copy.still) = Bulk!Total
      /\ copy.failed + copy.records = copy.done
      /\ copy.failed = 0 => Jobs \ (copy.left \cup copy.still) \subseteq stored'[e]
  BY <1>1, <1>2, <1>5, <1>6
<1>8. /\ stored' \in [Execs -> SUBSET Jobs] /\ stored[e] \subseteq stored'[e]
      /\ \A f \in Execs \ {e} : stored'[f] = stored[f]
      /\ rejects' \in 0..MaxRejects
      /\ UNCHANGED <<contended, exec, starter, remote, abortRequests, aborting, asked, crashes,
                     aborts>>
  BY <1>3, <1>4, <1>5
<1> QED BY <1>2, <1>7, <1>8, PollGoesOn

LEMMA PollFailedKeeps ==
  ASSUME BulkInv, NEW r \in Replicas, NEW e \in Execs, NEW j \in Jobs,
         Bulk!PollFailed(r, e, j)
  PROVE  BulkInv'
<1> DEFINE p == poll[r][e]
           rest == (p.left \ {j}) \cup p.still
<1>1. /\ p \in Bulk!Poll /\ p # NoPoll /\ p.left \cap p.still = {}
      /\ p.done \in Nat /\ p.failed \in Nat /\ p.records \in Nat
      /\ p.failed + p.records = p.done
      /\ p.done + 1 <= Bulk!Total /\ p.done + 1 + Cardinality(rest) = Bulk!Total
      /\ rest \in SUBSET (p.left \cup p.still)
  BY CopyCounts DEF Bulk!PollFailed
<1>2. PICK copy \in Bulk!Poll :
        /\ poll' = [poll EXCEPT ![r][e] = copy]
        /\ copy.row = p.row /\ copy.left = p.left \ {j} /\ copy.still = p.still
        /\ copy.done = p.done + 1 /\ copy.failed = p.failed + 1 /\ copy.records = p.records
  <2> DEFINE next == [p EXCEPT !.left = @ \ {j}, !.done = @ + 1, !.failed = @ + 1]
  <2>1. p.done + 1 \in 0..Bulk!Total /\ p.failed + 1 \in 0..Bulk!Total
    BY <1>1, BulkConstants
  <2>2. next \in Bulk!Poll
    BY <1>1, <2>1 DEF Bulk!Poll
  <2>3. poll' = [poll EXCEPT ![r][e] = next]
    BY DEF Bulk!PollFailed
  <2>4. /\ next.row = p.row /\ next.left = p.left \ {j} /\ next.still = p.still
        /\ next.done = p.done + 1 /\ next.failed = p.failed + 1 /\ next.records = p.records
    BY <1>1 DEF Bulk!Poll
  <2> HIDE DEF next
  <2> QED BY <2>2, <2>3, <2>4
<1>3. UNCHANGED <<contended, exec, starter, remote, stored, abortRequests, aborting, asked,
                  crashes, aborts>>
  BY DEF Bulk!PollFailed
<1>4. stored' \in [Execs -> SUBSET Jobs] /\ rejects' \in 0..MaxRejects
  BY <1>3, BulkConstants DEF Bulk!PollFailed, BulkInv, Bulk!TypeOK
<1>5. /\ copy.left \cup copy.still = rest /\ copy.left \cap copy.still = {}
      /\ copy.records >= p.records /\ copy.failed + copy.records = copy.done
      /\ copy.failed # 0
      /\ copy.done + Cardinality(rest) = Bulk!Total /\ rest \subseteq p.left \cup p.still
  BY <1>1, <1>2
<1>6. /\ poll[r][e] # NoPoll /\ copy.row = poll[r][e].row
      /\ copy.left \cap copy.still = {}
      /\ copy.left \cup copy.still \subseteq poll[r][e].left \cup poll[r][e].still
      /\ copy.records >= poll[r][e].records
      /\ copy.done + Cardinality(copy.left \cup copy.still) = Bulk!Total
      /\ copy.failed + copy.records = copy.done
      /\ copy.failed = 0 => Jobs \ (copy.left \cup copy.still) \subseteq stored'[e]
  BY <1>1, <1>2, <1>5
<1>7. /\ stored' \in [Execs -> SUBSET Jobs] /\ stored[e] \subseteq stored'[e]
      /\ \A f \in Execs \ {e} : stored'[f] = stored[f]
      /\ rejects' \in 0..MaxRejects
      /\ UNCHANGED <<contended, exec, starter, remote, abortRequests, aborting, asked, crashes,
                     aborts>>
  BY <1>3, <1>4
<1> QED BY <1>2, <1>6, <1>7, PollGoesOn

LEMMA PollWaitKeeps ==
  ASSUME BulkInv, NEW r \in Replicas, NEW e \in Execs, NEW j \in Jobs,
         Bulk!PollWait(r, e, j)
  PROVE  BulkInv'
<1> DEFINE p == poll[r][e]
           all == p.left \cup p.still
<1>1. /\ p \in Bulk!Poll /\ p # NoPoll /\ p.left \cap p.still = {} /\ j \in p.left
      /\ p.done \in Nat /\ p.failed \in Nat /\ p.records \in Nat
      /\ p.failed + p.records = p.done
      /\ p.done + Cardinality(all) = Bulk!Total
      /\ p.failed = 0 => Jobs \ all \subseteq stored[e]
  BY CopyCounts DEF Bulk!PollWait, Bulk!Polling
<1>2. PICK copy \in Bulk!Poll :
        /\ poll' = [poll EXCEPT ![r][e] = copy]
        /\ copy.row = p.row /\ copy.left = p.left \ {j} /\ copy.still = p.still \cup {j}
        /\ copy.done = p.done /\ copy.failed = p.failed /\ copy.records = p.records
  <2> DEFINE next == [p EXCEPT !.left = @ \ {j}, !.still = @ \cup {j}]
  <2>1. next \in Bulk!Poll
    BY <1>1 DEF Bulk!Poll
  <2>2. poll' = [poll EXCEPT ![r][e] = next]
    BY DEF Bulk!PollWait
  <2>3. /\ next.row = p.row /\ next.left = p.left \ {j} /\ next.still = p.still \cup {j}
        /\ next.done = p.done /\ next.failed = p.failed /\ next.records = p.records
    BY <1>1 DEF Bulk!Poll
  <2> HIDE DEF next
  <2> QED BY <2>1, <2>2, <2>3
<1>3. UNCHANGED <<contended, exec, starter, remote, stored, abortRequests, aborting, asked,
                  crashes, aborts>>
  BY DEF Bulk!PollWait
<1>4. stored' \in [Execs -> SUBSET Jobs] /\ rejects' \in 0..MaxRejects
  BY <1>3, BulkConstants DEF Bulk!PollWait, BulkInv, Bulk!TypeOK
<1>5. /\ copy.left \cup copy.still = all /\ copy.left \cap copy.still = {}
      /\ copy.records >= p.records /\ copy.failed + copy.records = copy.done
  BY <1>1, <1>2
<1>6. /\ poll[r][e] # NoPoll /\ copy.row = poll[r][e].row
      /\ copy.left \cap copy.still = {}
      /\ copy.left \cup copy.still \subseteq poll[r][e].left \cup poll[r][e].still
      /\ copy.records >= poll[r][e].records
      /\ copy.done + Cardinality(copy.left \cup copy.still) = Bulk!Total
      /\ copy.failed + copy.records = copy.done
      /\ copy.failed = 0 => Jobs \ (copy.left \cup copy.still) \subseteq stored'[e]
  BY <1>1, <1>2, <1>3, <1>5
<1>7. /\ stored' \in [Execs -> SUBSET Jobs] /\ stored[e] \subseteq stored'[e]
      /\ \A f \in Execs \ {e} : stored'[f] = stored[f]
      /\ rejects' \in 0..MaxRejects
      /\ UNCHANGED <<contended, exec, starter, remote, abortRequests, aborting, asked, crashes,
                     aborts>>
  BY <1>3, <1>4
<1> QED BY <1>2, <1>6, <1>7, PollGoesOn

LEMMA PollSaveKeeps ==
  ASSUME BulkInv, NEW r \in Replicas, NEW e \in Execs, Bulk!PollSave(r, e)
  PROVE  BulkInv'
<1> USE DEF BulkInv
<1> DEFINE p == poll[r][e]
<1>1. /\ p # NoPoll /\ p.left = {} /\ p \in Bulk!Poll
      /\ poll' = [poll EXCEPT ![r][e] = NoPoll]
      /\ UNCHANGED <<contended, starter, remote, stored, abortRequests, aborting, asked, rejects,
                     crashes, aborts>>
  BY DEF Bulk!PollSave, Bulk!TypeOK
<1>2. /\ exec[e] # NoExec /\ p.row.status = "running" /\ p.row \in Bulk!Row
      /\ p.still \in SUBSET Jobs
      /\ p.done + Cardinality(p.still) = Bulk!Total
      /\ p.failed + p.records = p.done
      /\ p.failed = 0 => Jobs \ p.still \subseteq stored[e]
      /\ p.done \in 0..Bulk!Total /\ p.failed \in 0..Bulk!Total /\ p.records \in 0..Bulk!Total
  <2>1. CopyAccounts(r, e) /\ p.left \cup p.still = p.still
    BY <1>1 DEF Accounted
  <2>2. exec[e] # NoExec /\ p.row.status = "running"
        /\ Accounts(e, p.still, p.done, p.failed, p.records)
    BY <1>1, <2>1 DEF CopyAccounts
  <2> QED BY <1>1, <2>2 DEF Accounts, Bulk!Poll
<1>3. PICK row \in Bulk!Row :
        /\ exec' = [exec EXCEPT ![e] = row]
        /\ p.still = {} => row = Bulk!Finalized(p.failed, p.records, FALSE)
        /\ p.still # {} =>
             /\ row.status = "running" /\ row.pending = p.still /\ row.done = p.done
             /\ row.failed = p.failed /\ row.records = p.records
  <2>1. CASE p.still = {}
    <3>1. Bulk!Finalized(p.failed, p.records, FALSE) \in Bulk!Row
      BY <1>2, RowsTyped
    <3>2. exec' = [exec EXCEPT ![e] = Bulk!Finalized(p.failed, p.records, FALSE)]
      BY <2>1 DEF Bulk!PollSave, Bulk!Save
    <3> QED BY <2>1, <3>1, <3>2
  <2>2. CASE p.still # {}
    <3> DEFINE now == [p.row EXCEPT !.pending = p.still, !.done = p.done,
                                    !.failed = p.failed, !.records = p.records]
    <3>1. /\ now \in Bulk!Row /\ now.status = "running" /\ now.pending = p.still
          /\ now.done = p.done /\ now.failed = p.failed /\ now.records = p.records
      BY <1>2 DEF Bulk!Row
    <3>2. exec' = [exec EXCEPT ![e] = now]
      BY <2>2 DEF Bulk!PollSave, Bulk!Save
    <3> HIDE DEF now
    <3> QED BY <2>2, <3>1, <3>2
  <2> QED BY <2>1, <2>2
<1>4. exec'[e] = row /\ row # NoExec /\ (\A f \in Execs \ {e} : exec'[f] = exec[f])
      /\ exec' \in [Execs -> Bulk!Row \cup {NoExec}]
  BY <1>3, BulkConstants DEF Bulk!TypeOK
<1>5. /\ poll' \in [Replicas -> [Execs -> Bulk!Poll \cup {NoPoll}]]
      /\ \A s \in Replicas, f \in Execs :
           poll'[s][f] = IF s = r /\ f = e THEN NoPoll ELSE poll[s][f]
  BY <1>1 DEF Bulk!TypeOK
<1>6. Bulk!TypeOK'
  <2>1. \A f \in Execs : exec'[f] = NoExec <=> starter'[f].at = "none"
    BY <1>1, <1>2, <1>4 DEF Bulk!TypeOK
  <2> QED BY <1>1, <1>4, <1>5, <2>1 DEF Bulk!TypeOK
<1>7. \A f \in Execs \ {e} : SameAt(f)
  BY <1>1, <1>4, <1>5 DEF SameAt
<1>8. RowAccounts(e)'
  <2>1. CASE p.still = {}
    <3>1. /\ row.failed = p.failed /\ row.records = p.records /\ row.pending = {}
          /\ row.status # "aborted" /\ row.status \in Bulk!Terminal
          /\ (row.status = "completed" => row.failed = 0)
      <4>1. row = Bulk!Finalized(p.failed, p.records, FALSE)
        BY <1>3, <2>1
      <4> HIDE DEF p
      <4> QED BY <4>1 DEF Bulk!Finalized, Bulk!Outcome, Bulk!Started, Bulk!Terminal
    <3>2. row.status # "running"
      BY <3>1 DEF Bulk!Terminal
    <3>3. p.done = Bulk!Total
      BY <1>2, <2>1, FS_EmptySet, BulkConstants
    <3>4. row.records = Bulk!Total - row.failed
      BY <1>2, <3>1, <3>3, BulkConstants
    <3>5. row.status = "completed" => stored'[e] = Jobs
      BY <1>1, <1>2, <2>1, <3>1 DEF Bulk!TypeOK
    <3> QED BY <1>4, <3>1, <3>2, <3>4, <3>5 DEF RowAccounts
  <2>2. CASE p.still # {}
    <3>1. /\ row.status = "running" /\ row.pending = p.still /\ row.done = p.done
          /\ row.failed = p.failed /\ row.records = p.records
      BY <1>3, <2>2
    <3> HIDE DEF p
    <3> QED BY <1>1, <1>2, <1>4, <3>1 DEF RowAccounts, Accounts
  <2> QED BY <2>1, <2>2
<1>9. ASSUME NEW s \in Replicas PROVE CopyAccounts(s, e)'
  <2>1. CopyAccounts(s, e)
    BY DEF Accounted
  <2> QED BY <1>1, <1>4, <1>5, <2>1 DEF CopyAccounts, Accounts
<1>10. AbortAsked(e)'
  BY <1>1, <1>4 DEF Accounted, AbortAsked
<1>11. ASSUME e \notin contended' PROVE Alone(e)'
  <2>1. Alone(e)
    BY <1>1, <1>11
  <2>2. /\ starter[e].at \notin {"queued", "starting", "direct"} /\ aborting[e] = NoAbort
        /\ \A s \in Replicas \ {r} : poll[s][e] = NoPoll
    BY <1>1, <2>1 DEF Alone, Unpolled
  <2>3. \A s \in Replicas : poll'[s][e] = NoPoll
    BY <1>5, <2>2
  <2> QED BY <1>1, <2>2, <2>3 DEF Alone
<1> QED BY <1>6, <1>7, <1>8, <1>9, <1>10, <1>11, OneExecution DEF Accounted

-----------------------------------------------------------------------------
(* Aborts and crashes *)

LEMMA AbortReadKeeps ==
  ASSUME BulkInv, NEW r \in Replicas, NEW e \in Execs, Bulk!AbortRead(r, e)
  PROVE  BulkInv'
<1> USE DEF BulkInv
<1> DEFINE held == [row |-> exec[e], replica |-> r]
<1>1. /\ exec[e] # NoExec /\ exec[e].status = "running" /\ aborting[e] = NoAbort
      /\ abortRequests' = [abortRequests EXCEPT ![r] = @ \cup {e}]
      /\ asked' = asked \cup {e}
      /\ Bulk!Contend(e)
      /\ aborting' = [aborting EXCEPT ![e] = held]
      /\ aborts < MaxAborts /\ aborts' = aborts + 1
      /\ UNCHANGED <<exec, starter, remote, stored, poll, rejects, crashes>>
  BY DEF Bulk!AbortRead
<1>2. exec[e] \in Bulk!Row
  BY <1>1 DEF Bulk!TypeOK
<1>3. held \in [row : Bulk!Row, replica : Replicas] /\ held # NoAbort /\ held.row = exec[e]
  <2>1. held \in [row : Bulk!Row, replica : Replicas] /\ held.row = exec[e]
    BY <1>2
  <2> QED BY <2>1, BulkConstants
<1> HIDE DEF held
<1>4. /\ contended' = contended \/ contended' = contended \cup {e}
      /\ e \notin contended' =>
           /\ e \notin contended
           /\ starter[e].at \notin {"queued", "starting", "direct"}
           /\ aborting[e] = NoAbort /\ Unpolled(e)
  BY <1>1, HeldNone
<1>5. /\ aborting' \in [Execs -> [row : Bulk!Row, replica : Replicas] \cup {NoAbort}]
      /\ aborting'[e] = held /\ (\A f \in Execs \ {e} : aborting'[f] = aborting[f])
  BY <1>1, <1>3 DEF Bulk!TypeOK
<1>6. /\ abortRequests' \in [Replicas -> SUBSET Execs]
      /\ \A s \in Replicas : abortRequests[s] \subseteq abortRequests'[s]
                             /\ abortRequests'[s] \subseteq abortRequests[s] \cup {e}
  BY <1>1 DEF Bulk!TypeOK
<1>7. aborts' \in 0..MaxAborts
  BY <1>1, BulkConstants DEF Bulk!TypeOK
<1>8. Bulk!TypeOK'
  BY <1>1, <1>4, <1>5, <1>6, <1>7 DEF Bulk!TypeOK
<1>9. \A f \in Execs \ {e} : SameAt(f)
  BY <1>1, <1>4, <1>5, <1>6 DEF SameAt
<1>10. RowAccounts(e)'
  BY <1>1 DEF Accounted, RowAccounts, Accounts, Bulk!AnyStarted
<1>11. \A s \in Replicas : CopyAccounts(s, e)'
  BY <1>1 DEF Accounted, CopyAccounts, Accounts
<1>12. AbortAsked(e)'
  BY <1>1 DEF AbortAsked
<1>13. ASSUME e \notin contended' PROVE Alone(e)'
  BY <1>1, <1>3, <1>4, <1>5, <1>13 DEF Alone, Unpolled
<1> QED BY <1>8, <1>9, <1>10, <1>11, <1>12, <1>13, OneExecution DEF Accounted

LEMMA AbortSaveKeeps ==
  ASSUME BulkInv, NEW e \in Execs, Bulk!AbortSave(e)
  PROVE  BulkInv'
<1> USE DEF BulkInv
<1> DEFINE row == [aborting[e].row EXCEPT !.status = "aborted"]
<1>1. /\ aborting[e] # NoAbort /\ exec' = [exec EXCEPT ![e] = row]
      /\ aborting' = [aborting EXCEPT ![e] = NoAbort]
      /\ UNCHANGED <<contended, starter, remote, stored, poll, abortRequests, asked, rejects,
                     crashes, aborts>>
  BY DEF Bulk!AbortSave, Bulk!Save
<1>2. row \in Bulk!Row /\ row.status = "aborted" /\ row # NoExec
  <2>1. aborting[e].row \in Bulk!Row
    BY <1>1 DEF Bulk!TypeOK
  <2>2. row \in Bulk!Row /\ row.status = "aborted"
    BY <2>1 DEF Bulk!Row, Bulk!Terminal
  <2> QED BY <2>2, BulkConstants
<1> HIDE DEF row
<1>3. e \in asked /\ exec[e] # NoExec
  BY <1>1 DEF Accounted, AbortAsked
<1>4. exec'[e] = row /\ (\A f \in Execs \ {e} : exec'[f] = exec[f])
      /\ exec' \in [Execs -> Bulk!Row \cup {NoExec}]
  BY <1>1, <1>2 DEF Bulk!TypeOK
<1>5. /\ aborting' \in [Execs -> [row : Bulk!Row, replica : Replicas] \cup {NoAbort}]
      /\ aborting'[e] = NoAbort /\ (\A f \in Execs \ {e} : aborting'[f] = aborting[f])
  BY <1>1 DEF Bulk!TypeOK
<1>6. Bulk!TypeOK'
  <2>1. \A f \in Execs : exec'[f] = NoExec <=> starter'[f].at = "none"
    BY <1>1, <1>2, <1>3, <1>4 DEF Bulk!TypeOK
  <2> QED BY <1>1, <1>4, <1>5, <2>1 DEF Bulk!TypeOK
<1>7. \A f \in Execs \ {e} : SameAt(f)
  BY <1>1, <1>4, <1>5 DEF SameAt
<1>8. RowAccounts(e)'
  BY <1>1, <1>2, <1>3, <1>4 DEF RowAccounts
<1>9. (\A s \in Replicas : CopyAccounts(s, e)') /\ AbortAsked(e)'
  BY <1>1, <1>2, <1>4, <1>5 DEF Accounted, CopyAccounts, Accounts, AbortAsked
<1>10. ASSUME e \notin contended' PROVE Alone(e)'
  BY <1>1, <1>5, <1>10 DEF Alone, Unpolled
<1> QED BY <1>6, <1>7, <1>8, <1>9, <1>10, OneExecution DEF Accounted

LEMMA CrashKeeps ==
  ASSUME BulkInv, NEW r \in Replicas, Bulk!Crash(r)
  PROVE  BulkInv'
<1> USE DEF BulkInv
<1>1. /\ crashes < MaxCrashes /\ crashes' = crashes + 1
      /\ UNCHANGED <<contended, exec, remote, stored, asked, rejects, aborts>>
  BY DEF Bulk!Crash
<1>2. /\ poll' \in [Replicas -> [Execs -> Bulk!Poll \cup {NoPoll}]]
      /\ \A s \in Replicas, f \in Execs : poll'[s][f] \in {poll[s][f], NoPoll}
  BY DEF Bulk!Crash, Bulk!TypeOK
<1>3. /\ starter' \in [Execs -> Bulk!Starter]
      /\ \A f \in Execs :
           \/ starter'[f] = starter[f]
           \/ starter'[f].at = "dead" /\ starter[f].at \in {"queued", "starting", "direct"}
  BY DEF Bulk!Crash, Bulk!TypeOK, Bulk!Starter
<1>4. /\ aborting' \in [Execs -> [row : Bulk!Row, replica : Replicas] \cup {NoAbort}]
      /\ \A f \in Execs : aborting'[f] \in {aborting[f], NoAbort}
  BY DEF Bulk!Crash, Bulk!TypeOK
<1>5. /\ abortRequests' \in [Replicas -> SUBSET Execs]
      /\ \A s \in Replicas : abortRequests'[s] \subseteq abortRequests[s]
  BY DEF Bulk!Crash, Bulk!TypeOK
<1>6. Bulk!TypeOK'
  <2>1. crashes' \in 0..MaxCrashes
    BY <1>1, BulkConstants DEF Bulk!TypeOK
  <2>2. \A f \in Execs : exec'[f] = NoExec <=> starter'[f].at = "none"
    BY <1>1, <1>3 DEF Bulk!TypeOK
  <2> QED BY <1>1, <1>2, <1>3, <1>4, <1>5, <2>1, <2>2 DEF Bulk!TypeOK
<1> SUFFICES ASSUME NEW e \in Execs
             PROVE  Accounted(e)' /\ (e \notin contended' => Alone(e)')
  BY <1>6
<1>7. RowAccounts(e)'
  BY <1>1, <1>3 DEF Accounted, RowAccounts, Accounts, Bulk!AnyStarted
<1>8. \A s \in Replicas : CopyAccounts(s, e)'
  <2> SUFFICES ASSUME NEW s \in Replicas PROVE CopyAccounts(s, e)'
    OBVIOUS
  <2>1. CopyAccounts(s, e) /\ poll'[s][e] \in {poll[s][e], NoPoll}
    BY <1>2 DEF Accounted
  <2>2. exec' = exec /\ stored' = stored
    BY <1>1
  <2> QED BY <2>1, <2>2 DEF CopyAccounts, Accounts
<1>9. AbortAsked(e)'
  BY <1>1, <1>4, <1>5 DEF Accounted, AbortAsked
<1>10. ASSUME e \notin contended' PROVE Alone(e)'
  BY <1>1, <1>2, <1>3, <1>4, <1>10 DEF Alone, Unpolled
<1> QED BY <1>7, <1>8, <1>9, <1>10 DEF Accounted

-----------------------------------------------------------------------------
(* Every behaviour *)

LEMMA BulkInit ==
  ASSUME Bulk!Init
  PROVE  BulkInv
<1>1. /\ \A e \in Execs :
           /\ exec[e] = NoExec /\ aborting[e] = NoAbort
           /\ starter[e].at = "none" /\ starter[e] \in Bulk!Starter
           /\ \A r \in Replicas : poll[r][e] = NoPoll /\ e \notin abortRequests[r]
      /\ starter \in [Execs -> Bulk!Starter]
  <2>1. (CHOOSE r \in Replicas : TRUE) \in Replicas
    BY BulkConstants
  <2>2. [at : {"none"}, replica : {CHOOSE r \in Replicas : TRUE}] \subseteq Bulk!Starter
    BY <2>1 DEF Bulk!Starter
  <2>3. starter \in [Execs -> [at : {"none"}, replica : {CHOOSE r \in Replicas : TRUE}]]
    BY DEF Bulk!Init
  <2>4. \A e \in Execs : starter[e].at = "none"
    BY <2>3
  <2>5. starter \in [Execs -> Bulk!Starter]
    BY <2>2, <2>3
  <2> QED BY <2>4, <2>5 DEF Bulk!Init
<1>2. Bulk!TypeOK
  BY <1>1, BulkConstants DEF Bulk!Init, Bulk!TypeOK
<1>3. \A e \in Execs : Accounted(e) /\ Alone(e)
  BY <1>1 DEF Accounted, RowAccounts, CopyAccounts, AbortAsked, Alone, Unpolled
<1> QED BY <1>2, <1>3 DEF BulkInv

LEMMA BulkNext ==
  ASSUME BulkInv, Bulk!Next
  PROVE  BulkInv'
<1>1. ASSUME NEW e \in Execs, NEW r \in Replicas,
             Bulk!StartDirect(r, e) \/ Bulk!EnqueueBulk(r, e)
      PROVE  BulkInv'
  BY <1>1, StartKeeps
<1>2. ASSUME NEW e \in Execs, NEW r \in Replicas, Bulk!Poller(r, e)
      PROVE  BulkInv'
  BY <1>2, PollReadKeeps, PollStoredKeeps, PollFailedKeeps, PollWaitKeeps, PollSaveKeeps
     DEF Bulk!Poller
<1>3. ASSUME NEW e \in Execs, NEW r \in Replicas, Bulk!AbortRead(r, e)
      PROVE  BulkInv'
  BY <1>3, AbortReadKeeps
<1>4. ASSUME NEW e \in Execs, Bulk!Starts(e)
      PROVE  BulkInv'
  BY <1>4, BeginPhase1Keeps, EndPhase1Keeps, FinishDirectKeeps DEF Bulk!Starts
<1>5. ASSUME NEW e \in Execs, Bulk!Meta(e)
      PROVE  BulkInv'
  BY <1>5, SettleKeeps DEF Bulk!Meta
<1>6. ASSUME NEW e \in Execs, Bulk!AbortSave(e)
      PROVE  BulkInv'
  BY <1>6, AbortSaveKeeps
<1>7. ASSUME NEW r \in Replicas, Bulk!Crash(r)
      PROVE  BulkInv'
  BY <1>7, CrashKeeps
<1> QED BY <1>1, <1>2, <1>3, <1>4, <1>5, <1>6, <1>7 DEF Bulk!Next

LEMMA BulkStutters ==
  ASSUME BulkInv, UNCHANGED bulkVars
  PROVE  BulkInv'
<1> USE DEF BulkInv, bulkVars
<1>1. Bulk!TypeOK'
  BY DEF Bulk!TypeOK
<1>2. \A e \in Execs : SameAt(e)
  BY DEF SameAt
<1> QED BY <1>1, <1>2, SameAtKeeps

THEOREM BulkInvariant == Spec => []BulkInv
<1>1. Init => BulkInv
  BY BulkInit DEF Init
<1>2. BulkInv /\ [Next]_vars => BulkInv'
  BY BulkNext, BulkStutters DEF Next, Reporting, Extracting, vars, bulkVars
<1> QED BY <1>1, <1>2, PTL DEF Spec

\* The row of an execution accounts for all its report jobs, whatever two
\* pollers, an abort and a crash overwrite or lose: no save of processPendingJobs,
\* runBulkAsyncInsights or abortExecution forgets or counts a job twice.
THEOREM RowsAccount == Spec => []CountsAddUp
<1>1. BulkInv => CountsAddUp
  <2> SUFFICES ASSUME BulkInv, NEW e \in Execs, exec[e] # NoExec
               PROVE  LET row == exec[e] IN
                      /\ row.status = "running" /\ row.pending # {} =>
                           row.done + Cardinality(row.pending) = Bulk!Total
                           /\ row.failed + row.records = row.done
                      /\ row.status \in {"completed", "partial"} =>
                           row.records = Bulk!Total - row.failed /\ row.pending = {}
                      /\ row.status = "completed" => stored[e] = Jobs
                      /\ row.status = "aborted" => e \in asked \/ ~Bulk!AnyStarted(e)
    BY SameCount DEF CountsAddUp, Bulk!CountsAddUp
  <2>1. RowAccounts(e)
    BY DEF BulkInv, Accounted
  <2> QED BY <2>1 DEF RowAccounts, Accounts
<1> QED BY <1>1, BulkInvariant, PTL

-----------------------------------------------------------------------------
(* What a step does to the row of an execution nobody else holds *)

\* The row goes on from what it was.
Advances(e) ==
  /\ exec'[e].pending \subseteq exec[e].pending
  /\ exec'[e].records >= exec[e].records
  /\ exec[e].status \in Bulk!Terminal => exec'[e] = exec[e]

LEMMA UnchangedAdvances ==
  ASSUME BulkInv, NEW e \in Execs, exec[e] # NoExec, exec'[e] = exec[e]
  PROVE  Advances(e)
<1>1. exec[e].records \in Int
  BY BulkConstants DEF BulkInv, Bulk!TypeOK, Bulk!Row
<1> QED BY <1>1 DEF Advances

LEMMA PollSaveAdvances ==
  ASSUME BulkInv, NEW r \in Replicas, NEW e \in Execs, e \notin contended,
         Bulk!PollSave(r, e)
  PROVE  Advances(e)
<1> DEFINE p == poll[r][e]
<1>1. /\ p # NoPoll /\ p.left = {} /\ p \in Bulk!Poll
      /\ exec' = [exec EXCEPT ![e] =
           IF p.still = {} THEN Bulk!Finalized(p.failed, p.records, FALSE)
           ELSE [p.row EXCEPT !.pending = p.still, !.done = p.done, !.failed = p.failed,
                              !.records = p.records]]
  BY DEF Bulk!PollSave, Bulk!Save, BulkInv, Bulk!TypeOK
<1>2. /\ p.row = exec[e] /\ p.still \subseteq exec[e].pending /\ p.records >= exec[e].records
      /\ p.row.status = "running"
  <2>1. Alone(e) /\ CopyAccounts(r, e)
    BY DEF BulkInv, Accounted
  <2> QED BY <1>1, <2>1 DEF Alone, CopyAccounts
<1>3. exec'[e] = IF p.still = {} THEN Bulk!Finalized(p.failed, p.records, FALSE)
                 ELSE [p.row EXCEPT !.pending = p.still, !.done = p.done, !.failed = p.failed,
                                    !.records = p.records]
  BY <1>1 DEF BulkInv, Bulk!TypeOK
<1>4. p.row \in Bulk!Row /\ exec[e].status \notin Bulk!Terminal
  BY <1>1, <1>2 DEF Bulk!Poll, Bulk!Terminal
<1>5. exec'[e].pending = p.still /\ exec'[e].records = p.records
  <2> HIDE DEF p
  <2>1. CASE p.still = {}
    BY <1>3, <2>1 DEF Bulk!Finalized, Bulk!Started
  <2>2. CASE p.still # {}
    BY <1>3, <1>4, <2>2 DEF Bulk!Row
  <2> QED BY <2>1, <2>2
<1> QED BY <1>2, <1>4, <1>5 DEF Advances

LEMMA AbortSaveAdvances ==
  ASSUME BulkInv, NEW e \in Execs, e \notin contended, Bulk!AbortSave(e)
  PROVE  Advances(e)
<1>1. aborting[e].row = exec[e] /\ exec[e].status = "running" /\ exec[e] \in Bulk!Row
  <2>1. Alone(e) /\ aborting[e] # NoAbort /\ exec[e] # NoExec
    BY DEF BulkInv, Bulk!AbortSave, Accounted, AbortAsked
  <2> QED BY <2>1 DEF Alone, BulkInv, Bulk!TypeOK
<1>2. exec'[e] = [exec[e] EXCEPT !.status = "aborted"]
  BY <1>1 DEF Bulk!AbortSave, Bulk!Save, BulkInv, Bulk!TypeOK
<1>3. /\ exec'[e].pending = exec[e].pending /\ exec'[e].records = exec[e].records
      /\ exec[e].records \in Int
  BY <1>1, <1>2, BulkConstants DEF Bulk!Row
<1>4. exec[e].status \notin Bulk!Terminal
  BY <1>1 DEF Bulk!Terminal
<1> QED BY <1>3, <1>4 DEF Advances

LEMMA StepAdvances ==
  ASSUME BulkInv, NEW e \in Execs, e \notin contended, exec[e] # NoExec,
         starter[e].at \in {"over", "dead"}, Bulk!Next
  PROVE  Advances(e)
<1>1. ASSUME NEW f \in Execs, NEW r \in Replicas,
             Bulk!StartDirect(r, f) \/ Bulk!EnqueueBulk(r, f)
      PROVE  exec'[e] = exec[e]
  BY <1>1 DEF Bulk!StartDirect, Bulk!EnqueueBulk, BulkInv, Bulk!TypeOK
<1>2. ASSUME NEW f \in Execs, NEW r \in Replicas, Bulk!Poller(r, f)
      PROVE  Advances(e)
  <2>1. CASE Bulk!PollSave(r, f)
    <3>1. CASE f = e
      BY <2>1, <3>1, PollSaveAdvances
    <3>2. CASE f # e
      BY <2>1, <3>2, UnchangedAdvances DEF Bulk!PollSave, Bulk!Save, BulkInv, Bulk!TypeOK
    <3> QED BY <3>1, <3>2
  <2>2. CASE ~Bulk!PollSave(r, f)
    <3>1. exec' = exec
      BY <1>2, <2>2 DEF Bulk!Poller, Bulk!PollRead, Bulk!PollStored, Bulk!PollFailed,
                        Bulk!PollWait
    <3> QED BY <3>1, UnchangedAdvances
  <2> QED BY <2>1, <2>2
<1>3. ASSUME NEW f \in Execs, NEW r \in Replicas, Bulk!AbortRead(r, f)
      PROVE  exec'[e] = exec[e]
  BY <1>3 DEF Bulk!AbortRead
<1>4. ASSUME NEW f \in Execs, Bulk!Starts(f)
      PROVE  exec'[e] = exec[e]
  <2>1. f # e
    BY <1>4 DEF Bulk!Starts, Bulk!BeginPhase1, Bulk!EndPhase1, Bulk!FinishDirect
  <2> QED BY <1>4, <2>1 DEF Bulk!Starts, Bulk!BeginPhase1, Bulk!EndPhase1,
                            Bulk!FinishDirect, Bulk!Save, BulkInv, Bulk!TypeOK
<1>5. ASSUME NEW f \in Execs, Bulk!Meta(f)
      PROVE  exec'[e] = exec[e]
  BY <1>5 DEF Bulk!Meta, Bulk!Settle
<1>6. ASSUME NEW f \in Execs, Bulk!AbortSave(f)
      PROVE  Advances(e)
  <2>1. CASE f = e
    BY <1>6, <2>1, AbortSaveAdvances
  <2>2. CASE f # e
    BY <1>6, <2>2, UnchangedAdvances DEF Bulk!AbortSave, Bulk!Save, BulkInv, Bulk!TypeOK
  <2> QED BY <2>1, <2>2
<1>7. ASSUME NEW r \in Replicas, Bulk!Crash(r)
      PROVE  exec'[e] = exec[e]
  BY <1>7 DEF Bulk!Crash
<1> QED BY <1>1, <1>2, <1>3, <1>4, <1>5, <1>6, <1>7, UnchangedAdvances DEF Bulk!Next

\* As long as no two of them held a row at a time, a poller, an abort or a
\* restart never takes back what the row of an execution shows: pending jobs
\* leave, records add up, and an execution that ended stays as it ended.
THEOREM RowsAdvance == Spec => AdvancesUnlessContended
<1>1. ASSUME BulkInv, [Next]_vars, NEW e \in Execs \ contended, exec[e] # NoExec,
             starter[e].at \in {"over", "dead"}
      PROVE  Advances(e)
  <2>1. CASE Bulk!Next
    BY <1>1, <2>1, StepAdvances
  <2>2. CASE UNCHANGED bulkVars
    BY <1>1, <2>2, UnchangedAdvances DEF bulkVars
  <2> QED BY <1>1, <2>1, <2>2 DEF Next, Reporting, Extracting, vars
<1>2. BulkInv /\ [Next]_vars =>
        [\A e \in Execs \ contended :
           exec[e] # NoExec /\ starter[e].at \in {"over", "dead"} => Advances(e)]_(Bulk!vars)
  BY <1>1
<1> QED BY <1>2, BulkInvariant, PTL DEF Spec, AdvancesUnlessContended,
           Bulk!AdvancesUnlessContended, Advances


-----------------------------------------------------------------------------
(* Days: the inductive invariant *)

\* Makers and workers know jobs there are, by the days they have.
JobsKnown ==
  /\ \A m \in Makers :
       /\ making[m].at # "idle" => making[m].job \in 0..made
       /\ making[m].at = "looked" /\ making[m].job # 0 =>
            jobs[making[m].job].days = making[m].days
       /\ making[m].at = "saved" => making[m].job # 0
  /\ \A w \in Workers : work[w].at # "idle" => work[w].job \in 1..made

\* A message is about a job, can be delivered while it is free, and is in one hand.
MessagesApart ==
  /\ \A k \in Extract!Messages :
       /\ queue[k].job <= made /\ (queue[k].job # 0 => k <= sent)
       /\ queue[k].free => queue[k].job # 0 /\ queue[k].left > 0
  /\ \A w \in Workers : work[w].message # 0 =>
       /\ work[w].message <= sent /\ queue[work[w].message].job # 0
       /\ work[w].at # "idle"
       /\ \A v \in Workers : work[v].message = work[w].message => v = w

\* The days a worker may still write, or has written alone.
Writes(w) == work[w].campaigns \cup work[w].ads \cup work[w].clean

\* A row of day d as worker w has left it, if nobody else wrote it.
AsLeft(w, d) ==
  /\ work[w].at \in {"ads", "raw"} => campaigns[d] = 0
  /\ work[w].at = "raw" => ads[d] = 0
  /\ work[w].at = "rows" =>
       /\ campaigns[d] = IF d \in work[w].campaigns THEN 0 ELSE work[w].fetch
       /\ ads[d] = IF d \in work[w].ads THEN 0 ELSE work[w].fetch

\* A worker writes days of its job only, all of them unsettled; those it is
\* alone at are nobody else's, and as it left them.
WriterKept(w) ==
  /\ work[w].at \in {"idle", "fetch", "failed"} => Writes(w) = {}
  /\ work[w].at # "idle" => Writes(w) \subseteq jobs[work[w].job].days
  /\ work[w].at \in {"ads", "raw"} => /\ work[w].campaigns = jobs[work[w].job].days
                                      /\ work[w].ads = jobs[work[w].job].days
  /\ Writes(w) \subseteq unsettled
  /\ \A d \in work[w].clean :
       /\ \A v \in Workers \ {w} : d \notin Writes(v)
       /\ importing.at # "idle" => importing.day # d
       /\ AsLeft(w, d)

\* So does the import, with its day.
ImportKept ==
  /\ importing.at = "idle" => importing.clean = {}
  /\ importing.clean \subseteq {importing.day}
  /\ importing.at # "idle" => importing.day \in unsettled
  /\ importing.clean # {} =>
       /\ \A v \in Workers : importing.day \notin Writes(v)
       /\ importing.at = "ad" => ads[importing.day] = importing.found
       /\ importing.at = "rebuild" => campaigns[importing.day] = 0

Handed == Extract!TypeOK /\ JobsKnown /\ MessagesApart
Written == (\A w \in Workers : WriterKept(w)) /\ ImportKept /\ DayIsOneFetchUnlessCut
ExtractInv == Handed /\ Written

-----------------------------------------------------------------------------
LEMMA ExtractConstants ==
  /\ MaxJobs \in Nat /\ MaxMessages \in Nat /\ MaxFaults \in Nat /\ MaxRequests \in Nat
  /\ Deliveries \in Nat \ {0}
BY MarketingConstants

\* The days of the jobs there were stay theirs.
DaysKept == \A j \in 1..made : jobs'[j].days = jobs[j].days

\* What others than worker w hold.
OthersSame(w) == \A v \in Workers \ {w} : work'[v] = work[v]

-----------------------------------------------------------------------------
(* Steps that leave the rows alone *)

LEMMA WrittenSame ==
  ASSUME Handed, Written, DaysKept,
         \A w \in Workers :
           /\ work'[w].at = work[w].at /\ work'[w].job = work[w].job
           /\ work'[w].fetch = work[w].fetch /\ work'[w].campaigns = work[w].campaigns
           /\ work'[w].ads = work[w].ads /\ work'[w].clean = work[w].clean,
         UNCHANGED <<campaigns, ads, unsettled, importing>>
  PROVE  Written'
<1>1. \A w \in Workers : Writes(w)' = Writes(w)
  BY DEF Writes
<1>2. ASSUME NEW w \in Workers PROVE WriterKept(w)'
  <2>1. WriterKept(w)
    BY DEF Written
  <2>2. work[w].at # "idle" => jobs'[work[w].job].days = jobs[work[w].job].days
    BY DEF Handed, JobsKnown, DaysKept
  <2>3. \A d \in work[w].clean : AsLeft(w, d) => AsLeft(w, d)'
    BY DEF AsLeft
  <2> QED BY <1>1, <2>1, <2>2, <2>3 DEF WriterKept
<1>3. ImportKept'
  BY <1>1 DEF Written, ImportKept
<1>4. DayIsOneFetchUnlessCut'
  BY DEF Written, DayIsOneFetchUnlessCut, Extract!DayIsOneFetchUnlessCut
<1> QED BY <1>2, <1>3, <1>4 DEF Written

\* A worker that writes no more, or not yet.
LEMMA WrittenCeases ==
  ASSUME Handed, Written, DaysKept, NEW w \in Workers, OthersSame(w), Writes(w)' = {},
         work'[w].at \in {"idle", "fetch", "failed"},
         UNCHANGED <<campaigns, ads, unsettled, importing>>
  PROVE  Written'
<1>1. \A v \in Workers : Writes(v)' \subseteq Writes(v)
  BY DEF Writes, OthersSame
<1>2. ASSUME NEW v \in Workers PROVE WriterKept(v)'
  <2>1. CASE v = w
    BY <2>1 DEF WriterKept, Writes
  <2>2. CASE v # w
    <3>1. WriterKept(v) /\ work'[v] = work[v] /\ Writes(v)' = Writes(v)
      BY <2>2 DEF Written, OthersSame, Writes
    <3>2. work[v].at # "idle" => jobs'[work[v].job].days = jobs[work[v].job].days
      BY DEF Handed, JobsKnown, DaysKept
    <3>3. \A d \in work[v].clean : AsLeft(v, d) => AsLeft(v, d)'
      BY <3>1 DEF AsLeft
    <3> QED BY <1>1, <3>1, <3>2, <3>3 DEF WriterKept
  <2> QED BY <2>1, <2>2
<1>3. ImportKept'
  BY <1>1 DEF Written, ImportKept
<1>4. DayIsOneFetchUnlessCut'
  BY DEF Written, DayIsOneFetchUnlessCut, Extract!DayIsOneFetchUnlessCut
<1> QED BY <1>2, <1>3, <1>4 DEF Written

-----------------------------------------------------------------------------
(* Steps that leave jobs and messages alone, or hand a message back *)

LEMMA HandedSame ==
  ASSUME Handed, UNCHANGED <<jobs, made, making, unsent, queue, sent, dropped>>,
         work' \in [Workers -> Extract!WorkerState],
         \A w \in Workers :
           /\ work'[w].job = work[w].job /\ work'[w].message = work[w].message
           /\ work'[w].at = "idle" <=> work[w].at = "idle",
         campaigns' \in [Extract!Days -> Extract!Fetches],
         ads' \in [Extract!Days -> Extract!Fetches], raw' \subseteq Extract!Fetches,
         importing' \in Extract!ImportState, unsettled' \subseteq Extract!Days,
         requests' \in 0..MaxRequests, fetches' \in Extract!Fetches, faults' \in 0..MaxFaults
  PROVE  Handed'
<1>1. Extract!TypeOK'
  BY DEF Handed, Extract!TypeOK
<1>2. JobsKnown'
  BY DEF Handed, JobsKnown
<1>3. MessagesApart'
  BY DEF Handed, MessagesApart
<1> QED BY <1>1, <1>2, <1>3 DEF Handed

\* The status of a job there is.
LEMMA StatusSet ==
  ASSUME Handed, NEW j \in 1..made, NEW s \in {"running", "completed", "failed"},
         jobs' = [jobs EXCEPT ![j].status = s], made' = made
  PROVE  /\ jobs' \in [Extract!JobIds -> Extract!JobState]
         /\ \A i \in Extract!JobIds : (jobs'[i] = Extract!NoJob) = (i > made)
         /\ DaysKept
<1>1. /\ jobs \in [Extract!JobIds -> Extract!JobState] /\ made \in 0..MaxJobs
      /\ \A i \in Extract!JobIds : (jobs[i] = Extract!NoJob) = (i > made)
  BY DEF Handed, Extract!TypeOK
<1>2. j \in Extract!JobIds /\ ~(j > made) /\ 1..made \subseteq Extract!JobIds
  BY <1>1, ExtractConstants DEF Extract!JobIds
<1>3. jobs'[j].status = s /\ jobs'[j].days = jobs[j].days /\ jobs'[j] \in Extract!JobState
      /\ \A i \in Extract!JobIds \ {j} : jobs'[i] = jobs[i]
  BY <1>1, <1>2 DEF Extract!JobState, Extract!Status
<1>4. jobs'[j] # Extract!NoJob
  BY <1>3 DEF Extract!NoJob
<1>5. jobs' \in [Extract!JobIds -> Extract!JobState]
  BY <1>1, <1>3
<1>6. ASSUME NEW i \in Extract!JobIds PROVE (jobs'[i] = Extract!NoJob) = (i > made)
  <2>1. CASE i = j
    BY <1>2, <1>4, <2>1
  <2>2. CASE i # j
    BY <1>1, <1>3, <2>2
  <2> QED BY <2>1, <2>2
<1>7. DaysKept
  BY <1>2, <1>3 DEF DaysKept
<1> QED BY <1>5, <1>6, <1>7

\* What becomes of the message worker w had.
Back(w) ==
  LET k == work[w].message IN
  \/ queue' = queue
  \/ k # 0 /\ queue' = [queue EXCEPT ![k] = Extract!NoMessage]
  \/ k # 0 /\ queue[k].left > 0 /\ queue' = [queue EXCEPT ![k].free = TRUE]

LEMMA HandsBack ==
  ASSUME Handed, NEW w \in Workers, Back(w), OthersSame(w), work'[w].message = 0,
         work' \in [Workers -> Extract!WorkerState],
         work'[w].at # "idle" => work[w].at # "idle" /\ work'[w].job = work[w].job,
         jobs' \in [Extract!JobIds -> Extract!JobState],
         \A j \in Extract!JobIds : (jobs'[j] = Extract!NoJob) = (j > made),
         DaysKept, dropped' \subseteq Extract!JobIds, unsettled' \subseteq Extract!Days,
         faults' \in 0..MaxFaults,
         UNCHANGED <<made, making, unsent, sent, campaigns, ads, raw, importing, requests, fetches>>
  PROVE  Handed'
<1> DEFINE k == work[w].message
<1>1. /\ queue \in [Extract!Messages -> Extract!MessageState] /\ made \in 0..MaxJobs
      /\ work \in [Workers -> Extract!WorkerState]
      /\ \A i \in Extract!Messages : queue[i].free => \A v \in Workers : work[v].message # i
  BY DEF Handed, Extract!TypeOK
<1>2. k # 0 => k \in Extract!Messages /\ k <= sent /\ queue[k].job # 0
               /\ (\A v \in Workers : work[v].message = k => v = w)
  <2>1. k \in 0..MaxMessages
    BY <1>1 DEF Extract!WorkerState
  <2> QED BY <2>1, ExtractConstants DEF Handed, MessagesApart, Extract!Messages
<1>3. \A i \in Extract!Messages : i # k => queue'[i] = queue[i]
  BY <1>1, <1>2 DEF Back
<1>4. k # 0 =>
        \/ queue' = queue
        \/ queue'[k] = Extract!NoMessage
        \/ queue[k].left > 0 /\ queue'[k] = [queue[k] EXCEPT !.free = TRUE]
  BY <1>1, <1>2 DEF Back
<1>5. \A v \in Workers : work'[v].message # 0 => v # w /\ work'[v] = work[v]
                                                /\ work[v].message # k
  BY <1>2 DEF OthersSame
<1>6. queue' \in [Extract!Messages -> Extract!MessageState]
  <2>1. Extract!NoMessage \in Extract!MessageState
    BY ExtractConstants DEF Extract!NoMessage, Extract!MessageState
  <2>2. \A i \in Extract!Messages : [queue[i] EXCEPT !.free = TRUE] \in Extract!MessageState
    BY <1>1 DEF Extract!MessageState
  <2> QED BY <1>1, <2>1, <2>2 DEF Back
<1>7. ASSUME NEW i \in Extract!Messages
      PROVE  /\ queue'[i].job <= made /\ (queue'[i].job # 0 => i <= sent)
             /\ queue'[i].free => queue'[i].job # 0 /\ queue'[i].left > 0
             /\ queue'[i].free => \A v \in Workers : work'[v].message # i
  <2>1. /\ queue[i].job <= made /\ queue[i] \in Extract!MessageState
        /\ queue[i].job # 0 => i <= sent
        /\ queue[i].free => queue[i].job # 0 /\ queue[i].left > 0
        /\ queue[i].free => \A v \in Workers : work[v].message # i
    BY <1>1 DEF Handed, MessagesApart
  <2>2. i # 0 /\ (queue[i].free => \A v \in Workers : work'[v].message # i)
    BY <1>5, <2>1, ExtractConstants DEF Extract!Messages
  <2>3. CASE queue'[i] = queue[i]
    BY <2>1, <2>2, <2>3
  <2>4. CASE i = k /\ queue'[i] = Extract!NoMessage
    BY <1>1, <2>4 DEF Extract!NoMessage
  <2>5. CASE i = k /\ queue[i].left > 0 /\ queue'[i] = [queue[i] EXCEPT !.free = TRUE]
    <3>1. queue'[i].job = queue[i].job /\ queue'[i].left = queue[i].left
      BY <2>1, <2>5 DEF Extract!MessageState
    <3>2. \A v \in Workers : work'[v].message # i
      BY <1>5, <2>2, <2>5
    <3> QED BY <1>2, <2>1, <2>2, <2>5, <3>1, <3>2
  <2> QED BY <1>3, <1>4, <2>2, <2>3, <2>4, <2>5
<1>8. Extract!TypeOK'
  BY <1>6, <1>7 DEF Handed, Extract!TypeOK
<1>9. JobsKnown'
  <2>1. \A m \in Makers : making[m].at = "looked" /\ making[m].job # 0 =>
                            jobs'[making[m].job].days = making[m].days
    BY <1>1 DEF Handed, JobsKnown, DaysKept
  <2>2. \A v \in Workers : work'[v].at # "idle" => work'[v].job \in 1..made
    BY DEF Handed, JobsKnown, OthersSame
  <2> QED BY <2>1, <2>2 DEF Handed, JobsKnown
<1>10. MessagesApart'
  <2>1. ASSUME NEW v \in Workers, work'[v].message # 0
        PROVE  /\ work'[v].message <= sent /\ queue'[work'[v].message].job # 0
               /\ work'[v].at # "idle"
               /\ \A u \in Workers : work'[u].message = work'[v].message => u = v
    <3>1. v # w /\ work'[v] = work[v] /\ work[v].message # k
      BY <1>5, <2>1
    <3>2. work[v].message \in Extract!Messages
      BY <1>1, <2>1, <3>1, ExtractConstants DEF Extract!WorkerState, Extract!Messages
    <3>3. queue'[work[v].message] = queue[work[v].message]
      BY <1>3, <3>1, <3>2
    <3>4. \A u \in Workers : work'[u].message = work'[v].message => work'[u] = work[u]
      BY <1>5, <2>1
    <3> QED BY <2>1, <3>1, <3>3, <3>4 DEF Handed, MessagesApart
  <2> QED BY <1>7, <2>1 DEF MessagesApart
<1> QED BY <1>8, <1>9, <1>10 DEF Handed

-----------------------------------------------------------------------------
(* Making jobs *)

\* What a maker does changes nothing for the rows.
LEMMA MakingKeeps ==
  ASSUME ExtractInv, Handed', DaysKept, UNCHANGED <<work, campaigns, ads, unsettled, importing>>
  PROVE  ExtractInv'
BY WrittenSame DEF ExtractInv

LEMMA LookKeeps ==
  ASSUME ExtractInv, NEW m \in Makers, NEW kind \in {"daily", "manual", "hourly"},
         NEW D \in SUBSET Extract!Days, NEW enqueue \in BOOLEAN,
         Extract!Look(m, kind, D, enqueue)
  PROVE  ExtractInv'
<1> USE DEF ExtractInv
<1>1. PICK j \in IF Extract!Found(D) = {} THEN {0} ELSE Extract!Found(D) :
        making' = [making EXCEPT ![m] =
          [at |-> "looked", kind |-> kind, days |-> D, job |-> j, enqueue |-> enqueue,
           status |-> IF j = 0 THEN "none" ELSE jobs[j].status]]
  BY DEF Extract!Look
<1>2. /\ requests < MaxRequests /\ requests' = requests + 1
      /\ UNCHANGED <<jobs, made, unsent, queue, sent, dropped, work, campaigns, ads, raw,
                     unsettled, importing, fetches, faults>>
  BY DEF Extract!Look, Extract!queueVars, Extract!rowVars
<1>3. /\ jobs \in [Extract!JobIds -> Extract!JobState] /\ made \in 0..MaxJobs
      /\ making \in [Makers -> Extract!MakerState]
  BY DEF Handed, Extract!TypeOK
<1>4. j \in 0..made /\ (j # 0 => jobs[j].days = D /\ j \in Extract!JobIds)
  BY <1>1, <1>3, ExtractConstants DEF Extract!Found, Extract!JobIds
<1> DEFINE next == [at |-> "looked", kind |-> kind, days |-> D, job |-> j, enqueue |-> enqueue,
                    status |-> IF j = 0 THEN "none" ELSE jobs[j].status]
<1>5. /\ next \in Extract!MakerState /\ next.at = "looked" /\ next.job = j /\ next.days = D
  <2>1. j \in 0..MaxJobs
    BY <1>3, <1>4, ExtractConstants
  <2>2. j # 0 => jobs[j].status \in Extract!Status
    BY <1>3, <1>4 DEF Extract!JobState
  <2> QED BY <2>1, <2>2 DEF Extract!MakerState, Extract!Status
<1>6. making' = [making EXCEPT ![m] = next]
  BY <1>1
<1> HIDE DEF next
<1>7. making' \in [Makers -> Extract!MakerState] /\ making'[m] = next
      /\ \A n \in Makers \ {m} : making'[n] = making[n]
  BY <1>3, <1>5, <1>6
<1>8. Extract!TypeOK'
  BY <1>2, <1>7, ExtractConstants DEF Handed, Extract!TypeOK
<1>9. JobsKnown'
  <2>1. ASSUME NEW n \in Makers
        PROVE  /\ making'[n].at # "idle" => making'[n].job \in 0..made
               /\ making'[n].at = "looked" /\ making'[n].job # 0 =>
                    jobs[making'[n].job].days = making'[n].days
               /\ making'[n].at = "saved" => making'[n].job # 0
    <3>1. CASE n = m
      BY <1>4, <1>5, <1>7, <3>1
    <3>2. CASE n # m
      BY <1>7, <3>2 DEF Handed, JobsKnown
    <3> QED BY <3>1, <3>2
  <2> QED BY <1>2, <2>1 DEF Handed, JobsKnown
<1>10. MessagesApart' /\ DaysKept
  BY <1>2 DEF Handed, MessagesApart, DaysKept
<1> QED BY <1>2, <1>8, <1>9, <1>10, MakingKeeps DEF Handed

\* A job is inserted, or saved again with the days it was found by.
LEMMA SavedKeeps ==
  ASSUME ExtractInv, NEW m \in Makers, NEW j \in Nat, NEW D \in SUBSET Extract!Days,
         making[m].at = "looked", making[m].days = D, Extract!Saved(m, j, D),
         \/ j = made + 1 /\ made < MaxJobs /\ made' = made + 1
         \/ j = making[m].job /\ j # 0 /\ made' = made,
         UNCHANGED <<queue, sent, dropped, work, campaigns, ads, raw, unsettled, importing,
                     requests, fetches, faults>>
  PROVE  ExtractInv'
<1> USE DEF ExtractInv
<1> DEFINE job == [days |-> D, status |-> "pending"]
<1>1. /\ jobs \in [Extract!JobIds -> Extract!JobState] /\ made \in 0..MaxJobs
      /\ making \in [Makers -> Extract!MakerState] /\ unsent \subseteq Extract!JobIds
      /\ \A i \in Extract!JobIds : (jobs[i] = Extract!NoJob) = (i > made)
  BY DEF Handed, Extract!TypeOK
<1>2. /\ jobs' = [jobs EXCEPT ![j] = job] /\ unsent' = unsent \cup {j}
      /\ making' = [making EXCEPT ![m] =
           IF making[m].enqueue THEN [making[m] EXCEPT !.at = "saved", !.job = j]
           ELSE Extract!NotMaking]
  BY DEF Extract!Saved
<1>3. /\ j \in Extract!JobIds /\ made' \in 0..MaxJobs /\ made <= made' /\ j \in 1..made'
      /\ \A i \in Extract!JobIds \ {j} : (i > made') <=> (i > made)
      /\ j <= made => jobs[j].days = D
  <2>1. CASE j = made + 1 /\ made < MaxJobs /\ made' = made + 1
    BY <1>1, <2>1, ExtractConstants DEF Extract!JobIds
  <2>2. CASE j = making[m].job /\ j # 0 /\ made' = made
    <3>1. j \in 0..made /\ jobs[j].days = D
      BY <2>2 DEF Handed, JobsKnown
    <3> QED BY <1>1, <2>2, <3>1, ExtractConstants DEF Extract!JobIds
  <2> QED BY <2>1, <2>2
<1>4. /\ job \in Extract!JobState /\ job # Extract!NoJob /\ job.days = D
  BY DEF Extract!JobState, Extract!Status, Extract!NoJob
<1> HIDE DEF job
<1>5. /\ jobs' \in [Extract!JobIds -> Extract!JobState] /\ jobs'[j] = job
      /\ \A i \in Extract!JobIds \ {j} : jobs'[i] = jobs[i]
  BY <1>1, <1>2, <1>3, <1>4
<1>6. \A i \in Extract!JobIds : (jobs'[i] = Extract!NoJob) = (i > made')
  <2> SUFFICES ASSUME NEW i \in Extract!JobIds
               PROVE  (jobs'[i] = Extract!NoJob) = (i > made')
    OBVIOUS
  <2>1. CASE i = j
    <3>1. ~(i > made')
      BY <1>1, <1>3, <2>1, ExtractConstants
    <3> QED BY <1>4, <1>5, <2>1, <3>1
  <2>2. CASE i # j
    <3>1. (jobs'[i] = Extract!NoJob) <=> (i > made')
      BY <1>1, <1>3, <1>5, <2>2
    <3>2. (jobs'[i] = Extract!NoJob) \in BOOLEAN /\ (i > made') \in BOOLEAN
      OBVIOUS
    <3> QED BY <3>1, <3>2
  <2> QED BY <2>1, <2>2
<1>7. DaysKept
  <2> SUFFICES ASSUME NEW i \in 1..made PROVE jobs'[i].days = jobs[i].days
    BY DEF DaysKept
  <2>1. i \in Extract!JobIds /\ i <= made
    BY <1>1, ExtractConstants DEF Extract!JobIds
  <2> QED BY <1>3, <1>4, <1>5, <2>1
<1>8. /\ making' \in [Makers -> Extract!MakerState]
      /\ \/ making'[m].at = "saved" /\ making'[m].job = j
         \/ making'[m].at = "idle"
      /\ (\A n \in Makers \ {m} : making'[n] = making[n])
  <2>1. Extract!NotMaking \in Extract!MakerState /\ Extract!NotMaking.at = "idle"
    BY ExtractConstants DEF Extract!NotMaking, Extract!MakerState, Extract!Status
  <2>2. /\ [making[m] EXCEPT !.at = "saved", !.job = j] \in Extract!MakerState
        /\ [making[m] EXCEPT !.at = "saved", !.job = j].at = "saved"
        /\ [making[m] EXCEPT !.at = "saved", !.job = j].job = j
    <3>1. j \in 0..MaxJobs
      BY <1>3, ExtractConstants DEF Extract!JobIds
    <3> QED BY <1>1, <3>1 DEF Extract!MakerState
  <2> QED BY <1>1, <1>2, <2>1, <2>2
<1>9. Extract!TypeOK'
  <2>1. unsent' \subseteq Extract!JobIds
    BY <1>1, <1>2, <1>3
  <2>2. made' \in 0..MaxJobs
    BY <1>3
  <2>3. making' \in [Makers -> Extract!MakerState]
    BY <1>8
  <2>4. jobs' \in [Extract!JobIds -> Extract!JobState]
    BY <1>5
  <2> QED BY <1>6, <2>1, <2>2, <2>3, <2>4 DEF Handed, Extract!TypeOK
<1>10. JobsKnown'
  <2>1. ASSUME NEW n \in Makers
        PROVE  /\ making'[n].at # "idle" => making'[n].job \in 0..made'
               /\ making'[n].at = "looked" /\ making'[n].job # 0 =>
                    jobs'[making'[n].job].days = making'[n].days
               /\ making'[n].at = "saved" => making'[n].job # 0
    <3>1. CASE n = m
      BY <1>1, <1>3, <1>8, <3>1
    <3>2. CASE n # m
      <4>1. making'[n] = making[n]
        BY <1>8, <3>2
      <4>2. /\ making[n].at # "idle" => making[n].job \in 0..made
            /\ making[n].at = "looked" /\ making[n].job # 0 =>
                 jobs[making[n].job].days = making[n].days
            /\ making[n].at = "saved" => making[n].job # 0
        BY DEF Handed, JobsKnown
      <4>3. making[n].at # "idle" => making[n].job \in 0..made'
        BY <1>1, <1>3, <4>2
      <4>4. making[n].at = "looked" /\ making[n].job # 0 =>
              jobs'[making[n].job].days = jobs[making[n].job].days
        BY <1>1, <1>7, <4>2 DEF DaysKept
      <4> QED BY <4>1, <4>2, <4>3, <4>4
    <3> QED BY <3>1, <3>2
  <2>2. \A w \in Workers : work[w].at # "idle" => work[w].job \in 1..made'
    BY <1>1, <1>3 DEF Handed, JobsKnown
  <2> QED BY <2>1, <2>2 DEF JobsKnown
<1>11. MessagesApart'
  <2>1. \A k \in Extract!Messages : queue[k].job <= made'
    <3> SUFFICES ASSUME NEW k \in Extract!Messages PROVE queue[k].job <= made'
      OBVIOUS
    <3>1. queue[k].job \in Int /\ queue[k].job <= made
      BY ExtractConstants DEF Handed, MessagesApart, Extract!TypeOK, Extract!MessageState
    <3> QED BY <1>1, <1>3, <3>1
  <2> QED BY <2>1 DEF Handed, MessagesApart
<1> QED BY <1>7, <1>9, <1>10, <1>11, MakingKeeps DEF Handed

LEMMA SaveJobKeeps ==
  ASSUME ExtractInv, NEW m \in Makers, Extract!SaveJob(m)
  PROVE  ExtractInv'
<1> USE DEF ExtractInv
<1> DEFINE t == making[m]
<1>1. /\ t.at = "looked" /\ t \in Extract!MakerState /\ made \in 0..MaxJobs
      /\ making \in [Makers -> Extract!MakerState]
      /\ UNCHANGED <<queue, sent, dropped, work, campaigns, ads, raw, unsettled, importing,
                     requests, fetches, faults>>
  BY DEF Extract!SaveJob, Extract!queueVars, Extract!rowVars, Handed, Extract!TypeOK
<1>2. t.days \in SUBSET Extract!Days /\ t.job \in Nat
  BY <1>1, ExtractConstants DEF Extract!MakerState
<1>3. CASE t.job = 0 /\ made < MaxJobs /\ made' = made + 1 /\ Extract!Saved(m, made + 1, t.days)
  BY <1>1, <1>2, <1>3, SavedKeeps, ExtractConstants
<1>4. CASE t.job # 0 /\ t.status \in Extract!Reset(t.kind) /\ Extract!Saved(m, t.job, t.days)
           /\ UNCHANGED made
  BY <1>1, <1>2, <1>4, SavedKeeps
<1>5. CASE /\ t.job # 0 /\ t.status \notin Extract!Reset(t.kind)
           /\ making' = [making EXCEPT ![m] =
                IF t.kind = "hourly" \/ ~t.enqueue THEN Extract!NotMaking
                ELSE [t EXCEPT !.at = "saved"]]
           /\ UNCHANGED <<jobs, made, unsent>>
  <2>1. /\ Extract!NotMaking \in Extract!MakerState /\ Extract!NotMaking.at = "idle"
    BY ExtractConstants DEF Extract!NotMaking, Extract!MakerState, Extract!Status
  <2>2. /\ [t EXCEPT !.at = "saved"] \in Extract!MakerState
        /\ [t EXCEPT !.at = "saved"].at = "saved" /\ [t EXCEPT !.at = "saved"].job = t.job
    BY <1>1 DEF Extract!MakerState
  <2>3. /\ making' \in [Makers -> Extract!MakerState]
        /\ \/ making'[m].at = "saved" /\ making'[m].job = t.job
           \/ making'[m].at = "idle"
        /\ \A n \in Makers \ {m} : making'[n] = making[n]
    BY <1>1, <1>5, <2>1, <2>2
  <2>4. Extract!TypeOK'
    BY <1>1, <1>5, <2>3 DEF Handed, Extract!TypeOK
  <2>5. t.job \in 0..made
    BY <1>1 DEF Handed, JobsKnown
  <2>6. JobsKnown'
    BY <1>1, <1>5, <2>3, <2>5 DEF Handed, JobsKnown
  <2>7. MessagesApart' /\ DaysKept
    BY <1>1, <1>5 DEF Handed, MessagesApart, DaysKept
  <2> QED BY <1>1, <2>4, <2>6, <2>7, MakingKeeps DEF Handed
<1> QED BY <1>3, <1>4, <1>5 DEF Extract!SaveJob

LEMMA PublishedKeeps ==
  ASSUME ExtractInv, NEW j \in 1..made, Extract!Published(j),
         making' \in [Makers -> Extract!MakerState],
         \A m \in Makers : making'[m] = making[m] \/ making'[m].at = "idle",
         requests' \in 0..MaxRequests,
         UNCHANGED <<jobs, made, dropped, work, campaigns, ads, raw, unsettled, importing,
                     fetches, faults>>
  PROVE  ExtractInv'
<1> USE DEF ExtractInv
<1> DEFINE message == [job |-> j, left |-> Deliveries, free |-> TRUE]
           k == sent + 1
<1>1. /\ queue \in [Extract!Messages -> Extract!MessageState] /\ sent \in 0..MaxMessages
      /\ made \in 0..MaxJobs /\ unsent \subseteq Extract!JobIds
      /\ work \in [Workers -> Extract!WorkerState]
  BY DEF Handed, Extract!TypeOK
<1>2. /\ sent < MaxMessages /\ sent' = k /\ unsent' = unsent \ {j}
      /\ queue' = [queue EXCEPT ![k] = message]
  BY DEF Extract!Published
<1>3. k \in Extract!Messages /\ sent' \in 0..MaxMessages
  BY <1>1, <1>2, ExtractConstants DEF Extract!Messages
<1>4. message \in Extract!MessageState /\ message.job = j /\ message.left = Deliveries
  <2>1. j \in 0..MaxJobs /\ Deliveries \in 0..Deliveries
    BY <1>1, ExtractConstants
  <2> QED BY <2>1 DEF Extract!MessageState
<1>5. \A w \in Workers : work[w].message # k
  <2> SUFFICES ASSUME NEW w \in Workers, work[w].message = k PROVE FALSE
    OBVIOUS
  <2>1. k # 0 /\ ~(k <= sent)
    BY <1>1, ExtractConstants
  <2> QED BY <2>1 DEF Handed, MessagesApart
<1> HIDE DEF message, k
<1>6. /\ queue' \in [Extract!Messages -> Extract!MessageState] /\ queue'[k] = message
      /\ \A i \in Extract!Messages \ {k} : queue'[i] = queue[i]
  BY <1>1, <1>2, <1>3, <1>4
<1>7. Extract!TypeOK'
  <2>1. \A i \in Extract!Messages : queue'[i].free => \A w \in Workers : work[w].message # i
    <3> SUFFICES ASSUME NEW i \in Extract!Messages, queue'[i].free,
                        NEW w \in Workers
                 PROVE  work[w].message # i
      OBVIOUS
    <3>1. CASE i = k
      BY <1>5, <3>1
    <3>2. CASE i # k
      BY <1>6, <3>2 DEF Handed, Extract!TypeOK
    <3> QED BY <3>1, <3>2
  <2>2. unsent' \subseteq Extract!JobIds
    BY <1>1, <1>2
  <2> QED BY <1>3, <1>6, <2>1, <2>2 DEF Handed, Extract!TypeOK
<1>8. JobsKnown' /\ DaysKept
  BY DEF Handed, JobsKnown, DaysKept
<1>9. MessagesApart'
  <2>1. ASSUME NEW i \in Extract!Messages
        PROVE  /\ queue'[i].job <= made /\ (queue'[i].job # 0 => i <= sent')
               /\ queue'[i].free => queue'[i].job # 0 /\ queue'[i].left > 0
    <3>1. CASE i = k
      <4>1. j <= made /\ j # 0 /\ Deliveries > 0 /\ k <= sent'
        BY <1>1, <1>2, <1>3, ExtractConstants
      <4> QED BY <1>4, <1>6, <3>1, <4>1
    <3>2. CASE i # k
      <4>1. /\ queue[i].job <= made /\ (queue[i].job # 0 => i <= sent)
            /\ queue[i].free => queue[i].job # 0 /\ queue[i].left > 0
        BY DEF Handed, MessagesApart
      <4>2. i <= sent => i <= sent'
        BY <1>1, <1>2, ExtractConstants DEF Extract!Messages, k
      <4> QED BY <1>6, <3>2, <4>1, <4>2
    <3> QED BY <3>1, <3>2
  <2>2. ASSUME NEW w \in Workers, work[w].message # 0
        PROVE  work[w].message <= sent' /\ queue'[work[w].message].job # 0
    <3>1. work[w].message \in Extract!Messages /\ work[w].message <= sent
          /\ queue[work[w].message].job # 0
      BY <1>1, <2>2, ExtractConstants
         DEF Handed, MessagesApart, Extract!WorkerState, Extract!Messages
    <3>2. work[w].message <= sent'
      BY <1>1, <1>2, <3>1, ExtractConstants DEF Extract!Messages, k
    <3> QED BY <1>5, <1>6, <3>1, <3>2
  <2> QED BY <2>1, <2>2 DEF Handed, MessagesApart
<1> QED BY <1>7, <1>8, <1>9, MakingKeeps DEF Handed

LEMMA IdleMaker ==
  ASSUME Handed, NEW m \in Makers, making' = [making EXCEPT ![m] = Extract!NotMaking]
  PROVE  /\ making' \in [Makers -> Extract!MakerState]
         /\ \A n \in Makers : making'[n] = making[n] \/ making'[n].at = "idle"
<1>1. Extract!NotMaking \in Extract!MakerState /\ Extract!NotMaking.at = "idle"
  BY ExtractConstants DEF Extract!NotMaking, Extract!MakerState, Extract!Status
<1> QED BY <1>1 DEF Handed, Extract!TypeOK

LEMMA PublishJobKeeps ==
  ASSUME ExtractInv, NEW m \in Makers, Extract!PublishJob(m)
  PROVE  ExtractInv'
<1> USE DEF ExtractInv
<1>1. making[m].job \in 1..made
  BY ExtractConstants DEF Extract!PublishJob, Handed, JobsKnown, Extract!TypeOK
<1>2. requests' \in 0..MaxRequests
      /\ UNCHANGED <<jobs, made, dropped, work, campaigns, ads, raw, unsettled, importing,
                     fetches, faults>>
  BY DEF Extract!PublishJob, Extract!rowVars, Handed, Extract!TypeOK
<1> QED BY <1>1, <1>2, IdleMaker, PublishedKeeps DEF Extract!PublishJob

LEMMA EnqueueJobKeeps ==
  ASSUME ExtractInv, NEW j \in Extract!JobIds, Extract!EnqueueJob(j)
  PROVE  ExtractInv'
<1> USE DEF ExtractInv
<1>1. j \in 1..made
  BY ExtractConstants DEF Extract!EnqueueJob, Extract!JobIds, Handed, Extract!TypeOK
<1>2. requests' \in 0..MaxRequests
      /\ UNCHANGED <<jobs, made, making, dropped, work, campaigns, ads, raw, unsettled, importing,
                     fetches, faults>>
  BY ExtractConstants DEF Extract!EnqueueJob, Extract!rowVars, Handed, Extract!TypeOK
<1>3. making' \in [Makers -> Extract!MakerState]
  BY <1>2 DEF Handed, Extract!TypeOK
<1> QED BY <1>1, <1>2, <1>3, PublishedKeeps DEF Extract!EnqueueJob

LEMMA PublishFailsKeeps ==
  ASSUME ExtractInv, NEW m \in Makers, Extract!PublishFails(m)
  PROVE  ExtractInv'
<1> USE DEF ExtractInv
<1>1. /\ faults' \in 0..MaxFaults /\ making' = [making EXCEPT ![m] = Extract!NotMaking]
      /\ UNCHANGED <<jobs, made, unsent, queue, sent, dropped, work, campaigns, ads, raw,
                     unsettled, importing, requests, fetches>>
  BY ExtractConstants DEF Extract!PublishFails, Extract!Fault, Extract!queueVars,
                          Extract!rowVars, Handed, Extract!TypeOK
<1>2. Extract!TypeOK'
  BY <1>1, IdleMaker DEF Handed, Extract!TypeOK
<1>3. JobsKnown'
  BY <1>1, IdleMaker DEF Handed, JobsKnown
<1>4. MessagesApart' /\ DaysKept
  BY <1>1 DEF Handed, MessagesApart, DaysKept
<1> QED BY <1>1, <1>2, <1>3, <1>4, MakingKeeps DEF Handed

-----------------------------------------------------------------------------
(* Workers: messages, and the end of a job *)

LEMMA IdleWorker ==
  /\ Extract!NotWorking \in Extract!WorkerState
  /\ Extract!NotWorking.at = "idle" /\ Extract!NotWorking.message = 0
  /\ Extract!NotWorking.campaigns = {} /\ Extract!NotWorking.ads = {}
  /\ Extract!NotWorking.clean = {}
BY ExtractConstants DEF Extract!NotWorking, Extract!WorkerState, Extract!Fetches

LEMMA TakeMessageKeeps ==
  ASSUME ExtractInv, NEW w \in Workers, NEW k \in Extract!Messages,
         Extract!TakeMessage(w, k)
  PROVE  ExtractInv'
<1> USE DEF ExtractInv
<1>1. /\ work[w].at = "idle" /\ queue[k].free
      /\ queue' = [queue EXCEPT ![k].free = FALSE, ![k].left = @ - 1]
      /\ jobs' = [jobs EXCEPT ![queue[k].job].status = "running"]
      /\ work' = [work EXCEPT ![w] = [Extract!NotWorking EXCEPT !.at = "fetch",
                                        !.job = queue[k].job, !.message = k]]
      /\ UNCHANGED <<made, making, unsent, sent, dropped, campaigns, ads, raw, unsettled,
                     importing, requests, fetches, faults>>
  BY DEF Extract!TakeMessage, Extract!Starts, Extract!Taken, Extract!rowVars
<1>2. /\ queue \in [Extract!Messages -> Extract!MessageState] /\ made \in 0..MaxJobs
      /\ work \in [Workers -> Extract!WorkerState] /\ sent \in 0..MaxMessages
      /\ \A i \in Extract!Messages : queue[i].free => \A v \in Workers : work[v].message # i
  BY DEF Handed, Extract!TypeOK
<1>3. /\ queue[k].job # 0 /\ queue[k].job <= made /\ queue[k].left > 0
      /\ queue[k] \in Extract!MessageState /\ queue[k].job \in 1..made
  BY <1>1, <1>2, ExtractConstants DEF Handed, MessagesApart, Extract!MessageState
<1>4. /\ jobs' \in [Extract!JobIds -> Extract!JobState]
      /\ \A i \in Extract!JobIds : (jobs'[i] = Extract!NoJob) = (i > made)
      /\ DaysKept
  BY <1>1, <1>3, StatusSet
<1> DEFINE next == [Extract!NotWorking EXCEPT !.at = "fetch", !.job = queue[k].job, !.message = k]
           rest == [queue[k] EXCEPT !.free = FALSE, !.left = @ - 1]
<1>5. /\ next \in Extract!WorkerState /\ next.at = "fetch" /\ next.job = queue[k].job
      /\ next.message = k /\ next.campaigns = {} /\ next.ads = {} /\ next.clean = {}
  <2>1. k \in 0..MaxMessages /\ queue[k].job \in 0..MaxJobs /\ 0 \in Extract!Fetches
    BY <1>2, <1>3, ExtractConstants DEF Extract!Messages, Extract!Fetches
  <2> QED BY <2>1 DEF Extract!NotWorking, Extract!WorkerState
<1>6. rest \in Extract!MessageState /\ rest.free = FALSE /\ rest.job = queue[k].job
  <2>1. queue[k].left - 1 \in 0..Deliveries
    BY <1>3, ExtractConstants DEF Extract!MessageState
  <2> QED BY <1>3, <2>1 DEF Extract!MessageState
<1>7. work' = [work EXCEPT ![w] = next] /\ queue' = [queue EXCEPT ![k] = rest]
  BY <1>1
<1> HIDE DEF next, rest
<1>8. /\ work' \in [Workers -> Extract!WorkerState] /\ work'[w] = next
      /\ \A v \in Workers \ {w} : work'[v] = work[v]
  BY <1>2, <1>5, <1>7
<1>9. /\ queue' \in [Extract!Messages -> Extract!MessageState] /\ queue'[k] = rest
      /\ \A i \in Extract!Messages \ {k} : queue'[i] = queue[i]
  BY <1>2, <1>6, <1>7
<1>10. k <= sent
  BY <1>3 DEF Handed, MessagesApart
<1>11. Extract!TypeOK'
  <2>1. \A i \in Extract!Messages : queue'[i].free => \A v \in Workers : work'[v].message # i
    <3> SUFFICES ASSUME NEW i \in Extract!Messages, queue'[i].free, NEW v \in Workers
                 PROVE  work'[v].message # i
      OBVIOUS
    <3>1. i # k /\ queue[i].free
      BY <1>6, <1>9
    <3>2. CASE v = w
      BY <1>5, <1>8, <3>1, <3>2
    <3>3. CASE v # w
      BY <1>2, <1>8, <3>1, <3>3
    <3> QED BY <3>2, <3>3
  <2> QED BY <1>1, <1>4, <1>8, <1>9, <2>1 DEF Handed, Extract!TypeOK
<1>12. JobsKnown'
  <2>1. \A m \in Makers : making[m].at = "looked" /\ making[m].job # 0 =>
                            jobs'[making[m].job].days = making[m].days
    BY <1>2, <1>4 DEF Handed, JobsKnown, DaysKept
  <2>2. \A v \in Workers : work'[v].at # "idle" => work'[v].job \in 1..made
    BY <1>3, <1>5, <1>8 DEF Handed, JobsKnown
  <2> QED BY <1>1, <2>1, <2>2 DEF Handed, JobsKnown
<1>13. MessagesApart'
  <2>1. \A i \in Extract!Messages :
          /\ queue'[i].job <= made /\ (queue'[i].job # 0 => i <= sent)
          /\ queue'[i].free => queue'[i].job # 0 /\ queue'[i].left > 0
          /\ queue'[i].job = queue[i].job
    BY <1>3, <1>6, <1>9 DEF Handed, MessagesApart
  <2>2. ASSUME NEW v \in Workers, work'[v].message # 0
        PROVE  /\ work'[v].message <= sent /\ queue'[work'[v].message].job # 0
               /\ work'[v].at # "idle"
               /\ \A u \in Workers : work'[u].message = work'[v].message => u = v
    <3>1. \A u \in Workers \ {w} : work'[u] = work[u] /\ work[u].message # k
      BY <1>1, <1>2, <1>8
    <3>2. CASE v = w
      BY <1>3, <1>5, <1>8, <1>10, <2>1, <3>1, <3>2
    <3>3. CASE v # w
      <4>1. work[v].message \in Extract!Messages
        BY <1>2, <2>2, <3>1, <3>3, ExtractConstants DEF Extract!WorkerState, Extract!Messages
      <4>2. queue'[work[v].message].job = queue[work[v].message].job
        BY <2>1, <4>1
      <4>3. /\ work[v].message <= sent /\ queue[work[v].message].job # 0
            /\ work[v].at # "idle"
            /\ \A u \in Workers : work[u].message = work[v].message => u = v
        BY <2>2, <3>1, <3>3 DEF Handed, MessagesApart
      <4> QED BY <1>5, <1>8, <3>1, <3>3, <4>2, <4>3
    <3> QED BY <3>2, <3>3
  <2> QED BY <1>1, <2>1, <2>2 DEF MessagesApart
<1>14. Written'
  <2>1. OthersSame(w) /\ Writes(w)' = {} /\ work'[w].at = "fetch"
    BY <1>5, <1>8 DEF OthersSame, Writes
  <2> QED BY <1>1, <1>4, <2>1, WrittenCeases
<1> QED BY <1>11, <1>12, <1>13, <1>14 DEF Handed

\* A job is worked on at once, without a message.
LEMMA AtOnceKeeps ==
  ASSUME ExtractInv, NEW w \in Workers, NEW j \in 1..made, Extract!ProcessAtOnce(w, j),
         making' \in [Makers -> Extract!MakerState],
         \A m \in Makers : making'[m] = making[m] \/ making'[m].at = "idle",
         requests' \in 0..MaxRequests
  PROVE  ExtractInv'
<1> USE DEF ExtractInv
<1> DEFINE next == [Extract!NotWorking EXCEPT !.at = "fetch", !.job = j, !.message = 0]
<1>1. /\ work[w].at = "idle" /\ jobs' = [jobs EXCEPT ![j].status = "running"]
      /\ work' = [work EXCEPT ![w] = next] /\ unsent' = unsent \ {j}
      /\ UNCHANGED <<made, queue, sent, dropped, campaigns, ads, raw, unsettled, importing,
                     fetches, faults>>
  BY DEF Extract!ProcessAtOnce, Extract!Starts, Extract!queueVars, Extract!rowVars
<1>2. /\ queue \in [Extract!Messages -> Extract!MessageState] /\ made \in 0..MaxJobs
      /\ work \in [Workers -> Extract!WorkerState] /\ unsent' \subseteq Extract!JobIds
      /\ \A i \in Extract!Messages : queue[i].free => \A v \in Workers : work[v].message # i
  BY <1>1 DEF Handed, Extract!TypeOK
<1>3. /\ jobs' \in [Extract!JobIds -> Extract!JobState]
      /\ \A i \in Extract!JobIds : (jobs'[i] = Extract!NoJob) = (i > made)
      /\ DaysKept
  BY <1>1, StatusSet
<1>4. /\ next \in Extract!WorkerState /\ next.at = "fetch" /\ next.job = j
      /\ next.message = 0 /\ next.campaigns = {} /\ next.ads = {} /\ next.clean = {}
  <2>1. 0 \in 0..MaxMessages /\ j \in 0..MaxJobs /\ 0 \in Extract!Fetches
    BY <1>2, ExtractConstants DEF Extract!Fetches
  <2> QED BY <2>1 DEF Extract!NotWorking, Extract!WorkerState
<1> HIDE DEF next
<1>5. /\ work' \in [Workers -> Extract!WorkerState] /\ work'[w] = next
      /\ \A v \in Workers \ {w} : work'[v] = work[v]
  BY <1>1, <1>2, <1>4
<1>6. work[w].message = 0
  BY <1>1 DEF Handed, MessagesApart
<1>7. \A v \in Workers : work'[v].message = work[v].message
  BY <1>4, <1>5, <1>6
<1>8. Extract!TypeOK'
  BY <1>1, <1>2, <1>3, <1>5, <1>7 DEF Handed, Extract!TypeOK
<1>9. JobsKnown'
  <2>1. \A m \in Makers : making[m].at = "looked" /\ making[m].job # 0 =>
                            jobs'[making[m].job].days = making[m].days
    BY <1>2, <1>3 DEF Handed, JobsKnown, DaysKept
  <2>2. \A v \in Workers : work'[v].at # "idle" => work'[v].job \in 1..made
    BY <1>4, <1>5 DEF Handed, JobsKnown
  <2> QED BY <1>1, <2>1, <2>2 DEF Handed, JobsKnown
<1>10. MessagesApart'
  <2>1. \A v \in Workers : work[v].message # 0 => work'[v].at # "idle"
    BY <1>4, <1>5 DEF Handed, MessagesApart
  <2> QED BY <1>1, <1>7, <2>1 DEF Handed, MessagesApart
<1>11. Written'
  <2>1. OthersSame(w) /\ Writes(w)' = {} /\ work'[w].at = "fetch"
    BY <1>4, <1>5 DEF OthersSame, Writes
  <2> QED BY <1>1, <1>3, <2>1, WrittenCeases
<1> QED BY <1>8, <1>9, <1>10, <1>11 DEF Handed

LEMMA ProcessMadeKeeps ==
  ASSUME ExtractInv, NEW m \in Makers, NEW w \in Workers, Extract!ProcessMade(m, w)
  PROVE  ExtractInv'
<1>1. making[m].job \in 1..made
  BY ExtractConstants DEF Extract!ProcessMade, ExtractInv, Handed, JobsKnown, Extract!TypeOK
<1>2. /\ Extract!ProcessAtOnce(w, making[m].job)
      /\ making' = [making EXCEPT ![m] = Extract!NotMaking]
      /\ requests' \in 0..MaxRequests
  BY DEF Extract!ProcessMade, ExtractInv, Handed, Extract!TypeOK
<1> QED BY <1>1, <1>2, IdleMaker, AtOnceKeeps DEF ExtractInv

LEMMA ProcessAskedKeeps ==
  ASSUME ExtractInv, NEW j \in Extract!JobIds, NEW w \in Workers, Extract!ProcessAsked(w, j)
  PROVE  ExtractInv'
<1>1. j \in 1..made /\ requests' \in 0..MaxRequests
  BY ExtractConstants DEF Extract!ProcessAsked, Extract!JobIds, ExtractInv, Handed, Extract!TypeOK
<1>2. Extract!ProcessAtOnce(w, j) /\ making' = making
  BY DEF Extract!ProcessAsked
<1>3. making' \in [Makers -> Extract!MakerState]
  BY <1>2 DEF ExtractInv, Handed, Extract!TypeOK
<1> QED BY <1>1, <1>2, <1>3, AtOnceKeeps

\* Worker w is done with its job, and the message back.
LEMMA EndsIdle ==
  ASSUME Handed, NEW w \in Workers, Back(w),
         work' = [work EXCEPT ![w] = Extract!NotWorking],
         jobs' \in [Extract!JobIds -> Extract!JobState],
         \A j \in Extract!JobIds : (jobs'[j] = Extract!NoJob) = (j > made),
         DaysKept, dropped' \subseteq Extract!JobIds, unsettled' \subseteq Extract!Days,
         faults' \in 0..MaxFaults,
         UNCHANGED <<made, making, unsent, sent, campaigns, ads, raw, importing, requests, fetches>>
  PROVE  Handed' /\ OthersSame(w) /\ Writes(w)' = {} /\ work'[w].at = "idle"
<1>1. /\ work' \in [Workers -> Extract!WorkerState] /\ work'[w] = Extract!NotWorking
      /\ \A v \in Workers \ {w} : work'[v] = work[v]
  BY IdleWorker DEF Handed, Extract!TypeOK
<1>2. OthersSame(w) /\ Writes(w)' = {} /\ work'[w].at = "idle" /\ work'[w].message = 0
  BY <1>1, IdleWorker DEF OthersSame, Writes
<1> QED BY <1>1, <1>2, HandsBack

LEMMA ReturnedIsBack ==
  ASSUME Handed, NEW w \in Workers,
         queue' = IF work[w].message = 0 THEN queue ELSE Extract!Returned(work[w].message)
  PROVE  Back(w)
BY DEF Back, Extract!Returned

LEMMA LetsGo ==
  ASSUME Handed, NEW w \in Workers, work[w].at # "idle", Extract!LetGo(w)
  PROVE  Back(w) /\ dropped' \subseteq Extract!JobIds
<1>1. Back(w)
  BY ReturnedIsBack DEF Extract!LetGo
<1>2. work[w].job \in Extract!JobIds
  BY ExtractConstants DEF Handed, JobsKnown, Extract!TypeOK, Extract!JobIds
<1>3. ASSUME work[w].message # 0 PROVE queue[work[w].message].job \in Extract!JobIds
  <2>1. work[w].message \in Extract!Messages
    BY <1>3, ExtractConstants DEF Handed, Extract!TypeOK, Extract!WorkerState, Extract!Messages
  <2>2. queue[work[w].message].job # 0 /\ queue[work[w].message].job \in 0..MaxJobs
    BY <1>3, <2>1 DEF Handed, MessagesApart, Extract!TypeOK, Extract!MessageState
  <2> QED BY <2>2, ExtractConstants DEF Extract!JobIds
<1>4. dropped' \subseteq Extract!JobIds
  BY <1>3, <1>2 DEF Extract!LetGo, Handed, Extract!TypeOK
<1> QED BY <1>1, <1>4

LEMMA JobsSame ==
  ASSUME Handed, jobs' = jobs
  PROVE  /\ jobs' \in [Extract!JobIds -> Extract!JobState]
         /\ \A j \in Extract!JobIds : (jobs'[j] = Extract!NoJob) = (j > made)
         /\ DaysKept
BY DEF Handed, Extract!TypeOK, DaysKept

LEMMA FaultTyped == ASSUME Handed, Extract!Fault PROVE faults' \in 0..MaxFaults
BY ExtractConstants DEF Handed, Extract!TypeOK, Extract!Fault

LEMMA WorkerDiesKeeps ==
  ASSUME ExtractInv, NEW w \in Workers, Extract!WorkerDies(w)
  PROVE  ExtractInv'
<1> USE DEF ExtractInv
<1>1. /\ Extract!LetGo(w) /\ work' = [work EXCEPT ![w] = Extract!NotWorking]
      /\ faults' \in 0..MaxFaults /\ work[w].at # "idle"
      /\ UNCHANGED <<jobs, made, making, unsent, sent, campaigns, ads, raw, unsettled, importing,
                     requests, fetches>>
  BY FaultTyped DEF Extract!WorkerDies, Extract!jobVars, Extract!rowVars
<1>2. unsettled' \subseteq Extract!Days
  BY <1>1 DEF Handed, Extract!TypeOK
<1>3. Handed' /\ OthersSame(w) /\ Writes(w)' = {} /\ work'[w].at = "idle"
  BY <1>1, <1>2, LetsGo, JobsSame, EndsIdle
<1>4. DaysKept
  BY <1>1, JobsSame
<1> QED BY <1>1, <1>3, <1>4, WrittenCeases

LEMMA LockLapsesKeeps ==
  ASSUME ExtractInv, NEW w \in Workers, Extract!LockLapses(w)
  PROVE  ExtractInv'
<1> USE DEF ExtractInv
<1>1. /\ Extract!LetGo(w) /\ work' = [work EXCEPT ![w].message = 0]
      /\ faults' \in 0..MaxFaults /\ work[w].message # 0
      /\ UNCHANGED <<jobs, made, making, unsent, sent, campaigns, ads, raw, unsettled, importing,
                     requests, fetches>>
  BY FaultTyped DEF Extract!LockLapses, Extract!jobVars, Extract!rowVars
<1>2. work \in [Workers -> Extract!WorkerState] /\ unsettled' \subseteq Extract!Days
  BY <1>1 DEF Handed, Extract!TypeOK
<1>3. /\ work' \in [Workers -> Extract!WorkerState] /\ work'[w].message = 0
      /\ OthersSame(w)
      /\ \A v \in Workers :
           /\ work'[v].at = work[v].at /\ work'[v].job = work[v].job
           /\ work'[v].fetch = work[v].fetch /\ work'[v].campaigns = work[v].campaigns
           /\ work'[v].ads = work[v].ads /\ work'[v].clean = work[v].clean
  <2>1. work' \in [Workers -> Extract!WorkerState]
    <3>1. 0 \in 0..MaxMessages
      BY ExtractConstants
    <3> QED BY <1>1, <1>2, <3>1 DEF Extract!WorkerState
  <2>2. OthersSame(w)
    BY <1>1, <1>2 DEF OthersSame
  <2>3. /\ work'[w].message = 0
        /\ work'[w].at = work[w].at /\ work'[w].job = work[w].job
        /\ work'[w].fetch = work[w].fetch /\ work'[w].campaigns = work[w].campaigns
        /\ work'[w].ads = work[w].ads /\ work'[w].clean = work[w].clean
    BY <1>1, <1>2 DEF Extract!WorkerState
  <2> QED BY <2>1, <2>2, <2>3 DEF OthersSame
<1>4. work[w].at # "idle"
  BY <1>1 DEF Handed, MessagesApart
<1>5. Handed'
  BY <1>1, <1>2, <1>3, <1>4, LetsGo, JobsSame, HandsBack
<1> QED BY <1>1, <1>3, <1>5, JobsSame, WrittenSame

LEMMA FailJobKeeps ==
  ASSUME ExtractInv, NEW w \in Workers, Extract!FailJob(w)
  PROVE  ExtractInv'
<1> USE DEF ExtractInv
<1>1. /\ work[w].at = "failed" /\ jobs' = [jobs EXCEPT ![work[w].job].status = "failed"]
      /\ unsettled' = unsettled \ work[w].clean
      /\ work' = [work EXCEPT ![w] = Extract!NotWorking]
      /\ queue' = IF work[w].message = 0 THEN queue ELSE Extract!Returned(work[w].message)
      /\ UNCHANGED <<made, making, unsent, sent, dropped, campaigns, ads, raw, importing, requests,
                     fetches, faults>>
  BY DEF Extract!FailJob
<1>2. work[w].job \in 1..made
  BY <1>1 DEF Handed, JobsKnown
<1>3. unsettled' = unsettled
  <2>1. Writes(w) = {}
    BY <1>1 DEF Written, WriterKept
  <2> QED BY <1>1, <2>1 DEF Writes
<1>4. /\ jobs' \in [Extract!JobIds -> Extract!JobState]
      /\ \A i \in Extract!JobIds : (jobs'[i] = Extract!NoJob) = (i > made)
      /\ DaysKept
  BY <1>1, <1>2, StatusSet
<1>5. /\ unsettled' \subseteq Extract!Days /\ dropped' \subseteq Extract!JobIds
      /\ faults' \in 0..MaxFaults
  BY <1>1, <1>3 DEF Handed, Extract!TypeOK
<1>6. Handed' /\ OthersSame(w) /\ Writes(w)' = {} /\ work'[w].at = "idle"
  BY <1>1, <1>4, <1>5, ReturnedIsBack, EndsIdle
<1> QED BY <1>1, <1>3, <1>4, <1>6, WrittenCeases

LEMMA CompleteJobKeeps ==
  ASSUME ExtractInv, NEW w \in Workers, Extract!CompleteJob(w)
  PROVE  ExtractInv'
<1> USE DEF ExtractInv
<1> DEFINE clean == work[w].clean
<1>1. /\ work[w].at = "rows" /\ work[w].campaigns = {} /\ work[w].ads = {}
      /\ jobs' = [jobs EXCEPT ![work[w].job].status = "completed"]
      /\ unsettled' = unsettled \ clean
      /\ work' = [work EXCEPT ![w] = Extract!NotWorking]
      /\ Back(w)
      /\ UNCHANGED <<made, making, unsent, sent, dropped, campaigns, ads, raw, importing, requests,
                     fetches, faults>>
  BY DEF Extract!CompleteJob, Extract!AllRowsStored, Back
<1>2. work[w].job \in 1..made
  BY <1>1 DEF Handed, JobsKnown
<1>3. /\ jobs' \in [Extract!JobIds -> Extract!JobState]
      /\ \A i \in Extract!JobIds : (jobs'[i] = Extract!NoJob) = (i > made)
      /\ DaysKept
  BY <1>1, <1>2, StatusSet
<1>4. /\ unsettled' \subseteq Extract!Days /\ dropped' \subseteq Extract!JobIds
      /\ faults' \in 0..MaxFaults
  BY <1>1 DEF Handed, Extract!TypeOK
<1>5. Handed' /\ OthersSame(w) /\ Writes(w)' = {} /\ work'[w].at = "idle"
  BY <1>1, <1>3, <1>4, EndsIdle
<1>6. ASSUME NEW d \in clean
      PROVE  /\ \A v \in Workers \ {w} : d \notin Writes(v)
             /\ importing.at # "idle" => importing.day # d
             /\ campaigns[d] = ads[d]
  BY <1>1 DEF Written, WriterKept, AsLeft
<1>7. ASSUME NEW v \in Workers PROVE WriterKept(v)'
  <2>1. CASE v = w
    BY <1>5, <2>1 DEF WriterKept, Writes
  <2>2. CASE v # w
    <3>1. WriterKept(v) /\ work'[v] = work[v] /\ Writes(v)' = Writes(v)
      BY <1>5, <2>2 DEF Written, OthersSame, Writes
    <3>2. work[v].at # "idle" => jobs'[work[v].job].days = jobs[work[v].job].days
      BY <1>3 DEF Handed, JobsKnown, DaysKept
    <3>3. \A d \in work[v].clean : AsLeft(v, d) => AsLeft(v, d)'
      BY <1>1, <3>1 DEF AsLeft
    <3>4. Writes(v) \subseteq unsettled'
      BY <1>1, <1>6, <2>2, <3>1 DEF WriterKept
    <3>5. \A u \in Workers : Writes(u)' \subseteq Writes(u)
      BY <1>5 DEF OthersSame, Writes
    <3> QED BY <1>1, <3>1, <3>2, <3>3, <3>4, <3>5 DEF WriterKept
  <2> QED BY <2>1, <2>2
<1>8. ImportKept'
  <2>1. \A v \in Workers : Writes(v)' \subseteq Writes(v)
    BY <1>5 DEF OthersSame, Writes
  <2>2. importing.at # "idle" => importing.day \in unsettled'
    BY <1>1, <1>6 DEF Written, ImportKept
  <2> QED BY <1>1, <2>1, <2>2 DEF Written, ImportKept
<1>9. DayIsOneFetchUnlessCut'
  <2> SUFFICES ASSUME NEW d \in Extract!Days, d \notin unsettled' PROVE campaigns[d] = ads[d]
    BY <1>1 DEF DayIsOneFetchUnlessCut, Extract!DayIsOneFetchUnlessCut
  <2>1. CASE d \in clean
    BY <1>6, <2>1
  <2>2. CASE d \notin clean
    BY <1>1, <2>2 DEF Written, DayIsOneFetchUnlessCut, Extract!DayIsOneFetchUnlessCut
  <2> QED BY <2>1, <2>2
<1> QED BY <1>5, <1>7, <1>8, <1>9 DEF Written

-----------------------------------------------------------------------------
(* Workers: the rows *)

\* A worker goes on with the days it writes.
LEMMA WritesOn ==
  ASSUME ExtractInv, NEW w \in Workers, OthersSame(w),
         work' \in [Workers -> Extract!WorkerState],
         work'[w].job = work[w].job /\ work'[w].message = work[w].message,
         work[w].at # "idle" /\ work'[w].at # "idle",
         Writes(w)' \subseteq Writes(w), work'[w].clean \subseteq work[w].clean,
         work'[w].at \in {"fetch", "failed"} => Writes(w)' = {},
         work'[w].at \in {"ads", "raw"} => /\ work'[w].campaigns = jobs[work[w].job].days
                                           /\ work'[w].ads = jobs[work[w].job].days,
         \A d \in work'[w].clean : AsLeft(w, d)',
         campaigns' \in [Extract!Days -> Extract!Fetches],
         ads' \in [Extract!Days -> Extract!Fetches], raw' \subseteq Extract!Fetches,
         \A d \in Extract!Days \ Writes(w) : campaigns'[d] = campaigns[d] /\ ads'[d] = ads[d],
         faults' \in 0..MaxFaults,
         UNCHANGED <<jobs, made, making, unsent, queue, sent, dropped, unsettled, importing,
                     requests, fetches>>
  PROVE  ExtractInv'
<1> USE DEF ExtractInv
<1>1. Handed'
  <2>1. importing' \in Extract!ImportState /\ unsettled' \subseteq Extract!Days
        /\ requests' \in 0..MaxRequests /\ fetches' \in Extract!Fetches
    BY DEF Handed, Extract!TypeOK
  <2>2. \A v \in Workers :
           /\ work'[v].job = work[v].job /\ work'[v].message = work[v].message
           /\ work'[v].at = "idle" <=> work[v].at = "idle"
    BY DEF OthersSame
  <2> QED BY <2>1, <2>2, HandedSame
<1>2. \A v \in Workers : Writes(v)' \subseteq Writes(v)
  BY DEF OthersSame, Writes
<1>3. work \in [Workers -> Extract!WorkerState] /\ importing.day \in Extract!Days
  BY DEF Handed, Extract!TypeOK, Extract!ImportState
<1>4. ASSUME NEW v \in Workers PROVE WriterKept(v)'
  <2>1. CASE v = w
    <3>1. WriterKept(w)
      BY DEF Written
    <3> QED BY <1>2, <2>1, <3>1 DEF WriterKept
  <2>2. CASE v # w
    <3>1. WriterKept(v) /\ work'[v] = work[v] /\ Writes(v)' = Writes(v)
      BY <2>2 DEF Written, OthersSame, Writes
    <3>2. ASSUME NEW d \in work[v].clean PROVE AsLeft(v, d)'
      <4>1. d \in Extract!Days \ Writes(w) /\ AsLeft(v, d)
        BY <1>3, <2>2, <3>1 DEF WriterKept, Extract!WorkerState
      <4> QED BY <3>1, <4>1 DEF AsLeft
    <3> QED BY <1>2, <3>1, <3>2 DEF WriterKept
  <2> QED BY <2>1, <2>2
<1>5. ImportKept'
  <2>1. importing.clean # {} => importing.day \in Extract!Days \ Writes(w)
    BY <1>3 DEF Written, ImportKept
  <2> QED BY <1>2, <2>1 DEF Written, ImportKept
<1>6. DayIsOneFetchUnlessCut'
  <2>1. Writes(w) \subseteq unsettled
    BY DEF Written, WriterKept
  <2> QED BY <2>1 DEF Written, DayIsOneFetchUnlessCut, Extract!DayIsOneFetchUnlessCut
<1> QED BY <1>1, <1>4, <1>5, <1>6 DEF Written

LEMMA HandedTyped ==
  ASSUME Handed
  PROVE  /\ work \in [Workers -> Extract!WorkerState]
         /\ campaigns \in [Extract!Days -> Extract!Fetches]
         /\ ads \in [Extract!Days -> Extract!Fetches] /\ raw \subseteq Extract!Fetches
         /\ unsettled \subseteq Extract!Days /\ importing \in Extract!ImportState
         /\ faults \in 0..MaxFaults /\ requests \in 0..MaxRequests
         /\ fetches \in Extract!Fetches
         /\ \A w \in Workers : work[w] \in Extract!WorkerState
         /\ \A w \in Workers : Writes(w) \subseteq Extract!Days
BY DEF Handed, Extract!TypeOK, Writes, Extract!WorkerState

LEMMA ExtractFailsKeeps ==
  ASSUME ExtractInv, NEW w \in Workers, Extract!ExtractFails(w)
  PROVE  ExtractInv'
<1> USE DEF ExtractInv
<1> DEFINE next == [work[w] EXCEPT !.at = "failed", !.campaigns = {}, !.ads = {}, !.clean = {}]
<1>1. /\ work[w].at # "idle" /\ faults' \in 0..MaxFaults
      /\ work' = [work EXCEPT ![w] = next]
      /\ UNCHANGED <<jobs, made, making, unsent, queue, sent, dropped, campaigns, ads, raw,
                     unsettled, importing, requests, fetches>>
  BY FaultTyped DEF Extract!ExtractFails, Extract!jobVars, Extract!queueVars, Extract!rowVars
<1>2. /\ next \in Extract!WorkerState /\ next.at = "failed" /\ next.job = work[w].job
      /\ next.message = work[w].message
      /\ next.campaigns = {} /\ next.ads = {} /\ next.clean = {}
  BY HandedTyped DEF Extract!WorkerState
<1> HIDE DEF next
<1>3. work' \in [Workers -> Extract!WorkerState] /\ work'[w] = next /\ OthersSame(w)
  BY <1>1, <1>2, HandedTyped DEF OthersSame
<1>4. Writes(w)' = {}
  BY <1>2, <1>3 DEF Writes
<1> QED BY <1>1, <1>2, <1>3, <1>4, HandedTyped, WritesOn

LEMMA DeleteAdRowsKeeps ==
  ASSUME ExtractInv, NEW w \in Workers, Extract!DeleteAdRows(w)
  PROVE  ExtractInv'
<1> USE DEF ExtractInv
<1> DEFINE next == [work[w] EXCEPT !.at = "raw"]
           D == jobs[work[w].job].days
<1>1. /\ work[w].at = "ads"
      /\ ads' = [d \in Extract!Days |-> IF d \in D THEN 0 ELSE ads[d]]
      /\ work' = [work EXCEPT ![w] = next]
      /\ UNCHANGED <<jobs, made, making, unsent, queue, sent, dropped, campaigns, raw,
                     unsettled, importing, requests, fetches, faults>>
  BY DEF Extract!DeleteAdRows, Extract!DaysOf, Extract!jobVars, Extract!queueVars
<1>2. /\ next \in Extract!WorkerState /\ next.at = "raw" /\ next.job = work[w].job
      /\ next.message = work[w].message /\ next.campaigns = work[w].campaigns
      /\ next.ads = work[w].ads /\ next.clean = work[w].clean
  BY HandedTyped DEF Extract!WorkerState
<1>3. /\ work[w].campaigns = D /\ work[w].ads = D /\ D \subseteq Writes(w)
      /\ Writes(w) \subseteq D
      /\ \A d \in work[w].clean : campaigns[d] = 0
  BY <1>1 DEF Written, WriterKept, AsLeft, Writes
<1> HIDE DEF next, D
<1>4. work' \in [Workers -> Extract!WorkerState] /\ work'[w] = next /\ OthersSame(w)
  BY <1>1, <1>2, HandedTyped DEF OthersSame
<1>5. Writes(w)' = Writes(w)
  BY <1>2, <1>4 DEF Writes
<1>6. ads' \in [Extract!Days -> Extract!Fetches]
      /\ \A d \in Extract!Days : ads'[d] = IF d \in D THEN 0 ELSE ads[d]
  BY <1>1, HandedTyped DEF Extract!Fetches
<1>7. ASSUME NEW d \in work[w].clean PROVE AsLeft(w, d)'
  <2>1. d \in Extract!Days /\ d \in D
    BY <1>3, HandedTyped DEF Writes
  <2> QED BY <1>1, <1>2, <1>3, <1>4, <1>6, <2>1 DEF AsLeft
<1>8. \A d \in Extract!Days \ Writes(w) : campaigns'[d] = campaigns[d] /\ ads'[d] = ads[d]
  BY <1>1, <1>3, <1>6
<1>9. work'[w].at \in {"ads", "raw"} => /\ work'[w].campaigns = jobs[work[w].job].days
                                        /\ work'[w].ads = jobs[work[w].job].days
  BY <1>2, <1>3, <1>4 DEF D
<1> QED BY <1>1, <1>2, <1>4, <1>5, <1>6, <1>7, <1>8, <1>9, HandedTyped, WritesOn

LEMMA StoreRawKeeps ==
  ASSUME ExtractInv, NEW w \in Workers, Extract!StoreRaw(w)
  PROVE  ExtractInv'
<1> USE DEF ExtractInv
<1> DEFINE next == [work[w] EXCEPT !.at = "rows"]
<1>1. /\ work[w].at = "raw" /\ raw' = raw \cup {work[w].fetch}
      /\ work' = [work EXCEPT ![w] = next]
      /\ UNCHANGED <<jobs, made, making, unsent, queue, sent, dropped, campaigns, ads,
                     unsettled, importing, requests, fetches, faults>>
  BY DEF Extract!StoreRaw, Extract!jobVars, Extract!queueVars
<1>2. /\ next \in Extract!WorkerState /\ next.at = "rows" /\ next.job = work[w].job
      /\ next.message = work[w].message /\ next.campaigns = work[w].campaigns
      /\ next.ads = work[w].ads /\ next.clean = work[w].clean /\ next.fetch = work[w].fetch
      /\ work[w].fetch \in Extract!Fetches
  BY HandedTyped DEF Extract!WorkerState
<1>3. /\ Writes(w) \subseteq work[w].campaigns /\ Writes(w) \subseteq work[w].ads
      /\ \A d \in work[w].clean : campaigns[d] = 0 /\ ads[d] = 0
  BY <1>1 DEF Written, WriterKept, AsLeft
<1> HIDE DEF next
<1>4. work' \in [Workers -> Extract!WorkerState] /\ work'[w] = next /\ OthersSame(w)
  BY <1>1, <1>2, HandedTyped DEF OthersSame
<1>5. Writes(w)' = Writes(w)
  BY <1>2, <1>4 DEF Writes
<1>6. ASSUME NEW d \in work[w].clean PROVE AsLeft(w, d)'
  BY <1>1, <1>2, <1>3, <1>4 DEF AsLeft, Writes
<1>7. raw' \subseteq Extract!Fetches
  BY <1>1, <1>2, HandedTyped
<1> QED BY <1>1, <1>2, <1>4, <1>5, <1>6, <1>7, HandedTyped, WritesOn

\* A worker that was refused a row was not alone at all the days of its job.
LEMMA RefusedKeeps ==
  ASSUME ExtractInv, NEW w \in Workers, NEW d \in Extract!Days, work[w].at = "rows",
         \/ d \in work[w].campaigns /\ campaigns[d] # 0
         \/ d \in work[w].ads /\ ads[d] # 0,
         Extract!Refused(w),
         UNCHANGED <<jobs, made, making, unsent, queue, sent, dropped, campaigns, ads, raw,
                     unsettled, importing, requests, fetches, faults>>
  PROVE  ExtractInv'
<1> USE DEF ExtractInv
<1> DEFINE next == [work[w] EXCEPT !.at = "failed", !.campaigns = {}, !.ads = {}, !.clean = {}]
<1>1. d \notin work[w].clean
  BY DEF Written, WriterKept, AsLeft
<1>2. d \in jobs[work[w].job].days
  BY DEF Written, WriterKept, Writes
<1>3. work' = [work EXCEPT ![w] = next]
  BY <1>1, <1>2 DEF Extract!Refused
<1>4. /\ next \in Extract!WorkerState /\ next.at = "failed" /\ next.job = work[w].job
      /\ next.message = work[w].message
      /\ next.campaigns = {} /\ next.ads = {} /\ next.clean = {}
  BY HandedTyped DEF Extract!WorkerState
<1> HIDE DEF next
<1>5. work' \in [Workers -> Extract!WorkerState] /\ work'[w] = next /\ OthersSame(w)
  BY <1>3, <1>4, HandedTyped DEF OthersSame
<1>6. Writes(w)' = {}
  BY <1>4, <1>5 DEF Writes
<1> QED BY <1>4, <1>5, <1>6, HandedTyped, WritesOn

LEMMA InsertCampaignKeeps ==
  ASSUME ExtractInv, NEW w \in Workers, NEW d \in Extract!Days, Extract!InsertCampaign(w, d)
  PROVE  ExtractInv'
<1> USE DEF ExtractInv
<1> DEFINE next == [work[w] EXCEPT !.campaigns = @ \ {d}]
<1>1. /\ work[w].at = "rows" /\ d \in work[w].campaigns
      /\ UNCHANGED <<jobs, made, making, unsent, queue, sent, dropped, ads, raw, unsettled,
                     importing, requests, fetches, faults>>
  BY DEF Extract!InsertCampaign, Extract!jobVars, Extract!queueVars
<1>2. CASE campaigns[d] # 0
  BY <1>1, <1>2, RefusedKeeps DEF Extract!InsertCampaign
<1>3. CASE campaigns[d] = 0
  <2>1. /\ campaigns' = [campaigns EXCEPT ![d] = work[w].fetch]
        /\ work' = [work EXCEPT ![w] = next]
    BY <1>3 DEF Extract!InsertCampaign
  <2>2. /\ next \in Extract!WorkerState /\ next.at = "rows" /\ next.job = work[w].job
        /\ next.message = work[w].message /\ next.campaigns = work[w].campaigns \ {d}
        /\ next.ads = work[w].ads /\ next.clean = work[w].clean
        /\ next.fetch = work[w].fetch /\ work[w].fetch \in Extract!Fetches
    BY <1>1, HandedTyped DEF Extract!WorkerState
  <2>3. \A e \in work[w].clean :
          /\ e \in Extract!Days
          /\ campaigns[e] = IF e \in work[w].campaigns THEN 0 ELSE work[w].fetch
          /\ ads[e] = IF e \in work[w].ads THEN 0 ELSE work[w].fetch
    BY <1>1, HandedTyped DEF Written, WriterKept, AsLeft, Writes
  <2> HIDE DEF next
  <2>4. work' \in [Workers -> Extract!WorkerState] /\ work'[w] = next /\ OthersSame(w)
    BY <2>1, <2>2, HandedTyped DEF OthersSame
  <2>5. Writes(w)' \subseteq Writes(w) /\ d \in Writes(w)
    BY <1>1, <2>2, <2>4 DEF Writes
  <2>6. campaigns' \in [Extract!Days -> Extract!Fetches]
        /\ \A e \in Extract!Days : campaigns'[e] = IF e = d THEN work[w].fetch ELSE campaigns[e]
    BY <2>1, <2>2, HandedTyped
  <2>7. ASSUME NEW e \in work[w].clean PROVE AsLeft(w, e)'
    BY <1>1, <2>2, <2>3, <2>4, <2>6 DEF AsLeft
  <2>8. \A e \in Extract!Days \ Writes(w) : campaigns'[e] = campaigns[e] /\ ads'[e] = ads[e]
    BY <1>1, <2>5, <2>6
  <2> QED BY <1>1, <2>2, <2>4, <2>5, <2>6, <2>7, <2>8, HandedTyped, WritesOn
<1> QED BY <1>2, <1>3

LEMMA InsertAdKeeps ==
  ASSUME ExtractInv, NEW w \in Workers, NEW d \in Extract!Days, Extract!InsertAd(w, d)
  PROVE  ExtractInv'
<1> USE DEF ExtractInv
<1> DEFINE next == [work[w] EXCEPT !.ads = @ \ {d}]
<1>1. /\ work[w].at = "rows" /\ d \in work[w].ads
      /\ UNCHANGED <<jobs, made, making, unsent, queue, sent, dropped, campaigns, raw, unsettled,
                     importing, requests, fetches, faults>>
  BY DEF Extract!InsertAd, Extract!jobVars, Extract!queueVars
<1>2. CASE ads[d] # 0
  BY <1>1, <1>2, RefusedKeeps DEF Extract!InsertAd
<1>3. CASE ads[d] = 0
  <2>1. /\ ads' = [ads EXCEPT ![d] = work[w].fetch]
        /\ work' = [work EXCEPT ![w] = next]
    BY <1>3 DEF Extract!InsertAd
  <2>2. /\ next \in Extract!WorkerState /\ next.at = "rows" /\ next.job = work[w].job
        /\ next.message = work[w].message /\ next.campaigns = work[w].campaigns
        /\ next.ads = work[w].ads \ {d} /\ next.clean = work[w].clean
        /\ next.fetch = work[w].fetch /\ work[w].fetch \in Extract!Fetches
    BY <1>1, HandedTyped DEF Extract!WorkerState
  <2>3. \A e \in work[w].clean :
          /\ e \in Extract!Days
          /\ campaigns[e] = IF e \in work[w].campaigns THEN 0 ELSE work[w].fetch
          /\ ads[e] = IF e \in work[w].ads THEN 0 ELSE work[w].fetch
    BY <1>1, HandedTyped DEF Written, WriterKept, AsLeft, Writes
  <2> HIDE DEF next
  <2>4. work' \in [Workers -> Extract!WorkerState] /\ work'[w] = next /\ OthersSame(w)
    BY <2>1, <2>2, HandedTyped DEF OthersSame
  <2>5. Writes(w)' \subseteq Writes(w) /\ d \in Writes(w)
    BY <1>1, <2>2, <2>4 DEF Writes
  <2>6. ads' \in [Extract!Days -> Extract!Fetches]
        /\ \A e \in Extract!Days : ads'[e] = IF e = d THEN work[w].fetch ELSE ads[e]
    BY <2>1, <2>2, HandedTyped
  <2>7. ASSUME NEW e \in work[w].clean PROVE AsLeft(w, e)'
    BY <1>1, <2>2, <2>3, <2>4, <2>6 DEF AsLeft
  <2>8. \A e \in Extract!Days \ Writes(w) : campaigns'[e] = campaigns[e] /\ ads'[e] = ads[e]
    BY <1>1, <2>5, <2>6
  <2> QED BY <1>1, <2>2, <2>4, <2>5, <2>6, <2>7, <2>8, HandedTyped, WritesOn
<1> QED BY <1>2, <1>3

\* Worker w begins to write D: it is alone at those days nobody else writes,
\* and nobody is alone at days of D any more.
LEMMA DeleteCampaignRowsKeeps ==
  ASSUME ExtractInv, NEW w \in Workers, Extract!DeleteCampaignRows(w)
  PROVE  ExtractInv'
<1> USE DEF ExtractInv
<1> DEFINE D == jobs[work[w].job].days
           clean == Extract!Begin(w, D)
           next == [work[w] EXCEPT !.at = "ads", !.fetch = fetches + 1, !.campaigns = D,
                                   !.ads = D, !.clean = clean]
<1>1. /\ work[w].at = "fetch" /\ fetches' = fetches + 1
      /\ campaigns' = [d \in Extract!Days |-> IF d \in D THEN 0 ELSE campaigns[d]]
      /\ unsettled' = unsettled \cup D
      /\ work' = [Extract!WithoutDays(D) EXCEPT ![w] = next]
      /\ importing' = [importing EXCEPT !.clean = @ \ D]
      /\ UNCHANGED <<jobs, made, making, unsent, queue, sent, dropped, ads, raw, requests, faults>>
  BY DEF Extract!DeleteCampaignRows, Extract!DaysOf, Extract!jobVars, Extract!queueVars
<1>2. work[w].job \in 1..made /\ D \subseteq Extract!Days
  <2>1. work[w].job \in 1..made
    BY <1>1 DEF Handed, JobsKnown
  <2>2. made \in 0..MaxJobs /\ jobs \in [Extract!JobIds -> Extract!JobState]
    BY DEF Handed, Extract!TypeOK
  <2>3. work[w].job \in Extract!JobIds
    BY <2>1, <2>2, ExtractConstants DEF Extract!JobIds
  <2> QED BY <2>1, <2>2, <2>3 DEF Extract!JobState
<1>3. /\ clean \subseteq D
      /\ \A d \in clean : /\ \A v \in Workers \ {w} : d \notin Writes(v)
                          /\ importing.at # "idle" => importing.day # d
  <2>1. clean \subseteq D
    BY DEF Extract!Begin
  <2>2. ASSUME NEW d \in clean, NEW v \in Workers \ {w} PROVE d \notin Writes(v)
    <3>1. d \notin UNION {work[u].clean \cup work[u].campaigns \cup work[u].ads :
                           u \in Workers \ {w}}
      BY DEF Extract!Begin
    <3> QED BY <3>1 DEF Writes
  <2>3. ASSUME NEW d \in clean, importing.at # "idle" PROVE importing.day # d
    BY <1>2, <2>1, <2>3 DEF Extract!Begin
  <2> QED BY <2>1, <2>2, <2>3
<1>4. /\ next \in Extract!WorkerState /\ next.at = "ads" /\ next.job = work[w].job
      /\ next.message = work[w].message /\ next.campaigns = D /\ next.ads = D
      /\ next.clean = clean
  <2>1. fetches + 1 \in Extract!Fetches /\ clean \in SUBSET Extract!Days
    BY <1>2, <1>3, HandedTyped DEF Extract!Fetches
  <2> QED BY <1>2, <2>1, HandedTyped DEF Extract!WorkerState
<1> HIDE DEF next, clean, D
<1>5. /\ work'[w] = next /\ work' \in [Workers -> Extract!WorkerState]
      /\ \A v \in Workers \ {w} :
           /\ work'[v].at = work[v].at /\ work'[v].job = work[v].job
           /\ work'[v].message = work[v].message /\ work'[v].fetch = work[v].fetch
           /\ work'[v].campaigns = work[v].campaigns /\ work'[v].ads = work[v].ads
           /\ work'[v].clean = work[v].clean \ D
  <2>1. \A v \in Workers :
          LET less == Extract!WithoutDays(D)[v] IN
          /\ less \in Extract!WorkerState
          /\ less.at = work[v].at /\ less.job = work[v].job
          /\ less.message = work[v].message /\ less.fetch = work[v].fetch
          /\ less.campaigns = work[v].campaigns /\ less.ads = work[v].ads
          /\ less.clean = work[v].clean \ D
    BY HandedTyped DEF Extract!WithoutDays, Extract!WorkerState
  <2>2. \A v \in Workers : work'[v] = IF v = w THEN next ELSE Extract!WithoutDays(D)[v]
    BY <1>1 DEF Extract!WithoutDays
  <2>3. work' \in [Workers -> Extract!WorkerState]
    <3>1. Extract!WithoutDays(D) \in [Workers -> Extract!WorkerState]
      BY <2>1 DEF Extract!WithoutDays
    <3> QED BY <1>1, <1>4, <3>1
  <2>4. ASSUME NEW v \in Workers \ {w}
        PROVE  /\ work'[v].at = work[v].at /\ work'[v].job = work[v].job
               /\ work'[v].message = work[v].message /\ work'[v].fetch = work[v].fetch
               /\ work'[v].campaigns = work[v].campaigns /\ work'[v].ads = work[v].ads
               /\ work'[v].clean = work[v].clean \ D
    BY <2>1, <2>2
  <2> QED BY <2>2, <2>3, <2>4
<1>6. /\ importing' \in Extract!ImportState /\ importing'.at = importing.at
      /\ importing'.day = importing.day /\ importing'.found = importing.found
      /\ importing'.clean = importing.clean \ D
  BY <1>1, HandedTyped DEF Extract!ImportState
<1>7. campaigns' \in [Extract!Days -> Extract!Fetches]
      /\ \A d \in Extract!Days : campaigns'[d] = IF d \in D THEN 0 ELSE campaigns[d]
  BY <1>1, HandedTyped DEF Extract!Fetches
<1>8. Handed'
  <2>1. /\ unsettled' \subseteq Extract!Days /\ fetches' \in Extract!Fetches
        /\ ads' \in [Extract!Days -> Extract!Fetches] /\ raw' \subseteq Extract!Fetches
        /\ requests' \in 0..MaxRequests /\ faults' \in 0..MaxFaults
    BY <1>1, <1>2, HandedTyped DEF Extract!Fetches
  <2>2. \A v \in Workers :
           /\ work'[v].job = work[v].job /\ work'[v].message = work[v].message
           /\ work'[v].at = "idle" <=> work[v].at = "idle"
    BY <1>1, <1>4, <1>5
  <2> QED BY <1>1, <1>5, <1>6, <1>7, <2>1, <2>2, HandedSame
<1>9. /\ \A v \in Workers \ {w} : Writes(v)' \subseteq Writes(v) /\ work'[v].clean \cap D = {}
      /\ Writes(w)' = D
  BY <1>3, <1>4, <1>5 DEF Writes
<1>10. ASSUME NEW v \in Workers PROVE WriterKept(v)'
  <2>1. CASE v = w
    <3>1. \A d \in clean : AsLeft(w, d)'
      BY <1>2, <1>3, <1>4, <1>5, <1>7 DEF AsLeft
    <3>2. work'[w].at = "ads" /\ work'[w].clean = clean /\ work'[w].campaigns = D
          /\ work'[w].ads = D /\ jobs'[work'[w].job].days = D /\ D \subseteq unsettled'
      BY <1>1, <1>4, <1>5 DEF D
    <3> QED BY <1>3, <1>6, <1>9, <2>1, <3>1, <3>2 DEF WriterKept
  <2>2. CASE v # w
    <3>1. WriterKept(v)
      BY DEF Written
    <3>2. work[v].clean \subseteq Extract!Days
      BY HandedTyped DEF Writes
    <3>3. ASSUME NEW d \in work'[v].clean
          PROVE  /\ \A u \in Workers \ {v} : d \notin Writes(u)'
                 /\ importing'.at # "idle" => importing'.day # d
                 /\ AsLeft(v, d)'
      <4>1. d \in work[v].clean /\ d \notin D /\ d \in Extract!Days
        BY <1>5, <2>2, <3>2
      <4>2. /\ \A u \in Workers \ {v} : d \notin Writes(u)
            /\ importing.at # "idle" => importing.day # d
            /\ AsLeft(v, d)
        BY <3>1, <4>1 DEF WriterKept
      <4>3. campaigns'[d] = campaigns[d] /\ ads'[d] = ads[d]
        BY <1>1, <1>7, <4>1
      <4>4. AsLeft(v, d)'
        BY <1>5, <2>2, <4>2, <4>3 DEF AsLeft
      <4> QED BY <1>6, <1>9, <4>1, <4>2, <4>4
    <3>4. /\ work'[v].at = work[v].at /\ work'[v].job = work[v].job
          /\ work'[v].campaigns = work[v].campaigns /\ work'[v].ads = work[v].ads
          /\ Writes(v)' \subseteq Writes(v) /\ jobs' = jobs /\ unsettled \subseteq unsettled'
      BY <1>1, <1>5, <1>9, <2>2
    <3> QED BY <3>1, <3>3, <3>4 DEF WriterKept
  <2> QED BY <2>1, <2>2
<1>11. ImportKept'
  <2>1. ImportKept /\ importing.day \in Extract!Days
    BY HandedTyped DEF Written, Extract!ImportState
  <2>2. ASSUME importing'.clean # {}
        PROVE  /\ \A v \in Workers : importing'.day \notin Writes(v)'
               /\ importing'.at = "ad" => ads'[importing'.day] = importing'.found
               /\ importing'.at = "rebuild" => campaigns'[importing'.day] = 0
    <3>1. importing.clean # {} /\ importing.day \notin D
      BY <1>6, <2>1, <2>2 DEF ImportKept
    <3>2. /\ \A v \in Workers : importing.day \notin Writes(v)
          /\ importing.at = "ad" => ads[importing.day] = importing.found
          /\ importing.at = "rebuild" => campaigns[importing.day] = 0
      BY <2>1, <3>1 DEF ImportKept
    <3>3. campaigns'[importing.day] = campaigns[importing.day]
      BY <1>7, <2>1, <3>1
    <3> QED BY <1>1, <1>6, <1>9, <3>1, <3>2, <3>3
  <2> QED BY <1>1, <1>6, <2>1, <2>2 DEF ImportKept
<1>12. DayIsOneFetchUnlessCut'
  BY <1>1, <1>7 DEF Written, DayIsOneFetchUnlessCut, Extract!DayIsOneFetchUnlessCut
<1> QED BY <1>8, <1>10, <1>11, <1>12 DEF Written

-----------------------------------------------------------------------------
(* The import *)

\* The import begins: it is alone at its day if nobody writes it, and no worker
\* is alone at that day any more.
LEMMA ImportBeginKeeps ==
  ASSUME ExtractInv, NEW d \in Extract!Days, Extract!ImportBegin(d)
  PROVE  ExtractInv'
<1> USE DEF ExtractInv
<1> DEFINE clean == {d} \ UNION {work[v].clean \cup work[v].campaigns \cup work[v].ads :
                                   v \in Workers}
           next == [at |-> "ad", day |-> d, value |-> fetches + 1, found |-> ads[d],
                    clean |-> clean]
<1>1. /\ importing.at = "idle" /\ requests < MaxRequests /\ requests' = requests + 1
      /\ fetches' = fetches + 1 /\ importing' = next
      /\ work' = Extract!WithoutDays({d}) /\ unsettled' = unsettled \cup {d}
      /\ UNCHANGED <<jobs, made, making, unsent, queue, sent, dropped, campaigns, ads, raw, faults>>
  BY DEF Extract!ImportBegin, Extract!jobVars, Extract!queueVars
<1>2. /\ clean \subseteq {d} /\ clean \in SUBSET Extract!Days
      /\ clean # {} => \A v \in Workers : d \notin Writes(v)
  BY DEF Writes
<1> HIDE DEF clean
<1>3. /\ importing' \in Extract!ImportState /\ importing'.at = "ad" /\ importing'.day = d
      /\ importing'.found = ads[d] /\ importing'.clean = clean
  <2>1. fetches + 1 \in Extract!Fetches /\ ads[d] \in Extract!Fetches
    BY HandedTyped DEF Extract!Fetches
  <2> QED BY <1>1, <1>2, <2>1 DEF Extract!ImportState
<1> HIDE DEF next
<1>4. \A v \in Workers :
        /\ work'[v] \in Extract!WorkerState
        /\ work'[v].at = work[v].at /\ work'[v].job = work[v].job
        /\ work'[v].message = work[v].message /\ work'[v].fetch = work[v].fetch
        /\ work'[v].campaigns = work[v].campaigns /\ work'[v].ads = work[v].ads
        /\ work'[v].clean = work[v].clean \ {d}
  BY <1>1, HandedTyped DEF Extract!WithoutDays, Extract!WorkerState
<1>5. Handed'
  <2>1. /\ unsettled' \subseteq Extract!Days /\ fetches' \in Extract!Fetches
        /\ campaigns' \in [Extract!Days -> Extract!Fetches]
        /\ ads' \in [Extract!Days -> Extract!Fetches] /\ raw' \subseteq Extract!Fetches
        /\ faults' \in 0..MaxFaults
    BY <1>1, HandedTyped DEF Extract!Fetches
  <2>2. requests' \in 0..MaxRequests
    BY <1>1, HandedTyped, ExtractConstants
  <2>3. work' \in [Workers -> Extract!WorkerState]
    BY <1>1, <1>4 DEF Extract!WithoutDays
  <2> QED BY <1>1, <1>3, <1>4, <2>1, <2>2, <2>3, HandedSame
<1>6. \A v \in Workers : Writes(v)' \subseteq Writes(v)
  BY <1>4 DEF Writes
<1>7. ASSUME NEW v \in Workers PROVE WriterKept(v)'
  <2>1. WriterKept(v)
    BY DEF Written
  <2>2. ASSUME NEW e \in work'[v].clean
        PROVE  /\ \A u \in Workers \ {v} : e \notin Writes(u)'
               /\ importing'.at # "idle" => importing'.day # e
               /\ AsLeft(v, e)'
    <3>1. e \in work[v].clean /\ e # d
      BY <1>4, <2>2
    <3>2. AsLeft(v, e)'
      BY <1>1, <1>4, <2>1, <3>1 DEF WriterKept, AsLeft
    <3> QED BY <1>3, <1>6, <2>1, <3>1, <3>2 DEF WriterKept
  <2>3. unsettled \subseteq unsettled' /\ jobs' = jobs
    BY <1>1
  <2> QED BY <1>4, <1>6, <2>1, <2>2, <2>3 DEF WriterKept
<1>8. ImportKept'
  BY <1>1, <1>2, <1>3, <1>6 DEF ImportKept
<1>9. DayIsOneFetchUnlessCut'
  BY <1>1 DEF Written, DayIsOneFetchUnlessCut, Extract!DayIsOneFetchUnlessCut
<1> QED BY <1>5, <1>7, <1>8, <1>9 DEF Written

\* The import goes on with its day, or ends.
LEMMA ImportsOn ==
  ASSUME ExtractInv, importing.at # "idle",
         importing' \in Extract!ImportState, ImportKept',
         importing'.at # "idle" => importing'.day = importing.day,
         unsettled' = unsettled \/ unsettled' = unsettled \ importing.clean,
         campaigns' \in [Extract!Days -> Extract!Fetches],
         ads' \in [Extract!Days -> Extract!Fetches],
         \A d \in Extract!Days \ {importing.day} : campaigns'[d] = campaigns[d] /\ ads'[d] = ads[d],
         importing.day \notin unsettled' => campaigns'[importing.day] = ads'[importing.day],
         faults' \in 0..MaxFaults,
         UNCHANGED <<jobs, made, making, unsent, queue, sent, dropped, work, raw, requests,
                     fetches>>
  PROVE  ExtractInv'
<1> USE DEF ExtractInv
<1>1. Handed'
  <2>1. unsettled' \subseteq Extract!Days
    BY HandedTyped
  <2> QED BY <2>1, HandedTyped, HandedSame
<1>2. \A v \in Workers : Writes(v)' = Writes(v)
  BY DEF Writes
<1>3. \A v \in Workers : Writes(v) \cap importing.clean = {}
  BY DEF Written, ImportKept
<1>4. ASSUME NEW v \in Workers PROVE WriterKept(v)'
  <2>1. WriterKept(v)
    BY DEF Written
  <2>2. Writes(v) \subseteq unsettled'
    BY <1>3, <2>1 DEF WriterKept
  <2>3. ASSUME NEW d \in work[v].clean
        PROVE  AsLeft(v, d)' /\ (importing'.at # "idle" => importing'.day # d)
    <3>1. d \in Extract!Days \ {importing.day} /\ AsLeft(v, d)
      BY <2>1, HandedTyped DEF WriterKept, Writes
    <3> QED BY <3>1 DEF AsLeft
  <2> QED BY <1>2, <2>1, <2>2, <2>3 DEF WriterKept
<1>5. DayIsOneFetchUnlessCut'
  <2> SUFFICES ASSUME NEW d \in Extract!Days, d \notin unsettled'
               PROVE  campaigns'[d] = ads'[d]
    BY DEF DayIsOneFetchUnlessCut, Extract!DayIsOneFetchUnlessCut
  <2>1. CASE d = importing.day
    BY <2>1
  <2>2. CASE d # importing.day
    <3>1. d \notin unsettled
      BY <2>2 DEF Written, ImportKept
    <3> QED BY <2>2, <3>1 DEF Written, DayIsOneFetchUnlessCut, Extract!DayIsOneFetchUnlessCut
  <2> QED BY <2>1, <2>2
<1> QED BY <1>1, <1>4, <1>5 DEF Written

LEMMA IdleImport ==
  /\ Extract!NotImporting \in Extract!ImportState /\ Extract!NotImporting.at = "idle"
  /\ Extract!NotImporting.clean = {}
BY DEF Extract!NotImporting, Extract!ImportState, Extract!Fetches, Extract!Days

\* An import that ended is kept.
LEMMA IdleImportKept ==
  ASSUME importing' = Extract!NotImporting
  PROVE  ImportKept'
BY IdleImport DEF ImportKept

LEMMA ImportAdKeeps ==
  ASSUME ExtractInv, Extract!ImportAd
  PROVE  ExtractInv'
<1> USE DEF ExtractInv
<1> DEFINE d == importing.day
<1>1. /\ importing.at = "ad"
      /\ UNCHANGED <<jobs, made, making, unsent, queue, sent, dropped, work, campaigns, raw,
                     requests, fetches, faults>>
  BY DEF Extract!ImportAd, Extract!jobVars, Extract!queueVars
<1>2. ImportKept /\ d \in Extract!Days /\ importing.value \in Extract!Fetches /\ d \in unsettled
  BY <1>1, HandedTyped DEF Written, ImportKept, Extract!ImportState
<1>3. CASE ads[d] \in {0, importing.found}
  <2>1. /\ ads' = [ads EXCEPT ![d] = importing.value]
        /\ importing' = [importing EXCEPT !.at = "delete"] /\ unsettled' = unsettled
    BY <1>3 DEF Extract!ImportAd, Extract!Imported
  <2>2. /\ importing' \in Extract!ImportState /\ importing'.at = "delete"
        /\ importing'.day = d /\ importing'.clean = importing.clean
    BY <2>1, HandedTyped DEF Extract!ImportState
  <2>3. ImportKept'
    BY <1>1, <1>2, <2>1, <2>2 DEF ImportKept, Writes
  <2>4. ads' \in [Extract!Days -> Extract!Fetches]
        /\ \A e \in Extract!Days \ {d} : ads'[e] = ads[e]
    BY <1>2, <2>1, HandedTyped
  <2> QED BY <1>1, <1>2, <2>1, <2>2, <2>3, <2>4, HandedTyped, ImportsOn
<1>4. CASE ads[d] \notin {0, importing.found}
  <2>1. /\ importing' = Extract!NotImporting /\ ads' = ads
        /\ unsettled' = unsettled \ importing.clean
    BY <1>4 DEF Extract!ImportAd, Extract!Imported
  <2>2. importing.clean = {}
    BY <1>1, <1>2, <1>4 DEF ImportKept
  <2>3. d \in unsettled'
    BY <1>2, <2>1, <2>2
  <2> QED BY <1>1, <2>1, <2>3, IdleImport, IdleImportKept, HandedTyped, ImportsOn
<1> QED BY <1>3, <1>4

LEMMA ImportDeleteKeeps ==
  ASSUME ExtractInv, Extract!ImportDelete
  PROVE  ExtractInv'
<1> USE DEF ExtractInv
<1> DEFINE d == importing.day
<1>1. /\ importing.at = "delete" /\ campaigns' = [campaigns EXCEPT ![d] = 0]
      /\ importing' = [importing EXCEPT !.at = "rebuild"] /\ unsettled' = unsettled
      /\ UNCHANGED <<jobs, made, making, unsent, queue, sent, dropped, work, ads, raw,
                     requests, fetches, faults>>
  BY DEF Extract!ImportDelete, Extract!Imported, Extract!jobVars, Extract!queueVars
<1>2. ImportKept /\ d \in Extract!Days /\ d \in unsettled
  BY <1>1, HandedTyped DEF Written, ImportKept, Extract!ImportState
<1>3. /\ importing' \in Extract!ImportState /\ importing'.at = "rebuild"
      /\ importing'.day = d /\ importing'.clean = importing.clean
  BY <1>1, HandedTyped DEF Extract!ImportState
<1>4. /\ campaigns' \in [Extract!Days -> Extract!Fetches] /\ campaigns'[d] = 0
      /\ \A e \in Extract!Days \ {d} : campaigns'[e] = campaigns[e]
  BY <1>1, <1>2, HandedTyped DEF Extract!Fetches
<1>5. ImportKept'
  BY <1>1, <1>2, <1>3, <1>4 DEF ImportKept, Writes
<1> QED BY <1>1, <1>2, <1>3, <1>4, <1>5, HandedTyped, ImportsOn

LEMMA ImportRebuildKeeps ==
  ASSUME ExtractInv, Extract!ImportRebuild
  PROVE  ExtractInv'
<1> USE DEF ExtractInv
<1> DEFINE d == importing.day
<1>1. /\ importing.at = "rebuild"
      /\ campaigns' = IF campaigns[d] = 0 THEN [campaigns EXCEPT ![d] = ads[d]] ELSE campaigns
      /\ importing' = Extract!NotImporting /\ unsettled' = unsettled \ importing.clean
      /\ UNCHANGED <<jobs, made, making, unsent, queue, sent, dropped, work, ads, raw,
                     requests, fetches, faults>>
  BY DEF Extract!ImportRebuild, Extract!Imported, Extract!jobVars, Extract!queueVars
<1>2. ImportKept /\ d \in Extract!Days /\ d \in unsettled
  BY <1>1, HandedTyped DEF Written, ImportKept, Extract!ImportState
<1>3. /\ campaigns' \in [Extract!Days -> Extract!Fetches]
      /\ campaigns[d] = 0 => campaigns'[d] = ads[d]
      /\ \A e \in Extract!Days \ {d} : campaigns'[e] = campaigns[e]
  BY <1>1, <1>2, HandedTyped
<1>4. d \notin unsettled' => campaigns'[d] = ads'[d]
  <2>1. d \notin unsettled' => importing.clean # {}
    BY <1>1, <1>2
  <2> QED BY <1>1, <1>2, <1>3, <2>1 DEF ImportKept
<1> QED BY <1>1, <1>3, <1>4, IdleImport, IdleImportKept, HandedTyped, ImportsOn

LEMMA ImportDiesKeeps ==
  ASSUME ExtractInv, Extract!ImportDies
  PROVE  ExtractInv'
<1> USE DEF ExtractInv
<1>1. /\ importing.at # "idle" /\ importing' = Extract!NotImporting /\ faults' \in 0..MaxFaults
      /\ UNCHANGED <<jobs, made, making, unsent, queue, sent, dropped, work, campaigns, ads, raw,
                     unsettled, requests, fetches>>
  BY FaultTyped DEF Extract!ImportDies, Extract!jobVars, Extract!queueVars, Extract!rowVars
<1>2. importing.day \in unsettled
  BY <1>1 DEF Written, ImportKept
<1> QED BY <1>1, <1>2, IdleImport, IdleImportKept, HandedTyped, ImportsOn

-----------------------------------------------------------------------------
(* Every behaviour *)

LEMMA ExtractInit ==
  ASSUME Extract!Init
  PROVE  ExtractInv
<1>1. Extract!TypeOK
  <2>1. /\ Extract!NoJob \in Extract!JobState /\ Extract!NoMessage \in Extract!MessageState
        /\ Extract!NotMaking \in Extract!MakerState
        /\ Extract!NoMessage.free = FALSE
    BY ExtractConstants DEF Extract!NoJob, Extract!JobState, Extract!NoMessage,
       Extract!MessageState, Extract!NotMaking, Extract!MakerState, Extract!Status
  <2>2. \A j \in Extract!JobIds : (jobs[j] = Extract!NoJob) = (j > made)
    BY ExtractConstants DEF Extract!Init, Extract!JobIds
  <2>3. /\ \A k \in Extract!Messages : ~queue[k].free
        /\ jobs \in [Extract!JobIds -> Extract!JobState] /\ made \in 0..MaxJobs
        /\ making \in [Makers -> Extract!MakerState]
        /\ queue \in [Extract!Messages -> Extract!MessageState]
        /\ work \in [Workers -> Extract!WorkerState] /\ sent \in 0..MaxMessages
        /\ importing \in Extract!ImportState
    BY <2>1, IdleWorker, IdleImport, ExtractConstants DEF Extract!Init
  <2>4. /\ campaigns \in [Extract!Days -> Extract!Fetches]
        /\ ads \in [Extract!Days -> Extract!Fetches] /\ raw = {} /\ unsettled = {}
        /\ unsent = {} /\ dropped = {}
        /\ requests \in 0..MaxRequests /\ faults \in 0..MaxFaults /\ fetches \in Extract!Fetches
    BY ExtractConstants DEF Extract!Init, Extract!Fetches
  <2> QED BY <2>2, <2>3, <2>4 DEF Extract!TypeOK
<1>2. /\ \A w \in Workers : work[w].at = "idle" /\ work[w].message = 0 /\ Writes(w) = {}
      /\ \A m \in Makers : making[m].at = "idle"
      /\ \A k \in Extract!Messages : queue[k].job = 0 /\ ~queue[k].free
      /\ made = 0 /\ importing.at = "idle" /\ importing.clean = {}
  BY IdleWorker, IdleImport DEF Extract!Init, Extract!NotMaking, Extract!NoMessage, Writes
<1>3. JobsKnown /\ MessagesApart
  BY <1>2 DEF JobsKnown, MessagesApart
<1>4. Written
  <2>1. \A w \in Workers : WriterKept(w)
    BY <1>2 DEF WriterKept, Writes
  <2>2. ImportKept
    BY <1>2 DEF ImportKept
  <2>3. DayIsOneFetchUnlessCut
    BY DEF Extract!Init, DayIsOneFetchUnlessCut, Extract!DayIsOneFetchUnlessCut
  <2> QED BY <2>1, <2>2, <2>3 DEF Written
<1> QED BY <1>1, <1>3, <1>4 DEF ExtractInv, Handed

LEMMA ProgressKeeps ==
  ASSUME ExtractInv, NEW w \in Workers, Extract!Progress(w)
  PROVE  ExtractInv'
<1>1. ASSUME NEW k \in Extract!Messages, Extract!TakeMessage(w, k) PROVE ExtractInv'
  BY <1>1, TakeMessageKeeps
<1>2. CASE Extract!DeleteCampaignRows(w)
  BY <1>2, DeleteCampaignRowsKeeps
<1>3. CASE Extract!DeleteAdRows(w)
  BY <1>3, DeleteAdRowsKeeps
<1>4. CASE Extract!StoreRaw(w)
  BY <1>4, StoreRawKeeps
<1>5. ASSUME NEW d \in Extract!Days, Extract!InsertCampaign(w, d) \/ Extract!InsertAd(w, d)
      PROVE  ExtractInv'
  BY <1>5, InsertCampaignKeeps, InsertAdKeeps
<1>6. CASE Extract!ExtractFails(w)
  BY <1>6, ExtractFailsKeeps
<1>7. CASE Extract!CompleteJob(w)
  BY <1>7, CompleteJobKeeps
<1>8. CASE Extract!FailJob(w)
  BY <1>8, FailJobKeeps
<1> QED BY <1>1, <1>2, <1>3, <1>4, <1>5, <1>6, <1>7, <1>8 DEF Extract!Progress

LEMMA ExtractNext ==
  ASSUME ExtractInv, Extract!Next
  PROVE  ExtractInv'
<1>1. ASSUME NEW m \in Makers, NEW d \in Extract!Days, NEW q \in BOOLEAN,
             Extract!CreateDailyJob(m, d, q)
      PROVE  ExtractInv'
  BY <1>1, LookKeeps DEF Extract!CreateDailyJob
<1>2. ASSUME NEW m \in Makers, NEW D \in SUBSET Extract!Days, NEW q \in BOOLEAN,
             Extract!CreateManualJob(m, D, q)
      PROVE  ExtractInv'
  BY <1>2, LookKeeps DEF Extract!CreateManualJob
<1>3. ASSUME NEW m \in Makers, Extract!ScheduleHourlyTodayJob(m)
      PROVE  ExtractInv'
  <2>1. {Today} \in SUBSET Extract!Days
    BY DEF Extract!Days
  <2> QED BY <1>3, <2>1, LookKeeps DEF Extract!ScheduleHourlyTodayJob
<1>4. ASSUME NEW m \in Makers, Extract!Making(m)
      PROVE  ExtractInv'
  BY <1>4, SaveJobKeeps, PublishJobKeeps, PublishFailsKeeps, ProcessMadeKeeps DEF Extract!Making
<1>5. ASSUME NEW j \in Extract!JobIds,
             Extract!EnqueueJob(j) \/ \E w \in Workers : Extract!ProcessAsked(w, j)
      PROVE  ExtractInv'
  BY <1>5, EnqueueJobKeeps, ProcessAskedKeeps
<1>6. ASSUME NEW w \in Workers,
             Extract!Progress(w) \/ Extract!LockLapses(w) \/ Extract!WorkerDies(w)
      PROVE  ExtractInv'
  BY <1>6, ProgressKeeps, LockLapsesKeeps, WorkerDiesKeeps
<1>7. ASSUME NEW d \in Extract!Days, Extract!ImportBegin(d)
      PROVE  ExtractInv'
  BY <1>7, ImportBeginKeeps
<1>8. CASE Extract!ImportAd \/ Extract!ImportDelete \/ Extract!ImportRebuild \/ Extract!ImportDies
  BY <1>8, ImportAdKeeps, ImportDeleteKeeps, ImportRebuildKeeps, ImportDiesKeeps
<1> QED BY <1>1, <1>2, <1>3, <1>4, <1>5, <1>6, <1>7, <1>8 DEF Extract!Next

LEMMA ExtractStutters ==
  ASSUME ExtractInv, UNCHANGED extractVars
  PROVE  ExtractInv'
<1> USE DEF ExtractInv, extractVars
<1>1. Handed'
  BY DEF Handed, Extract!TypeOK, JobsKnown, MessagesApart
<1>2. Written'
  BY WrittenSame DEF DaysKept
<1> QED BY <1>1, <1>2

THEOREM ExtractInvariant == Spec => []ExtractInv
<1>1. Init => ExtractInv
  BY ExtractInit DEF Init
<1>2. ExtractInv /\ [Next]_vars => ExtractInv'
  BY ExtractNext, ExtractStutters DEF Next, Reporting, Extracting, vars, extractVars
<1> QED BY <1>1, <1>2, PTL DEF Spec

\* Rows, copies, jobs and messages keep their types, and a message that is free
\* is in no worker's hands, however often the queue hands it out again.
THEOREM TypesKept == Spec => []TypeOK
<1> DEFINE PartChosen == part \in {"bulk", "extract"}
<1>1. Init => PartChosen
  BY DEF Init
<1>2. PartChosen /\ [Next]_vars => PartChosen'
  BY DEF Next, Reporting, Extracting, vars
<1>3. BulkInv /\ ExtractInv /\ PartChosen => TypeOK
  BY DEF BulkInv, ExtractInv, Handed, TypeOK
<1> HIDE DEF PartChosen
<1> QED BY <1>1, <1>2, <1>3, BulkInvariant, ExtractInvariant, PTL DEF Spec

\* The campaign rows and the ad rows of a day agree unless the day is being
\* rewritten or was left so by two writers at a time or by one that was cut off:
\* a job alone at its days writes both tables from its one fetch, although every
\* statement of processJob and of the import commits by itself.
THEOREM DaysAgree == Spec => []DayIsOneFetchUnlessCut
<1>1. ExtractInv => DayIsOneFetchUnlessCut
  BY DEF ExtractInv, Written
<1> QED BY <1>1, ExtractInvariant, PTL

====
