--------------------------- MODULE ExportLifecycle ---------------------------
(***************************************************************************)
(* What the capture export promises to the client that polls a job,        *)
(* whatever happens to the workers behind it: a job is requested once, is  *)
(* begun at most MaxAttempts times, and ends once, either with the file of *)
(* its latest attempt or as a failure.  ExportJob implements this.         *)
(***************************************************************************)
EXTENDS Integers

CONSTANTS Jobs,          \* identities of the export jobs
          MaxAttempts    \* how many times one job may be begun

VARIABLES state,         \* state[j]: what GET /capture/export/jobs/:id reports
          begun,         \* begun[j]: attempts begun so far
          result         \* result[j]: the attempt whose file is served, or 0

vars == <<state, begun, result>>

Init ==
  /\ state = [j \in Jobs |-> "none"]
  /\ begun = [j \in Jobs |-> 0]
  /\ result = [j \in Jobs |-> 0]

Request(j) ==
  /\ state[j] = "none"
  /\ state' = [state EXCEPT ![j] = "pending"]
  /\ UNCHANGED <<begun, result>>

Begin(j) ==
  /\ state[j] \in {"pending", "processing"}
  /\ begun[j] < MaxAttempts
  /\ state' = [state EXCEPT ![j] = "processing"]
  /\ begun' = [begun EXCEPT ![j] = @ + 1]
  /\ UNCHANGED result

Deliver(j) ==
  /\ state[j] = "processing"
  /\ state' = [state EXCEPT ![j] = "completed"]
  /\ result' = [result EXCEPT ![j] = begun[j]]
  /\ UNCHANGED begun

GiveUp(j) ==
  /\ state[j] = "processing"
  /\ state' = [state EXCEPT ![j] = "failed"]
  /\ UNCHANGED <<begun, result>>

Next == \E j \in Jobs : Request(j) \/ Begin(j) \/ Deliver(j) \/ GiveUp(j)

Spec == Init /\ [][Next]_vars
==============================================================================
