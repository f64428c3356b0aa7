------------------------------ MODULE Marketing ------------------------------
(***************************************************************************)
(* The two parts of the application that bring figures of advertising in,  *)
(* and must get it done: the bulk reports of Meta and the extraction of    *)
(* daily figures.  They share no table, so that a behaviour is one of a    *)
(* part chosen in the beginning, with the other as it began: interleaving  *)
(* them would say nothing more.                                            *)
(***************************************************************************)
EXTENDS Integers, FiniteSets

CONSTANTS
  Replicas, Execs, Jobs, MaxRejects, MaxCrashes, MaxAborts, NoExec, NoPoll, NoAbort,
  Yesterday, Today, Makers, Workers, MaxJobs, MaxMessages, Deliveries, MaxFaults, MaxRequests

VARIABLES
  part,            \* the part that runs
  \* MetaBulkJobs
  exec, starter, remote, stored, poll, abortRequests, aborting, asked, contended,
  rejects, crashes, aborts,
  \* MarketingExtract
  jobs, made, making, unsent, queue, sent, dropped, work, campaigns, ads, raw, importing,
  unsettled, requests, fetches, faults

bulkVars == <<exec, starter, remote, stored, poll, abortRequests, aborting, asked, contended,
              rejects, crashes, aborts>>
extractVars == <<jobs, made, making, unsent, queue, sent, dropped, work, campaigns, ads, raw,
                 importing, unsettled, requests, fetches, faults>>
vars == <<part, bulkVars, extractVars>>

Bulk == INSTANCE MetaBulkJobs
Extract == INSTANCE MarketingExtract

ASSUME MarketingConstants ==
  /\ IsFiniteSet(Jobs) /\ Replicas # {}
  /\ NoExec \notin Bulk!Row /\ NoPoll \notin Bulk!Poll
  /\ NoAbort \notin [row : Bulk!Row, replica : Replicas]
  /\ {MaxRejects, MaxCrashes, MaxAborts} \subseteq Nat
  /\ {MaxJobs, MaxMessages, MaxFaults, MaxRequests} \subseteq Nat
  /\ Deliveries \in Nat \ {0}

TypeOK == part \in {"bulk", "extract"} /\ Bulk!TypeOK /\ Extract!TypeOK

Init == part \in {"bulk", "extract"} /\ Bulk!Init /\ Extract!Init

-----------------------------------------------------------------------------
Reporting(A) == part = "bulk" /\ A /\ UNCHANGED <<part, extractVars>>
Extracting(A) == part = "extract" /\ A /\ UNCHANGED <<part, bulkVars>>

Next == Reporting(Bulk!Next) \/ Extracting(Extract!Next)

\* That of the parts.
Fairness ==
  /\ \A e \in Execs :
       /\ WF_vars(Reporting(Bulk!Starts(e)))
       /\ WF_vars(Reporting(Bulk!Meta(e)))
       /\ WF_vars(Reporting(Bulk!AbortSave(e)))
       /\ \A r \in Replicas : WF_vars(Reporting(Bulk!Poller(r, e)))
  /\ \A m \in Makers : WF_vars(Extracting(Extract!Making(m)))
  /\ \A w \in Workers : WF_vars(Extracting(Extract!Progress(w)))

Spec == Init /\ [][Next]_vars /\ Fairness

-----------------------------------------------------------------------------
(* Properties, of the parts *)

\* What the row of a bulk execution shows accounts for all its report jobs.
CountsAddUp == Bulk!CountsAddUp

\* The row of an execution only advances, unless two hold it at a time.
AdvancesUnlessContended == Bulk!AdvancesUnlessContended

\* An execution ends for good, unless its process died before it had started it.
EndsUnlessOrphaned == Bulk!EndsUnlessOrphaned

\* The two tables of figures agree about a day, from one fetch, unless it is
\* being rewritten or was left so.
DayIsOneFetchUnlessCut == Extract!DayIsOneFetchUnlessCut

\* A published extraction job ends, unless its message was given up.
EndsUnlessUnsent == Extract!EndsUnlessUnsent

=============================================================================
