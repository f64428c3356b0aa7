---------------------------- MODULE LeadPipeline ----------------------------
(***************************************************************************)
(* Registration and scoring at work on the same captures: a score arrives  *)
(* while its registration is waiting, half done, retried or merged into    *)
(* the capture of another request.                                         *)
(***************************************************************************)
EXTENDS LeadRegistration

CONSTANTS
  Scores, RegistrationOf, Offline, Forms, FormOf, Scorers, RetryMax, MaxTries,
  MaxCopies, MaxLapses, NoMessage, NoForm

ASSUME ScoresNameRegistrations == RegistrationOf \in [Scores -> Requests]

VARIABLES
  form, results, accepted, waiting, dead, at, msg, locked, target, row, rowForm,
  overlapped, lapses,
  \* leads on which a registration and a score were handled at once
  mixed

\* Every delivery of a registration inserts at most one capture.
Scoring == INSTANCE LeadScoring WITH
  MaxCaptures <- Cardinality(Requests) * MaxDeliveries, NoSnapshot <- NoRow

ASSUME PipelineConstants == Scoring!ScoringConstants

scoreVars == <<form, results, accepted, waiting, dead, at, msg, locked, target, row,
               rowForm, overlapped, lapses>>

pipelineVars == <<vars, scoreVars, mixed>>

PipelineInit == Init /\ Scoring!Init /\ mixed = {}

ScoredLead(w) == LeadOf[RegistrationOf[Scoring!ScoreOf(w)]]

\* The leads under registration while a handler holds a capture of theirs read
\* for scoring.
Mixed ==
  {ScoredLead(w) : w \in {x \in Scorers : at[x] = "commit"
     /\ \E v \in Consumers : Busy(v) /\ LeadOf[request[v]] = ScoredLead(x)}}

\* A step of one of the two components; the other only shares the captures.
ByRegistration(A) ==
  A /\ UNCHANGED scoreVars /\ mixed' = mixed \cup Mixed'

ByScoring(A) ==
  /\ A
  /\ UNCHANGED <<recent, inserter, busVars, contacts, handlerVars, pastVars>>
  /\ mixed' = mixed \cup Mixed'

PipelineNext == ByRegistration(Next) \/ ByScoring(Scoring!Next)

PipelineSpec == PipelineInit /\ [][PipelineNext]_pipelineVars

\* The broker delivers and the handlers of scores run to an end; nothing is
\* asked of the registrations.
DeliverScore(s) ==
  \E w \in Scorers, m \in Scoring!Message : m.score = s /\ Scoring!Deliver(w, m)

PipelineFairSpec ==
  /\ PipelineSpec
  /\ \A s \in Scores : SF_pipelineVars(ByScoring(DeliverScore(s)))
  /\ \A w \in Scorers : WF_pipelineVars(ByScoring(Scoring!Handle(w)))

-----------------------------------------------------------------------------
(* Properties *)

\* No accepted score that is sent is dropped (see LeadScoring).
ScoreNotDropped == Scoring!ScoreNotDropped

\* A request is scored once unless two handlers held it (see LeadScoring).
OneResultUnlessOverlapped == Scoring!OneResultUnlessOverlapped

\* A result is attributed to the lead that registered, whatever was merged,
\* retried or rewritten from old snapshots in between.
ResultOnOwnLead ==
  \A i \in DOMAIN results :
    LeadOf[RegistrationOf[results[i].score]] = captures[results[i].capture].lead

\* Once a registration is completed, its scores find their capture at the
\* first attempt, unless handlers of the same lead overlapped.
CompletedIsResolved ==
  \A r \in Requests :
    Completed(r) /\ LeadOf[r] \notin crowded \cup mixed => Scoring!Resolve(r) # 0

\* Every accepted score that is sent ends (see LeadScoring).
EveryScoreEnds == Scoring!EveryScoreEnds
=============================================================================
