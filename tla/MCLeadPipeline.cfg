\* Two submissions of one lead, a score of the first and one that is not sent,
\* two handlers of scores.  The queues run empty, so the system may stop.
SPECIFICATION PipelineSpec
CONSTANTS
  r1 = r1
  r2 = r2
  w1 = w1
  s1 = s1
  s2 = s2
  x1 = x1
  x2 = x2
  f1 = f1
  NoRequest = NoRequest
  NoRow = NoRow
  NoMessage = NoMessage
  NoForm = NoForm
  Requests <- MCRequests
  Leads <- MCLeads
  LeadOf <- MCSameLead
  Consumers <- MCConsumers
  MaxDeliveries = 1
  MaxFaults = 0
  Scores <- MCTwoScores
  RegistrationOf <- MCTwoRegistrationOf
  Offline <- MCUnsent
  Forms <- MCForms
  FormOf <- MCTwoFormOf
  Scorers <- MCTwoScorers
  RetryMax = 1
  MaxTries = 2
  MaxCopies = 2
  MaxLapses = 1
CHECK_DEADLOCK FALSE
SYMMETRY MCSymmetry
INVARIANTS
  ScoreNotDropped
  OneResultUnlessOverlapped
  CompletedIsResolved
