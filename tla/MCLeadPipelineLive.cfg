\* Submissions of two leads, two scores of the first, one handler of scores that
\* may lose a lock: every score ends, on its own lead.
\* The queues run empty, so the system may stop.
SPECIFICATION PipelineFairSpec
CONSTANTS
  r1 = r1
  r2 = r2
  w1 = w1
  s1 = s1
  s2 = s2
  x1 = x1
  x2 = x2
  f1 = f1
  NoRequest = NoRequest
  NoRow = NoRow
  NoMessage = NoMessage
  NoForm = NoForm
  Requests <- MCRequests
  Leads <- MCLeads
  LeadOf <- MCTwoLeads
  Consumers <- MCConsumers
  MaxDeliveries = 1
  MaxFaults = 0
  Scores <- MCTwoScores
  RegistrationOf <- MCTwoRegistrationOf
  Offline = {}
  Forms <- MCForms
  FormOf <- MCTwoFormOf
  Scorers <- MCOneScorer
  RetryMax = 1
  MaxTries = 1
  MaxCopies = 1
  MaxLapses = 0
CHECK_DEADLOCK FALSE
INVARIANTS
  CaptureKeepsLead
  ResultOnOwnLead
PROPERTIES
  EveryScoreEnds
