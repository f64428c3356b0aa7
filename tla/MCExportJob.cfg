\* One job, two handlers: the lease protocol under takeover, duplicate
\* deliveries, crashes and recovery passes that read old rows.
SPECIFICATION Spec
CONSTANTS
  h1 = h1
  h2 = h2
  NJobs = 1
  Handlers <- MCHandlers
  MaxAttempts = 2
  PendingAfter = 1
  StaleAfter = 2
  RecoverLimit = 1
  MaxQueued = 2
  MaxFaults = 2
SYMMETRY MCSymmetry
INVARIANTS
  TypeOK
  CompletedFileOwned
PROPERTIES
  LiveAttemptKeepsJob
  JobOnlyAdvances
  FailedForCause
  ImplementsLifecycle
