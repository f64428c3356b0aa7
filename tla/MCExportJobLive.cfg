\* Two jobs, one handler, a recovery pass of one row: every export ends.
SPECIFICATION FairSpec
CONSTANTS
  h1 = h1
  h2 = h2
  NJobs = 2
  Handlers <- MCOneHandler
  MaxAttempts = 2
  PendingAfter = 1
  StaleAfter = 2
  RecoverLimit = 1
  MaxQueued = 1
  MaxFaults = 1
PROPERTIES
  EveryExportSettles
