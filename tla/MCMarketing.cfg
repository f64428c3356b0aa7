SPECIFICATION Spec
CONSTANTS
  NoExec = NoExec
  NoPoll = NoPoll
  NoAbort = NoAbort
  Replicas = {r1, r2}
  Execs = {e1}
  Jobs = {j1, j2}
  MaxRejects = 1
  MaxCrashes = 1
  MaxAborts = 1
  Yesterday = "yesterday"
  Today = "today"
  Makers = {m1}
  Workers = {w1, w2}
  MaxJobs = 2
  MaxMessages = 2
  Deliveries = 2
  MaxFaults = 1
  MaxRequests = 2
INVARIANTS
  TypeOK
  CountsAddUp
  DayIsOneFetchUnlessCut
PROPERTIES
  AdvancesUnlessContended
  EndsUnlessOrphaned
  EndsUnlessUnsent
CHECK_DEADLOCK FALSE
