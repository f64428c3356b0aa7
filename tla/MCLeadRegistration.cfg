\* Two requests of one lead, two handlers, every branch failing and retried.
\* The queue runs empty, so the system may stop.
SPECIFICATION Spec
CONSTANTS
  r1 = r1
  r2 = r2
  w1 = w1
  w2 = w2
  NoRequest = NoRequest
  NoRow = NoRow
  Requests <- MCRequests
  Leads <- MCLeads
  LeadOf <- MCLeadOf
  Consumers <- MCTwoConsumers
  MaxDeliveries = 2
  MaxFaults = 1
CHECK_DEADLOCK FALSE
SYMMETRY MCSymmetry
INVARIANTS
  CompletedIsSynced
  DuplicateOnlyIfDisplaced
  LocatedUnlessCrowded
PROPERTIES
  NoDuplicateInWindow
