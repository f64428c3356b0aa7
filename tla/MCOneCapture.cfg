\* One handler, no lost lock: a failed request is retried after a later request of
\* its lead took its capture over and the dedupe window closed.
SPECIFICATION Spec
CONSTANTS
  r1 = r1
  r2 = r2
  w1 = w1
  w2 = w2
  NoRequest = NoRequest
  NoRow = NoRow
  Requests <- MCRequests
  Leads <- MCLeads
  LeadOf <- MCLeadOf
  Consumers <- MCOneConsumer
  MaxDeliveries = 2
  MaxFaults = 0
CHECK_DEADLOCK FALSE
INVARIANTS
  OneCapturePerRequest
