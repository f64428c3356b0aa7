\* Two handlers, nothing fails: the attachment of one rewrites the metadata the
\* other has just merged.
SPECIFICATION Spec
CONSTANTS
  r1 = r1
  r2 = r2
  w1 = w1
  w2 = w2
  NoRequest = NoRequest
  NoRow = NoRow
  Requests <- MCRequests
  Leads <- MCLeads
  LeadOf <- MCLeadOf
  Consumers <- MCTwoConsumers
  MaxDeliveries = 1
  MaxFaults = 0
CHECK_DEADLOCK FALSE
INVARIANTS
  RequestIdLocatesCapture
