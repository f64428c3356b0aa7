\* Two purchases of one buyer, webhooks and pages in any order, two processors
\* of the queue.  Everything received is done in the end, so the system may stop.
SPECIFICATION Spec
CONSTANTS
  t1 = t1
  t2 = t2
  w1 = w1
  w2 = w2
  p1 = p1
  p2 = p2
  NoSale = NoSale
  Sales <- MCSales
  Buyers <- MCBuyers
  BuyerOf <- MCBuyerOf
  LastVersion <- MCLastVersion
  Statuses <- MCStatuses
  StatusOf <- MCStatusOf
  Receivers <- MCReceivers
  Processors <- MCProcessors
  Modes <- MCModes
  MaxRequests = 2
  MaxFaults = 2
CHECK_DEADLOCK FALSE
SYMMETRY MCSymmetry
INVARIANTS
  RawShowsNewest
  ProcessedShowsRaw
  OnePersonPerBuyer
  NoRowForgotten
