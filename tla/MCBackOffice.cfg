SPECIFICATION Spec
CONSTANTS
  a1 = a1
  a2 = a2
  m1 = m1
  m2 = m2
  ad1 = ad1
  ad2 = ad2
  Absent = Absent
  Clients = {a1, a2}
  MaxFaults = 1
  Schedules = {t1, t2}
  Runners = {a1, a2}
  MaxMinute = 1
  MaxDay = 2
  Users = {u1, u2}
  Roles = {role1}
  SuperAdmin = SuperAdmin
  MaxPassword = 3
  MaxTokens = 4
  MaxResets = 2
  Permissions = {y1, y2}
  MaxRoles = 3
  Database = Database
  Limit = 1
  Ttl = 2
  MaxTime = 3
  MaxChecks = 3
  Owners = {u1}
  Nobody = Nobody
  Accounts = {y1, y2}
  MaxConnections = 2
  MaxRows = 3
  Syncs = {a1, a2}
  MaxAccount = 2
  Holds <- Holding
  PageSize = 1
  SmallPage = 0
  MaxVersion = 2
  MaxExecutions = 2
  Ads = {ad1, ad2}
  LastDay = 2
  Arrivals <- Arriving
  Inquiries <- Asking
  Editors = {a1, a2}
  MaxTaken = 2
  MaxSales = 1
  MaxListed = 2
  Emails = {e1, e2}
  LeadPhones = {p1}
  Cpfs = {x1}
  MaxLeads = 3
  Tags = {tag1, tag2}
  Known = {tag1}
  MaxContacts = 2
  MaxSubmissions = 2
  Signals = {g1, g2}
  Scans = {a1, a2}
  MaxScans = 3
  MaxChanges = 2
  Conversations = {c1}
  MaxRounds = 1
  MaxRequests = 2
  MoreRequests = 3
SYMMETRY MCSymmetry
INVARIANTS
  TypeOK
  OnceUnlessHeld
  AccountsHoldUnlessRaced
  OnePersonUnlessShared
  FiguresKeptUnlessOverlapped
  AnswersAgreeUnlessChanged
  CopilotSeesAllUnlessMixed
CHECK_DEADLOCK FALSE
