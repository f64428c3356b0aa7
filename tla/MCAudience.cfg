SPECIFICATION Spec
CONSTANTS
  a1 = a1
  a2 = a2
  Absent = Absent
  Clients = {a1, a2}
  Scorers = {w1}
  EditedForms = {f1, f2, f3}
  MaxChildren = 7
  Values = {1, 2}
  Options <- MCOptions
  Ranges <- MCRanges
  Tiers <- MCTiers
  Forms = {f1, f2}
  MaxPlace = 2
  MaxItems = 5
  Campaigns = {c1, c2}
  Categories = {k1, k2}
  Candidates = {n1, n2}
  Emails = {e1, e2}
  Phones = {p1, p2}
  Times = {1, 2}
  MaxVoters = 2
  Launches = {l1, l2}
  Seasons = {s1}
  MaxPages = 2
  MaxNumber = 3
  MaxCapture = 3
  PerMilli = 2
  MaxTick = 4
  MaxLimit = 2
  MaxGiven = 2
  MaxReported = 2
  Keys = {1, 2}
  QuizForms = {f1, f2}
  BatchSize = 1
  MaxResponses = 2
  MaxNews = 2
  MaxRequests = 2
  MoreRequests = 3
SYMMETRY MCSymmetry
INVARIANTS
  TypeOK
  OneUnlessCrowded
  ScoreByOneCard
  ConsistentUnlessRaced
  ReadersMissNothing
PROPERTY ActiveLostOnlyOnRequest
CHECK_DEADLOCK FALSE
