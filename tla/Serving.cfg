SPECIFICATION Spec
CONSTANTS
  None = None
  Requests = {r1, r2}
  x = x
  t1 = t1
  t2 = t2
  ra = ra
  rb = rb
  ca = ca
  cb = cb
  cc = cc
  root = root
  user = user
  tok0 = tok0
  tok1 = tok1
  tok2 = tok2
  Parts = {"cache", "tickets", "access", "failures", "redaction", "snapshots", "queue", "history"}
  Snaps = {s1, s2}
  Ttls = {1}
  SnapClock = 2
  Repos <- TwoRepos
  Blobs <- OneBlob
  Trees <- TwoTrees
  Changesets <- TwoChangesets
  In <- FirstHasIt
  MaxEntries = 1
  Keys = {ca, cb}
  Cap = 2
  IatSkew = 1
  MaxSkew = 2
  MaxNow = 4
  Names = {root, user}
  Tokens = {tok0, tok1, tok2}
  Root = root
  RootToken = tok0
  MaxAudit = 2
  Credentials = {ca, cb}
  Window = 2
  PerKeyLimit = 2
  GlobalRowCap = 3
  FailClock = 3
  MaxRows = 5
  RedChangesets <- ThreeChangesets
  Owner <- TwoInFirst
  RedParent <- ThirdBelowFirst
  Changes <- TwoName
  Refs <- AllHold
  BatchBlobs = 1
  MaxMarks = 2
  MaxCrashes = 1
  SnapRepos <- OneRepo
  Principals = {user}
  Passes = {"pass"}
  DefaultTtl = 1
  Children <- SecondBelow
  Files <- SecondHasIt
  Kept = {}
  FileOf <- OneFile
  Parents <- ChildOfFirst
  Generation <- ByParents
  MaxAttempts = 2
  MaxFaults = 2
  MaxQueueMarks = 1
  MaxNodes <- HistNodes
  Branching <- HistBranching
  Contents <- HistContents
  Limit = 1
  MaxTombs <- HistMarks
  MaxFailures = 1
  MaxVersion = 3
  Eagers = {TRUE, FALSE}
  Foci = {"graph", "blame", "paths", "log", "ref"}
INVARIANTS
  TypeOK
  TierHonest
  TicketsHonest
  ErasureReachesTheLog
  FloodBounded
  PurgeSound
  LiveTreesServe
  QueueSound
  HistoryExact
PROPERTIES
  RequestsGated
  TombstonedGainsNothing
  RefAdvances
SYMMETRY Symmetry
CHECK_DEADLOCK FALSE
