SPECIFICATION ProgressSpec
CONSTANTS
  Parts = {"paging"}
  Changesets = {1, 2, 3, 4}
  Parent <- BranchedParent
  BatchRows = 2
  MaxCrashes = 1
  None = None
  Other = Other
  r1 = r1
  r2 = r2
  h1 = h1
  ra = ra
  ca = ca
  cb = cb
  x = x
  y = y
PROPERTY GarbageCollected
CHECK_DEADLOCK FALSE
