SPECIFICATION Spec
CONSTANTS
  b1 = b1
  b2 = b2
  c1 = c1
  c2 = c2
  Blobs = {b1, b2}
  Changesets = {c1, c2}
  None = None
  Parent <- ChainParent
  Changes <- ChainChanges
  Tree <- ChainTree
  MaxUploads = 1
  MaxCreates = 1
INVARIANTS
  TypeOK
  NeverDangling
  UploadsKept
  LostBytesCondemned
PROPERTIES
  ReachableKept
