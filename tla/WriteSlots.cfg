SPECIFICATION FairSpec
CONSTANTS
  Writers = {w1, w2}
  Admins = {a1}
  Sweepers = {g1, g2}
  Repos = {1, 2}
  Cat = Cat
  None = None
  MaxPanics = 1
INVARIANTS
  TypeOK
  BatchAlone
  OneWriterPerRepo
PROPERTIES
  FlagLowered
