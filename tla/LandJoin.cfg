SPECIFICATION Spec
CONSTANTS
  Requests = {r1, r2, r3}
  Keys = {k1, k2}
  Heads = {h1, h2}
  None = None
  Other = Other
  MaxCrashes = 1
INVARIANTS
  TypeOK
  AnswersTruthful
  MainCountsMoves
  AuditNeverFabricated
  NoOrphanEntry
PROPERTIES
  ImplementsSettleOnce
SYMMETRY Symmetry
