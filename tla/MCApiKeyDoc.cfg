SPECIFICATION ASpec
CONSTANTS
  ObjectId = {i1}
  Key = {k1, k2}
  Source = {k1, k2, Nobody}
  Nobody = Nobody
  NoObject = NoObject
  NoKey = NoKey
  NoMetrics = NoMetrics
  Request = {r1, r2}
  Window = 1
  MaxTime = 2
  MaxCount = 1
SYMMETRY Symmetry
INVARIANTS
  EnabledKeysFound
