SPECIFICATION CarefulSpec
CONSTANTS
  ObjectId = {i1}
  Key = {k1}
  Source = {k1, Nobody}
  Nobody = Nobody
  NoObject = NoObject
  NoKey = NoKey
  NoMetrics = NoMetrics
  Request = {r1, r2}
  Window = 1
  MaxTime = 2
  MaxCount = 1
SYMMETRY Symmetry
INVARIANTS
  ATypeOK
  SubmittedSoonGone
  CreditedWereEnabled
  CountsExact
PROPERTIES
  EncountersStand
  FortsStay
  AnswersAgree
