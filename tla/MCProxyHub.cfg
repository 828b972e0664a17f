SPECIFICATION Spec
CONSTANTS
  Client = {c1, c2}
  Request = {r1, r2}
  ProxyId = {1, 2}
  NoClient = NoClient
  NoRecord = NoRecord
SYMMETRY Symmetry
CHECK_DEADLOCK FALSE
INVARIANTS
  HTypeOK
  LeftIsForgotten
  RecordFollowsClient
  AnswerForEach
