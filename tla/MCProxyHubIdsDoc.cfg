SPECIFICATION Spec
CONSTANTS
  Client = {c1, c2}
  Request = {r1}
  ProxyId = {1, 2}
  NoClient = NoClient
  NoRecord = NoRecord
SYMMETRY Symmetry
CHECK_DEADLOCK FALSE
INVARIANTS
  UniqueIds
