SPECIFICATION CalmFairSpec
CONSTANTS
  Client = {c1, c2}
  Request = {r1, r2}
  ProxyId = {1, 2}
  NoClient = NoClient
  NoRecord = NoRecord
CHECK_DEADLOCK FALSE
INVARIANTS
  UniqueIds
  ListenersKnown
  NoDoubles
PROPERTIES
  ImplementsLinks
  OwnAnswer
  WaitersServed
  LostProxyMarked
