SPECIFICATION MCFairSpec
CONSTANTS
  t1 = t1
  t2 = t2
  t3 = t3
  Trainer = {t1, t2, t3}
  Caller = {c1, c2}
  NoTrainer = NoTrainer
INVARIANTS
  QTypeOK
  OneUser
  OnlyUsableQueued
PROPERTIES
  NothingLost
  ImplementsPool
  BackInBuffer
  NoStarvation
