SPECIFICATION MCSpec
CONSTANTS
  Trainer = {t1, t2}
  Caller = {h1}
  Account = {a1}
  ProxyId = {p1}
  NoTrainer = NoTrainer
  NoRecord = NoRecord
  NoAccount = NoAccount
  NoProxy = NoProxy
SYMMETRY Symmetry
INVARIANTS
  DeadStaysDead
