SPECIFICATION MCSpec
CONSTANTS
  Trainer = {t1, t2}
  Caller = {h1, h2}
  Account = {a1, a2}
  ProxyId = {p1, p2}
  NoTrainer = NoTrainer
  NoRecord = NoRecord
  NoAccount = NoAccount
  NoProxy = NoProxy
SYMMETRY Symmetry
INVARIANTS
  STypeOK
  NoAccountLeak
  StatusHasTrainer
