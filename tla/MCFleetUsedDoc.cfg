SPECIFICATION SteadySpec
CONSTANTS
  Trainer = {t1, t2}
  Caller = {h1}
  Account = {a1}
  ProxyId = {1, 2}
  MaxSessions = 1
  NoTrainer = NoTrainer
  NoRecord = NoRecord
  NoAccount = NoAccount
  NoProxy = NoProxy
SYMMETRY Symmetry
INVARIANTS
  UsedAccountsHaveUser
