SPECIFICATION Spec
CONSTANTS
  a = a
  b = b
  c1 = c1
  c2 = c2
  u1 = u1
  Conns = {c1, c2}
  Cmds = {u1}
  Worlds = {"granted", "expired", "revoked"}
  History <- MCHistory
  Acting <- MCActing
  Env <- MCEnv
  FreshFor = 1
  RetryAfter = 1
  Life = 2
  None = None
INVARIANTS TypeOK OfflineKeepsWorking
PROPERTIES AccessSettles OutageCostsOneAttempt
