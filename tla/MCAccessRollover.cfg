SPECIFICATION Spec
CONSTANTS
  a = a
  b = b
  c1 = c1
  c2 = c2
  u1 = u1
  Conns = {c1}
  Cmds = {}
  Worlds = {"rollover"}
  History <- MCHistory
  Acting <- MCActing
  Env <- MCEnv
  FreshFor = 2
  RetryAfter = 1
  Life = 4
  None = None
PROPERTY Converges
