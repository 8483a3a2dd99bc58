SPECIFICATION QSpec
CONSTANTS
  Agents = {a1, a2, a3}
  Sessions = {s1, s2}
  Inodes = {i1}
  LogoutAgents = {a1, a2}
  LogoutInodes = {i1, i2}
  LogoutSessions = {s1, s2}
  None = None
INVARIANTS TypeOK OneListener ServingReachable NoSpuriousFailure ListenerHoldsItsLock
PROPERTIES OneService Recovery
