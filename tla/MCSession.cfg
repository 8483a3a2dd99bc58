SPECIFICATION Spec
CONSTANTS
  Servers = {s1, s2}
  Private = {s2}
  Default = s1
  User = u
  Hooks = {h1}
  MaxTokens = 2
  None = None
INVARIANTS TypeOK SessionStaysHome ForeignNeverUsed LogoutEndsSession
