SPECIFICATION Spec
CONSTANTS
  Targets = {t1}
  Procs = {p1, p2}
  MaxKeys = 2
  Life = 2
  None = None
INVARIANTS TypeOK ServesCurrent
PROPERTY IdentityHeals
