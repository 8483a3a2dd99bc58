SPECIFICATION CSpec
CONSTANTS
  x = x
  y = y
  z = z
  d1 = d1
  d2 = d2
  d3 = d3
  web = web
  Web = Web
  db = db
  Ids = {d1, d2, d3}
  Names = {web, Web, db, d1, d2}
  Fold <- MCFold
  UserConfig = UserConfig
  Nk = Nk
  Others = {x, y, z}
  Unread = {z}
  Mains <- MCMains
  Extras <- MCExtras
  Snapshots <- MCSnapshots
  MaxDepth = 2
  MaxFiles = 4
  None = None
INVARIANTS CTypeOK OwnNamesKept AliasesDistinct
PROPERTY AliasesStable
