SPECIFICATION Spec
CONSTANTS
  Operators = {o1, o2}
  Ids = {i1, i2}
  LastKey = 2
  Env = {"answer", "sync", "cut"}
  None = None
SYMMETRY Alike
INVARIANT TypeOK
PROPERTIES NeverAddedTwice DeletedMeansClean PinNeedsConsent
