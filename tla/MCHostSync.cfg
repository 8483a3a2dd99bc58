SPECIFICATION Spec
CONSTANTS
  Runs = {r1}
  ca = ca
  dropin = dropin
  root = root
  Order <- MCOrder
  CA = ca
  DropIn = dropin
  Contents = {1, 2}
  Verdicts <- MCVerdicts
  Troubles = {{"reject"}, {"abort"}}
  Torn = Torn
  None = None
INVARIANTS TypeOK NeverTorn
PROPERTIES AllOrNothing DoneIsExact
