SPECIFICATION FairSpec
CONSTANTS
  Endpoints = {e1, e2, e3}
  Relay = relay
INVARIANTS TypeOK FailsOnlyAfterAll NoLoserLeft
PROPERTIES ConnectedIsPiped HangUpEnds
CHECK_DEADLOCK FALSE
