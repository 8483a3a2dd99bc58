SPECIFICATION FairSpec
CONSTANTS
  Intervals = {0, 1, 2}
  DefaultWait = 2
  MaxWait = 4
  Deadline = 6
  Lifetimes = {"future"}
INVARIANTS TypeOK NoThirdSignIn PollSpacing
PROPERTY PollingEnds
