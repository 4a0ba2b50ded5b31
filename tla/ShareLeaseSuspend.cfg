SPECIFICATION FairSpec
CONSTANTS
  RefreshInterval = 2
  StaleTimeout = 12
  MaxLag = 1
  MaxOpen = 4
  MaxSuspend = 13
INVARIANTS ServedAfterPoll
