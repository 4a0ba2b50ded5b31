SPECIFICATION FairSpec
CONSTANTS
  RefreshInterval = 2
  StaleTimeout = 12
  MaxLag = 1
  MaxOpen = 12
  MaxSuspend = 5
INVARIANTS TypeOK NeverServedUnlocked
PROPERTIES NoSpuriousStop LeaseProgress
