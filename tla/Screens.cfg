SPECIFICATION EscSpec
CONSTANTS
  Profiles = 2
  Tag = {t}
  Backups = 1
  MaxId = 2
INVARIANTS TypeOK FlowsHold AskedRight OwnRepository ServerShown
PROPERTY WayOut
