SPECIFICATION Spec
CONSTANTS
  Profiles = 1
  Tag = {t}
  Backups = 2
  MaxId = 2
INVARIANT DetailsMatch
