SPECIFICATION Spec
CONSTANTS
  Proc = {p1, p2}
  Tag = {a}
  Backups = 1
  MaxId = 3
  MaxFaults = 0
SYMMETRY Symmetry
INVARIANTS StaleIdFails
