SPECIFICATION Spec
CONSTANTS
  Proc = {p1, p2}
  Slot = {s1, s2}
  None = None
  Leftover = {"lock", "empty", "corrupt"}
  MaxFaults = 1
  Prompt = TRUE
SYMMETRY Symmetry
INVARIANTS TypeOK MutualExclusion HeldLockOnDisk NoOrphans ProbeSpares
PROPERTIES ImplementsService
