SPECIFICATION Spec
CONSTANTS
  Proc = {p1, p2}
  Slot = {s1, s2}
  None = None
  Leftover = {"lock", "empty", "corrupt"}
  MaxFaults = 0
  Prompt = TRUE
SYMMETRY Symmetry
PROPERTIES VanishedCannotConflict
