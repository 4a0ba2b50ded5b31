SPECIFICATION Spec
CONSTANTS
  Instance = {i1, i2}
  NoOne = NoOne
  Names = 2
  Pass = {"p", "q"}
  Text = {"a"}
  Typed <- Plaintexts
  MaxSetups = 2
SYMMETRY Symmetry
INVARIANTS TypeOK ConfigOpens MemoryIsDisk
PROPERTY ChangesAsked
