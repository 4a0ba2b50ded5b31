SPECIFICATION Spec
CONSTANTS
  Back = "back"
  Mark = "mark"
  Spaces = {"space"}
  Formats = {"format"}
  Bytes = {"byte"}
  Escape <- SomeEscape
  UsizeMax = 3
  Trees <- SmallTrees
  TreeNodes <- SmallNodes
  Names = {1, 2}
  MaxLevel = 3
  Served <- ServedTrees
  Nodes <- AllNodes
  Dir <- ShortId
  DirCases <- ShortIds
  Requested <- Asked
  MaxDepth = 2
  Limits = {1, 2, 4}
  Numbers = {0, 1, 2, 3, 4, 5, 6}
INVARIANTS PreviewRight DiffRight ServesTree
