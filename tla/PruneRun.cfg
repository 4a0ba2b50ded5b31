SPECIFICATION Spec
CONSTANTS
  Cap = 1
  MaxOut = 2
INVARIANTS TypeOK CancelDelivered ChildrenHeld ReportTrue NotStuck
PROPERTIES RunEnds
