SPECIFICATION Spec
CONSTANTS
  Cap = 100
  MaxPayloads = 2
  MaxRestarts = 1
INVARIANTS TypeOK AcceptedBeforeNext FirstInOrder
PROPERTY Delivered
CHECK_DEADLOCK FALSE
