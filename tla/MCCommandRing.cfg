CONSTANTS
  Size = 4
  Commands <- MCCommands
  MaxSent = 6
SPECIFICATION Spec
INVARIANTS
  FifoDelivery
  WaiterHasWaker
PROPERTIES
  ImplementsQueue
