SPECIFICATION FairSpec
CONSTANTS
  A = A  B = B  C = C  D = D
  x = x  y = y  z = z  w = w  cfg = cfg
  Function <- Functions
  Object <- Objects
  Input <- Inputs
  Output <- Outputs
  Successor <- Successors
  Start <- Starts
  Predicted <- Lifetimes
  GoesOn = FALSE
  NoObject = NoObject
INVARIANTS TypeOK RefsExact GetServed ReleasedWhenRead
PROPERTIES CallsServed ImplementsCollector EveryCallReturns
CHECK_DEADLOCK FALSE
