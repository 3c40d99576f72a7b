SPECIFICATION Spec
CONSTANTS
  A = A  B = B  C = C  D = D
  x = x  y = y  z = z  w = w  cfg = cfg
  Function <- Functions
  Object <- Objects
  Input <- Inputs
  Output <- Outputs
  Successor <- Successors
  Start <- Starts
  Predicted <- Lifetimes
  GoesOn = TRUE
  NoObject = NoObject
INVARIANT GetServed
CHECK_DEADLOCK FALSE
