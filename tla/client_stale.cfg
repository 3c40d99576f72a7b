SPECIFICATION Spec
CONSTANTS
  a = a  b = b  c = c
  Name = {a, b, c}
  Batch <- PairAndOne
  Window = 2
  MaxPieces = 2
  MaxCalls = 2
  Reuse = TRUE
  NoName = NoName
INVARIANT RepliesMatch
CHECK_DEADLOCK FALSE
