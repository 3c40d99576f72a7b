SPECIFICATION FairSpec
CONSTANTS
  a = a  b = b  c = c
  Name = {a, b, c}
  Batch <- Vectors
  Window = 2
  MaxPieces = 3
  MaxCalls = 3
  Reuse = FALSE
  NoName = NoName
INVARIANTS
  TypeOK PutStored PartsInPlace GetReturnsPut NothingLeftBehind CrashNeedsRefusal RepliesMatch NeverStuck
PROPERTY EveryCallEnds
CHECK_DEADLOCK FALSE
