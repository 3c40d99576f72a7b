CONSTANTS
  Thread = {t1}
  Object = {x, y, z}
  Block = {b1, b2}
  Bucket = {a1, a2, a3, a4, a5}
  Size = {1, 2}
  Capacity = 3
  NoThread = NoThread
  NoBucket = NoBucket
  NoSlice = NoSlice
  NoObject = NoObject
SPECIFICATION FairSpec
INVARIANT AllReturned
PROPERTIES
  EveryCallReturns
  MutexReleased
