CONSTANTS
  Thread = {t1, t2}
  Object = {x, y}
  Block = {b1, b2}
  Bucket = {a1, a2, a3, a4, a5, a6}
  Size = {2}
  Capacity = 3
  NoThread = NoThread
  NoBucket = NoBucket
  NoSlice = NoSlice
  NoObject = NoObject
SPECIFICATION Spec
SYMMETRY Interchangeable
INVARIANT AllReturned
