CONSTANTS
  Client = {c1, c2}
  Name = {x}
  Block = {b1, b2, b3}
  Size = {1, 2, 3}
  Blocksize = 2
  Threshold = {2, 5}
  Known = {1}
  IntMax = 9
  MaxPuts = 3
  MaxLost = 1
  Overlap = TRUE
  Reput = TRUE
  NoClient = NoClient
  NoInode = NoInode
  NoName = NoName
SPECIFICATION Spec
SYMMETRY Interchangeable
INVARIANTS
  SpaceIsOwned
  ErasedIsFound
