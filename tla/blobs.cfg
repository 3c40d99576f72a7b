CONSTANTS
  Client = {c1, c2}
  Name = {x, y}
  Block = {b1, b2, b3}
  Size = {1, 2, 3}
  Blocksize = 2
  Threshold = {2, 5}
  Known = {1}
  IntMax = 9
  MaxPuts = 3
  MaxLost = 0
  Overlap = FALSE
  Reput = FALSE
  NoClient = NoClient
  NoInode = NoInode
  NoName = NoName
SPECIFICATION Spec
SYMMETRY Interchangeable
INVARIANTS
  TypeOK
  NothingLeaked
  GetReturnsPut
