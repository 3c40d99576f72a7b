CONSTANTS
  Client = {c1}
  Name = {x}
  Block = {b1, b2}
  Size = {1}
  Blocksize = 2
  Threshold = {2, 5}
  Known = {1}
  IntMax = 9
  MaxPuts = 2
  MaxLost = 1
  Overlap = FALSE
  Reput = FALSE
  NoClient = NoClient
  NoInode = NoInode
  NoName = NoName
SPECIFICATION Spec
SYMMETRY Interchangeable
INVARIANTS
  GetReturnsPut
