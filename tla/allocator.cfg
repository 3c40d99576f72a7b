CONSTANTS
  s1 = s1  s2 = s2
  b1 = b1  b2 = b2  b3 = b3
  t1 = t1  t2 = t2  t3 = t3
  o1 = o1  o2 = o2
  NoOwner = NoOwner
  Server = {s1, s2}
  Block = {b1, b2, b3}
  BlocksOf <- TwoServers
  Thread = {t1, t2, t3}
  Owner = {o1, o2}
  MaxCount = 3
  MaxBoots = 1
SPECIFICATION Spec
SYMMETRY Interchangeable
INVARIANTS
  TypeOK
  ExclusiveUse
  NothingLost
  MapIsExact
  FreeNeverRefused
  TotalIsRegistered
PROPERTIES
  GrantsWhole
  ImplementsPool
