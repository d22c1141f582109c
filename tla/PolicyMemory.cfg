\* Both stores, every order of the requests, until a policy has three versions.
CONSTANTS
  p1 = p1
  p2 = p2
  x = x
  y = y
  PolicyIds = {p1, p2}
  Values = {x, y}
  Contents <- SomeContents
  DefaultId = p1
  DefaultContent <- TheDefault
  BulkLists <- OneBulk
  MaxNumber = 3
  None = None
SPECIFICATION ParitySpec
INVARIANTS
  TypeOK
  AuditTellsHistory
  DiffExplains
PROPERTIES
  RegistrySpec
  StoresAgree
CHECK_DEADLOCK FALSE
