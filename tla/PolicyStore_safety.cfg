\* Three requests on two replicas, every interleaving of their calls.
CONSTANTS
  p1 = p1
  p2 = p2
  c1 = c1
  c2 = c2
  Requests = {r1, r2, r3}
  Replicas = {h1, h2}
  PolicyIds = {p1, p2}
  Contents = {c1, c2}
  DefaultId = p1
  DefaultContent = c1
  BulkLists <- OneBulk
  Targets = {1}
  PoolMax = 1
  None = None
  Seed = Seed
SPECIFICATION Spec
SYMMETRY Interchangeable
INVARIANTS
  TypeOK
  GapFree
  CurrentIsLatest
  RollbackRestores
  AuditMatchesHistory
  AnswerIsTruthful
  NoClientLeak
PROPERTIES
  RegistrySpec
