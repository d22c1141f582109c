\* Two reads of a new tenant, or a read and a write, seed over one another.
CONSTANTS
  p1 = p1
  p2 = p2
  c1 = c1
  c2 = c2
  Requests = {r1, r2}
  Replicas = {h1, h2}
  PolicyIds = {p1, p2}
  Contents = {c1, c2}
  DefaultId = p1
  DefaultContent = c1
  BulkLists <- OneBulk
  Targets = {1}
  PoolMax = 1
  None = None
  Seed = Seed
SPECIFICATION Spec
INVARIANTS
  SeedIsInitial
