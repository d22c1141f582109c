\* Three requests of one replica write one policy over two connections: one
\* can hold the row, one wait for it with a connection, one for a connection.
\* Bulk requests are left out.
CONSTANTS
  p1 = p1
  p2 = p2
  c1 = c1
  c2 = c2
  Requests = {r1, r2, r3}
  Replicas = {h1}
  PolicyIds = {p1}
  Contents = {c1}
  DefaultId = p1
  DefaultContent = c1
  BulkLists <- NoBulk
  Targets = {1}
  PoolMax = 2
  None = None
  Seed = Seed
SPECIFICATION FairSpec
PROPERTIES
  EveryRequestEnds
