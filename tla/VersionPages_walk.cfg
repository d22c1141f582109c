\* A history of at most six versions, in both storage modes.
CONSTANTS
  Marks = {m1, m2}
  Stores = {"postgres", "memory"}
  AskedLimits <- SomeLimits
  DefaultLimit = 2
  MaxLimit = 3
  MaxVersions = 6
  NoNumber = NoNumber
SPECIFICATION Spec
INVARIANTS
  TypeOK
  NoHoles
  CompleteOrGrown
