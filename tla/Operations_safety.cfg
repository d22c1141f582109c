\* Submissions and reviews in both storage modes, every interleaving; without
\* Redis it stops when all requests have been answered.
CONSTANTS
  Submissions = {s1, s2}
  Reviews = {v1, v2}
  Stores = {"postgres", "memory"}
  MaxAdds = 1
  None = None
SPECIFICATION Spec
SYMMETRY Interchangeable
INVARIANTS
  TypeOK
  WorkExists
  GateStandsFirst
  AuditedIsComplete
PROPERTIES
  CompletedStays
CHECK_DEADLOCK FALSE
