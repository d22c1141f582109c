\* A replica whose migrations fail serves from memory.
CONSTANTS
  Replicas = {h1}
  Contacts = {c1}
  ListLimit = 1
  None = None
SPECIFICATION Spec
INVARIANTS
  PersistedWhenConfigured
