\* Two replicas, two contacts of which a list shows one, any number of crashes.
CONSTANTS
  Replicas = {h1, h2}
  Contacts = {c1, c2}
  ListLimit = 1
  None = None
SPECIFICATION FairSpec
INVARIANTS
  TypeOK
  AcknowledgedIsListed
  AuditNamesContact
  AuditPageIsNewest
PROPERTIES
  ProcessKeeps
  EveryReplicaServes
