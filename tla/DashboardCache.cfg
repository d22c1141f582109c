\* Two readers, two lists.  The audit log is limited to one row and retained,
\* and grows beyond its limit; the policies are neither.
CONSTANTS
  Readers = {r1, r2}
  Lists = {auditLogs, policies}
  Policies = policies
  Limited = {auditLogs}
  Limit = 1
  Retained = {auditLogs}
  MaxRows = 2
  HasRedis = TRUE
  None = None
SPECIFICATION FairSpec
INVARIANTS
  TypeOK
  CountsAreFromTheWindow
  PoliciesAreSeeded
PROPERTIES
  CacheSettles
