\* Three events over a limit of two, a client who checks out twice.
CONSTANTS
  Events = {e1, e2, e3}
  Bodies <- SomeBodies
  Clients = {k1}
  Stores = {"postgres", "memory"}
  Limit = 2
  MaxSessions = 2
  None = None
SPECIFICATION Spec
SYMMETRY Interchangeable
INVARIANTS
  TypeOK
  InvoiceIsComplete
  InvoiceAddsUp
  AmountFromWindow
PROPERTIES
  OwedGrows
CHECK_DEADLOCK FALSE
