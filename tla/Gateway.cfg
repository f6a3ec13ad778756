SPECIFICATION Spec
CONSTANTS
  Invoices = {"inv_1"}
  MaxAttempts = 3
  MaxCancels = 2
INVARIANTS
  GatewayTypeOK
  NoOrphanLink
PROPERTIES
  KeepsContract
CHECK_DEADLOCK FALSE
