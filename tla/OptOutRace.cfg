SPECIFICATION Spec
CONSTANTS
  None = None
  c1 = c1
  c2 = c2
  c3 = c3
  alice = alice
  w1 = w1
  w2 = w2
  Cases = {c1, c2}
  CustomerOf <- OneCustomer
  Workers = {w1, w2}
  Dispatchers = {w1}
  Kinds <- DisputeKinds
  Codes = {"CARD_EXPIRED"}
  Cooldown = 1
  ReleaseJitter = 1
  RetryEscalation = 2
  ContactCooldown = 1
  ContactWindow = 3
  MaxContacts = 2
  MaxRecoveryAttempts = 2
  MaxCancelAttempts = 2
  Retention = 1
  MaxTime = 0
  MaxFailures = 1
  MaxLinks = 1
  MaxCrashes = 0
  MaxReopens = 0
PROPERTIES
  SilencedIsNotContacted
CHECK_DEADLOCK FALSE
