SPECIFICATION Spec
CONSTANTS
  Cases = {1, 2, 3}
  i1 = i1
  i2 = i2
  Issuers = {i1}
  IssuerOf <- OneIssuer
  Batch = 2
  SweepBatch = 1
  Quota = 1
  MaxCancelAttempts = 2
  Cooldown = 2
  ReleaseJitter = 1
  RetryEscalation = 1
  Offset <- NoOffset
  MaxMishaps = 1
INVARIANTS
  TypeOK
  
PROPERTIES
  CooldownDrains
  
  
