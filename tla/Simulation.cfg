SPECIFICATION Spec
CONSTANTS
  Horizon = 5
  Day = 2
  TechnicalClear = 1
  ContactTolerance = 0
  Payments = {1, 2}
  Worlds <- MCWorlds
  BuiltCauses = {"insufficient_funds", "do_not_honour", "instrument_dead", "risk_blocked"}
  Moments = {0}
  Delays = {3}
  Policies = {"do-nothing", "retry-3x-immediate", "retry-3x-backoff", "static-dunning", "railpulse"}
  Normalisers = {"passthrough", "model"}
  Labels = {"INSUFFICIENT_FUNDS", "CARD_EXPIRED", "SUSPECTED_FRAUD"}
  Idle = 2
  Soon = 1
  Cooldown = 1
  ReleaseJitter = 1
  RetryEscalation = 1
  ContactCooldown = 1
  ContactWindow = 3
  MaxContacts = 2
  MaxRecoveryAttempts = 2
INVARIANTS
  CadenceIndependent
  NoImpossibleRecovery
  EngineBooksRecoveries
  AttemptsAgree
  NoUnbookedContact
  UnlabelledIsLeftAlone
  OneVerdictPerMessage
