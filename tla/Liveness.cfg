SPECIFICATION FairSpec
CONSTANTS
  None = None
  c1 = c1
  c2 = c2
  c3 = c3
  alice = alice
  w1 = w1
  w2 = w2
  Cases = {c1}
  CustomerOf <- OneCustomer
  Workers = {w1, w2}
  Dispatchers = {w1}
  Kinds = {"payment.failed", "payment.authorized", "payment.dispute.created"}
  Codes = {"BANK_DOWN", "RISK_REJECTED"}
  Cooldown = 1
  ReleaseJitter = 1
  RetryEscalation = 1
  ContactCooldown = 1
  ContactWindow = 3
  MaxContacts = 2
  MaxRecoveryAttempts = 2
  MaxCancelAttempts = 2
  Retention = 1
  MaxTime = 2
  MaxFailures = 1
  MaxLinks = 1
  MaxCrashes = 0
  MaxReopens = 0
INVARIANTS
  TimedCasesHaveDeadlines
PROPERTIES
  TransitionsAllowed
  FailedCancelsSettle
  DeadlinesAreKept
CHECK_DEADLOCK FALSE
