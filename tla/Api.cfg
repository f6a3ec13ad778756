SPECIFICATION Spec
CONSTANTS
  Missing = Missing
  Junk = Junk
  NoHook = NoHook
  r1 = r1
  r2 = r2
  Requests = {r1, r2}
  Webhooks = {1, 3, 4, 5, 6}
  Hook <- MCHook
  Unsigned = FALSE
  Providers = {"llm:anthropic"}
  Received = 1
  MaxFaults = 1
  MaxAmountPaise = 100
  Cooldown = 1
  ReleaseJitter = 1
  RetryEscalation = 1
  ContactCooldown = 1
  ContactWindow = 3
  MaxContacts = 2
  MaxRecoveryAttempts = 3
INVARIANTS
  
  
  
  PreviewIsSafe

  
  
