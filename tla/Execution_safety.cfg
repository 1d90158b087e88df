SPECIFICATION AmongCalls
CONSTANTS
  Runs = {r1, r2}
  Bundles = {core1, mod1}
  ValidationBundles = {}
  CoreBundles = {core1}
  StepCount = 1
  NoRun = NoRun
  Others = {r2}
INVARIANTS
  ClientTypeOK
  RecordFaithful
  ReportFaithful
  InterruptedIsDead
  SecretsAfterClaim
  RetryIsSafe
