SPECIFICATION FairSpec
CONSTANTS
  Runs = {r1, r2}
  Bundles = {core1, mod1, chk1}
  ValidationBundles = {chk1}
  CoreBundles = {core1, chk1}
  StepCount = 1
  NoRun = NoRun
INVARIANTS
  TypeOK
  LockExclusion
  OneOutcome
  SuccessMeansComplete
  RejectedNeverMutates
  AtMostOncePerRoot
  PromotedNeverReplayed
  PromotionComplete
PROPERTIES
  ImplementsLifecycle
  TerminalProofSettles
  RunnerTerminates
