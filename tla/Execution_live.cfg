SPECIFICATION AmongOthers
CONSTANTS
  Runs = {r1, r2}
  Others = {r2}
  Bundles = {mod1, core1}
  ValidationBundles = {}
  CoreBundles = {core1}
  StepCount = 1
  NoRun = NoRun
PROPERTIES
  HistoryImmutable
  CallReturns
  RunEnds
