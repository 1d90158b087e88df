SPECIFICATION Spec
CONSTANTS
  Runs = {r1, r2, r3}
  Bundles = {core1, core2}
  ValidationBundles = {}
  CoreBundles = {core1, core2}
  StepCount = 0
  NoRun = NoRun
SYMMETRY RunSymmetry
INVARIANT AtMostOnce
