\* As in ImplicitModules_turned, without faults; the main files import a.
CONSTANTS
  p1 = p1
  p2 = p2
  Procs = {p1, p2}
  a = a
  b = b
  c = c
  diamond = diamond
  failing = failing
  vanishing = vanishing
  turned = turned
  Nobody = Nobody
  NoPCM = NoPCM
  Unseen = Unseen
  Imports <- MCImports
  LeftPCMs <- MCLeftPCMs
  Broken <- MCBroken
  Projects = {turned}
  Modules = {a, c}
  MaxVersion = 2
  MainImports <- BothMainImportA
  Faults <- NoFaults
SYMMETRY ProcSymmetry
SPECIFICATION Spec
INVARIANTS
  NoCacheAssertFails
\* The compilations end.
CHECK_DEADLOCK FALSE
