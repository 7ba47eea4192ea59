\* Three projects.  The main file imports a and b, which both import c, and any of the
\* PCMs of the first versions may have been left by earlier builds (diamond).  The main
\* file imports a, which imports c, and c: either c's first version does not compile,
\* and processes crash, time out and have trouble with lock files (failing), or PCM
\* files are deleted and cannot be put in place (vanishing).
CONSTANTS
  p1 = p1
  p2 = p2
  Procs = {p1, p2}
  a = a
  b = b
  c = c
  diamond = diamond
  failing = failing
  vanishing = vanishing
  turned = turned
  Nobody = Nobody
  NoPCM = NoPCM
  Unseen = Unseen
  Imports <- MCImports
  LeftPCMs <- MCLeftPCMs
  Broken <- MCBroken
  Projects = {diamond, failing, vanishing}
  Modules = {a, b, c}
  MaxVersion = 1
  MainImports <- MCMainImports
  Faults <- MCFaults
SYMMETRY ProcSymmetry
SPECIFICATION Spec
INVARIANTS
  TypeOK
  FinalConsistent
  FinalFresh
  LoadedAlive
  NoCacheAssertFails
  FailsForAReason
PROPERTIES
  KeepsCacheContract
\* The compilations end.
CHECK_DEADLOCK FALSE
