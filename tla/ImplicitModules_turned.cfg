\* An edit turns the import of a by c round, while an old PCM of c is left; processes
\* crash and time out.
\* No symmetry: liveness.
CONSTANTS
  p1 = p1
  p2 = p2
  Procs = {p1, p2}
  a = a
  b = b
  c = c
  diamond = diamond
  failing = failing
  vanishing = vanishing
  turned = turned
  Nobody = Nobody
  NoPCM = NoPCM
  Unseen = Unseen
  Imports <- MCImports
  LeftPCMs <- MCLeftPCMs
  Broken <- MCBroken
  Projects = {turned}
  Modules = {a, c}
  MaxVersion = 2
  MainImports <- MCMainImports
  Faults <- MCFaults
SPECIFICATION FairSpec
INVARIANTS
  FinalConsistent
PROPERTIES
  CompilationsEnd
\* The compilations end.
CHECK_DEADLOCK FALSE
