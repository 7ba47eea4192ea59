------------------------ MODULE InMemoryModuleCache ------------------------
(***************************************************************************)
(* latino::InMemoryModuleCache: the map from PCM file names to buffers that *)
(* the compiler instances of one process share.  A cache is a value here;   *)
(* each operation comes with the assertions it makes (XAsserts).            *)
(***************************************************************************)
CONSTANTS
  Modules,        \* the modules; each has one PCM file name
  NoPCM           \* no buffer (a null pointer), no file

\* No entry in the StringMap PCMs.
Absent == [present |-> FALSE, buffer |-> NoPCM, isFinal |-> FALSE]

EmptyCache == [m \in Modules |-> Absent]

getPCMState(c, m) ==
  IF ~c[m].present THEN "Unknown"
  ELSE IF c[m].isFinal THEN "Final"
  ELSE IF c[m].buffer # NoPCM THEN "Tentative" ELSE "ToBuild"

\* Mutant: a dropped PCM is forgotten.
DropForgets(c, m) ==
  IF c[m].isFinal THEN c ELSE [c EXCEPT ![m] = Absent]

addPCM(c, m, b) ==
  [c EXCEPT ![m] = [present |-> TRUE, buffer |-> b, isFinal |-> FALSE]]

addBuiltPCMAsserts(c, m) == ~c[m].isFinal /\ c[m].buffer = NoPCM
addBuiltPCM(c, m, b) ==
  [c EXCEPT ![m] = [present |-> TRUE, buffer |-> b, isFinal |-> TRUE]]

tryToDropPCMAsserts(c, m) == c[m].present /\ c[m].buffer # NoPCM
tryToDropPCM(c, m) ==
  IF c[m].isFinal THEN c ELSE [c EXCEPT ![m].buffer = NoPCM]

finalizePCMAsserts(c, m) == c[m].present /\ c[m].buffer # NoPCM
finalizePCM(c, m) == [c EXCEPT ![m].isFinal = TRUE]
=============================================================================
