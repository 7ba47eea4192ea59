------------------------- MODULE MCImplicitModules -------------------------
(***************************************************************************)
(* Model-checking instances of ImplicitModules.                             *)
(***************************************************************************)
EXTENDS ImplicitModules, TLC

CONSTANTS a, b, c, p1, p2,                  \* modules and processes
          diamond, failing, vanishing, turned \* projects

PCM(v, s) == [src |-> v, imports |-> s]
Ref(m, s) == [mod |-> m, sig |-> s]
Old == PCM(0, <<>>)

\* diamond: a and b import c, whatever their versions.
\* failing, vanishing: a imports c.
\* turned: the import of a by c is turned round: c's version 1 does without a, a's
\* version 2 imports c.
ImportsIn(j, m, v) ==
  CASE j = diamond -> IF m = c THEN <<>> ELSE <<c>>
    [] j = turned  -> IF m = a /\ v = 2 THEN <<c>> ELSE IF m = c /\ v = 0 THEN <<a>> ELSE <<>>
    [] OTHER       -> IF m = a THEN <<c>> ELSE <<>>
MCImports ==
  [j \in Projects |->
     [m \in IF j = diamond THEN {a, b, c} ELSE {a, c} |->
        [v \in Versions |-> ImportsIn(j, m, v)]]]

\* A PCM of version 0 of each module, with the imports that version has.
MCLeftPCMs ==
  [j \in Projects |-> [m \in DOMAIN MCImports[j] |->
     {PCM(0, [i \in DOMAIN MCImports[j][m][0] |-> Ref(MCImports[j][m][0][i], Old)])}]]

MCMainImports ==
  [j \in Projects |-> [p \in Procs |->
     CASE j = diamond -> <<a, b>>
       [] j = turned  -> IF p = p1 THEN <<a>> ELSE <<c>>
       [] OTHER       -> <<a, c>>]]
BothMainImportA == [j \in Projects |-> [p \in Procs |-> <<a>>]]

MCBroken == [j \in Projects |-> IF j = failing THEN {<<c, 0>>} ELSE {}]

MCFaults ==
  [j \in Projects |->
     CASE j = failing   -> {"crash", "timeout", "lockError"}
       [] j = vanishing -> {"rename", "prune"}
       [] j = turned    -> {"crash", "timeout"}
       [] OTHER         -> {}]
NoFaults == [j \in Projects |-> {}]

\* The hypothesis of LayeredModulesProofs: c is below a and b unless an edit turns the
\* import round, and then no rank will do.
ASSUME MCLayered ==
  (\E rank \in [Modules -> 0..1] : Layered(rank)) <=> turned \notin Projects

ProcSymmetry == Permutations(Procs)
=============================================================================
