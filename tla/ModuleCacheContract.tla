------------------------ MODULE ModuleCacheContract ------------------------
(***************************************************************************)
(* What InMemoryModuleCache.h says of the PCMs in the caches of a set of    *)
(* processes: four states that only increase, which calls are allowed in    *)
(* which state, and that a process that has accepted a PCM (Final) never    *)
(* sees another one under its name.                                        *)
(***************************************************************************)
CONSTANTS Procs, Modules, NoPCM

VARIABLE pcms                 \* [Procs -> [Modules -> [state, buffer]]]

ContractInit ==
  \A p \in Procs, m \in Modules : pcms[p][m].state = "Unknown"

\* One entry changes from a state in from to the state to.
Moves(p, m, from, to, buffer) ==
  /\ pcms[p][m].state \in from
  /\ pcms' = [pcms EXCEPT ![p][m] = [state |-> to, buffer |-> buffer]]

\* addPCM: pre Unknown, post Tentative, with any buffer.
Adds(p, m) == Moves(p, m, {"Unknown"}, "Tentative", pcms'[p][m].buffer)

\* addBuiltPCM: pre Unknown or ToBuild, post Final, with any buffer.
AddsBuilt(p, m) ==
  Moves(p, m, {"Unknown", "ToBuild"}, "Final", pcms'[p][m].buffer)

\* tryToDropPCM: Tentative => ToBuild; the buffer is freed.
Drops(p, m) == Moves(p, m, {"Tentative"}, "ToBuild", NoPCM)

\* finalizePCM: Tentative => Final, the buffer stays.
Finalizes(p, m) == Moves(p, m, {"Tentative"}, "Final", pcms[p][m].buffer)

ContractNext ==
  \E p \in Procs, m \in Modules :
    /\ pcms'[p][m].state # pcms[p][m].state
    /\ Adds(p, m) \/ AddsBuilt(p, m) \/ Drops(p, m) \/ Finalizes(p, m)

ContractSpec == ContractInit /\ [][ContractNext]_pcms
=============================================================================
