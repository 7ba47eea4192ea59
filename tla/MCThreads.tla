------------------------------ MODULE MCThreads ------------------------------
(* The two parts whose threads share memory and locks, the watcher and the scan, *)
(* each explored on its own: `part' says which.  While it is the scan, creating   *)
(* the watcher has failed; while it is the watcher, nobody scans.                 *)
EXTENDS MCDirectoryWatcher, MCDependencyScanning

VARIABLE part

\* The initial states of a part while the other one is explored.
WatcherRests == files = {} /\ ~waitForInitialSync
ScanRests ==
  /\ disk = [f \in Paths |-> Absent]
  /\ file = [w \in Workers |-> CHOOSE f \in Paths : TRUE]

ThreadsInit ==
  /\ part \in {"watcher", "scan"}
  /\ Init /\ ScanningInit
  /\ part = "scan" => WatcherRests
  /\ part = "watcher" => ScanRests

ThreadsNext ==
  /\ UNCHANGED part
  /\ \/ part = "watcher" /\ Next /\ UNCHANGED scanningVars
     \/ part = "scan" /\ CreateWatch /\ mainPc' = "failed" /\ UNCHANGED scanningVars
     \/ part = "scan" /\ mainPc = "failed" /\ ScanningNext /\ UNCHANGED vars

\* No thread of the part that is not explored can run, so that its fairness asks nothing.
ThreadsSpec ==
  /\ ThreadsInit /\ [][ThreadsNext]_<<part, vars, scanningVars>>
  /\ Fairness /\ ScanningFairness

=============================================================================
