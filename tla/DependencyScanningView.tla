----------------------- MODULE DependencyScanningView -----------------------
(***************************************************************************)
(* What the shared cache of a dependency scan promises its workers: of each *)
(* file there is one view.  It is undecided until somebody looks; then it   *)
(* is what the disk holds at that moment, and it stays so.  Only the        *)
(* absence of a file whose stat failures are not cached stays undecided.    *)
(***************************************************************************)
CONSTANTS Files, Absent, Directory, Undecided, Failure

VARIABLES
  disk,             \* [Files -> Absent, Directory or the contents of a file]
  view              \* [Files -> Undecided, Failure, Directory or contents]

viewVars == <<disk, view>>

ViewInit == \A f \in Files : view[f] = Undecided

\* The view of one file is decided, from the disk.  A failure is one to open a file
\* that is no regular file (any more).
Decide(f) ==
  /\ view[f] = Undecided /\ UNCHANGED disk
  /\ \/ view' = [view EXCEPT ![f] = disk[f]] /\ disk[f] # Absent
     \/ view' = [view EXCEPT ![f] = Failure] /\ disk[f] \in {Absent, Directory}

DiskChanges == UNCHANGED view

ViewNext == DiskChanges \/ \E f \in Files : Decide(f)
ViewSpec == ViewInit /\ [][ViewNext]_viewVars
=============================================================================
