--------------------------- MODULE WatcherContract ---------------------------
(***************************************************************************)
(* What latino::DirectoryWatcher promises to the Receiver it was created    *)
(* with (the class comment of DirectoryWatcher.h): the calls never overlap, *)
(* the initial scan comes first and once, changes follow one at a time, and *)
(* nothing follows WatcherGotInvalidated.  The client is the smallest one   *)
(* that uses every event: it keeps a mirror of the directory in view.       *)
(***************************************************************************)
CONSTANT Files                  \* the names a directory entry may have

VARIABLES
  phase,                        \* what the client has been told so far
  view,                         \* the client's mirror of the directory
  calls                         \* the threads that are inside Receiver

contractVars == <<phase, view, calls>>

ContractInit == phase = "none" /\ view = {} /\ calls = {}

\* A call starts only when no other is running, and never after invalidation.
BeginCall ==
  /\ calls = {} /\ phase # "invalidated"
  /\ \E t \in {"main", "receiving"} : calls' = {t}
  /\ UNCHANGED <<phase, view>>

\* Receiver(Events, IsInitial = true): the first call, and the only one.
EndInitialCall ==
  /\ phase = "none" /\ calls # {}
  /\ phase' = "watching" /\ calls' = {}
  /\ view' \in SUBSET Files

\* Receiver({Modified | Removed | WatchedDirRemoved}, IsInitial = false).
EndChangeCall ==
  /\ phase = "watching" /\ calls # {}
  /\ calls' = {}
  /\ view' \in {view} \cup {view \cup {f} : f \in Files}
                      \cup {view \ {f} : f \in Files}
  /\ UNCHANGED phase

\* Receiver({WatcherGotInvalidated}, IsInitial = false): the last call.
EndInvalidatedCall ==
  /\ phase = "watching" /\ calls # {}
  /\ phase' = "invalidated" /\ calls' = {}
  /\ UNCHANGED view

ContractNext ==
  BeginCall \/ EndInitialCall \/ EndChangeCall \/ EndInvalidatedCall

ContractSpec == ContractInit /\ [][ContractNext]_contractVars
=============================================================================
