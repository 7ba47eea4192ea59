------------------------- MODULE MCDirectoryWatcher -------------------------
(***************************************************************************)
(* The instances of DirectoryWatcher are given in the .cfg files: one name  *)
(* (DirectoryWatcherProofs is for any set of names) and small limits.       *)
(***************************************************************************)
EXTENDS DirectoryWatcher
=============================================================================
