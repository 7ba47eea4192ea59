------------------------ MODULE MCDependencyScanning ------------------------
(***************************************************************************)
(* The instances of DependencyScanningFilesystem are given in the .cfg      *)
(* files: a header and a module file that two workers look up.              *)
(***************************************************************************)
EXTENDS DependencyScanningFilesystem
=============================================================================
