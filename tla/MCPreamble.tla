------------------------------ MODULE MCPreamble ------------------------------
(* Main files that include one header, which may be in two directories, or not. *)
EXTENDS PrecompiledPreamble

CONSTANTS userDir, systemDir, textA, textB, bare, hdr

HeaderPaths == {userDir, systemDir}
HeaderIncludes == [t \in {textA, textB, bare} |-> IF t = bare THEN <<>> ELSE <<hdr>>]
HeaderCandidates == [h \in {hdr} |-> <<userDir, systemDir>>]
Countdowns == {0, 2}

=============================================================================
