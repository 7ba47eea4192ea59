-------------------------- MODULE MCTentativeParsing --------------------------
(* A file with a qualified name, a name, '>=' '=', '>>' and its end. *)
EXTENDS TentativeParsing

T(first, last, kind) == [first |-> first, last |-> last, kind |-> kind]

QualifiedNames ==
    << T(1, 1, "name"), T(2, 2, "op"), T(3, 3, "name"), T(4, 5, "greaterequal"),
       T(6, 6, "eq"), T(7, 8, "greatergreater"), T(9, 9, "eof") >>

=============================================================================
