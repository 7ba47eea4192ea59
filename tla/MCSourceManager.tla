--------------------------- MODULE MCSourceManager ---------------------------
(* AST files of one entry and of four. *)
EXTENDS SourceManager

ShortASTFiles == {<<2>>, <<1, 2, 1, 1>>}

=============================================================================
