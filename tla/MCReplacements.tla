---------------------------- MODULE MCReplacements ----------------------------
(* A code of three letters, and texts of none, one and two others. *)
EXTENDS Replacements

ShortCode == <<1, 2, 3>>
ShortTexts == {<<>>, <<11>>, <<11, 12>>}

=============================================================================
