--------------------------- MODULE MCLibraryFiles ---------------------------
(* One content and three roots for LibraryFiles: files may be relocated     *)
(* away, on to a third directory and, after a restart, back and away again. *)
(* No step looks at two contents at once but the choice of the next file,   *)
(* and a content has two files, so that one content stands for several.     *)
EXTENDS LibraryFiles, TLC

CONSTANTS bracket, here, there, elsewhere

MCSymmetry == Permutations({here, there, elsewhere})
=============================================================================
