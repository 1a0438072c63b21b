---------------------------- MODULE MCImportQueue ----------------------------
(* One content, which makes every second file of a batch a duplicate of the *)
(* first unless that fails or the user removes it.                          *)
EXTENDS ImportQueue
CONSTANTS a

MCContents == {a}
MCTagChoices == {TRUE}
=============================================================================
