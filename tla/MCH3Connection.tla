--------------------------- MODULE MCH3Connection ---------------------------
(* H3Connection for TLC.                                                   *)
EXTENDS H3Connection

FirstFour == 0 .. 3
FirstEight == 0 .. 7

=============================================================================
