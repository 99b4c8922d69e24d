--------------------------- MODULE MCStateWriter ---------------------------
(* A small instance of StateWriter for TLC. *)
EXTENDS StateWriter

CONSTANTS main, upload

MCCallers == {main, upload}
=============================================================================
