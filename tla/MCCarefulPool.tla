--------------------------- MODULE MCCarefulPool ---------------------------
(***************************************************************************)
(* CarefulPool on a small pool: 8 bytes of struct, pointers of 8 bytes.    *)
(***************************************************************************)
EXTENDS CarefulPool

CONSTANTS h1, h2, h3
============================================================================
