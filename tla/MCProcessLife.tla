---------------------------- MODULE MCProcessLife ----------------------------
(***************************************************************************)
(* A TLC instance of ProcessLife.                                          *)
(***************************************************************************)
EXTENDS ProcessLife

CONSTANTS worker, election, r1, r2

SmallPools == 0 .. 3
=============================================================================
