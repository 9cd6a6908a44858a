--------------------------- MODULE MCCheckpoints ---------------------------
(* Small instances of Checkpoints for TLC.                                 *)
EXTENDS Checkpoints, TLC
===========================================================================
