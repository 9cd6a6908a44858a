--------------------------- MODULE MCSecretAgents ---------------------------
(* Small instances of SecretAgents for TLC.                                *)
EXTENDS SecretAgents

CONSTANTS s1, s2, r1, r2, c1
=============================================================================
