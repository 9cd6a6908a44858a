------------------------- MODULE MCSettingsSignals -------------------------
(* Small instances of SettingsSignals for TLC.                             *)
EXTENDS SettingsSignals, TLC

CONSTANTS c1, c2, wlan

Interchangeable == Permutations(Clients)
=============================================================================
