---------------------------- MODULE MCActivation ----------------------------
(* Small instances of Activation for TLC.                                  *)
EXTENDS Activation, TLC

CONSTANTS wlan0, vwlan0, wired, wireless, tunnel

\* A wlan, a wired link whose name ends with the name of the wlan, and profiles of
\* the three kinds
MCTails == {<<i, i>> : i \in Ifaces} \cup ({<<wlan0, vwlan0>>} \cap (Ifaces \X Ifaces))
MCKindOf == [p \in Profiles |-> CASE p = wired -> "ethernet"
                                  [] p = wireless -> "wifi"
                                  [] OTHER -> "other"]
MCSource == [i \in Ifaces |-> IF i \in Wlans THEN wireless ELSE wired]
=============================================================================
