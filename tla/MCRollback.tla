----------------------------- MODULE MCRollback -----------------------------
(* A small instance of Rollback for TLC.                                   *)
EXTENDS Rollback

CONSTANTS wlan0, eth0, wired, wireless, tunnel

\* A wlan and a wired link; profiles of the three kinds, the tunnel's is bound to
\* no link.
MCTails == {<<i, i>> : i \in Ifaces}
MCKindOf == [p \in Profiles |-> CASE p = wired -> "ethernet"
                                  [] p = wireless -> "wifi"
                                  [] OTHER -> "other"]
MCSource == [i \in Ifaces |-> wireless]
MCBoundTo == [p \in Profiles |-> CASE p = wired -> eth0 [] p = wireless -> wlan0
                                   [] OTHER -> Nowhere]
=============================================================================
