-------------------------- MODULE MCProfileStore --------------------------
(* Small instances of ProfileStore for TLC.                                *)
EXTENDS ProfileStore, TLC

CONSTANTS u1, ub, home, eth0, pass, wlan0

Wired(u)  == [uuid |-> u, kind |-> "wired", ssid |-> NoSsid, body |-> eth0]
Wifi(u, b) == [uuid |-> u, kind |-> "wifi", ssid |-> home, body |-> b]
Netdev(u) == [uuid |-> u, kind |-> "netdev", ssid |-> NoSsid, body |-> eth0]

\* A Wi-Fi profile that can gain or lose its passphrase; one that can also become a
\* netdev; and a wired one beside it.
MCWifiProfiles == { Wifi(u1, pass), Wifi(u1, NoBody) }
MCEdits == { Wifi(u1, pass), Wifi(NoUuid, NoBody), Netdev(u1) }
MCImports == { Wifi(u1, pass), Wired(NoUuid) }

\* The profile that the service makes for the link eth0.
MCStartup == { [path |-> 1, uuid |-> ub, kind |-> "wired", ssid |-> NoSsid,
                body |-> eth0, origin |-> "backend", unsaved |-> FALSE,
                filename |-> <<eth0, "network">>] }
NoStartup == {}

ClientSymmetry == Permutations(Clients)
===========================================================================
