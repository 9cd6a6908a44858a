-------------------------- MODULE MCDeviceObjects --------------------------
(* A small instance of DeviceObjects for TLC.                              *)
EXTENDS DeviceObjects

CONSTANTS lan, ppp0, neighbour

Bare(kind, type) == [kind |-> kind, type |-> type, p2p |-> FALSE, configs |-> {}, nets |-> {}]

\* lan may be a link of many kinds and of every type, with and without addresses and a
\* lease, or a wireless or a P2P device with and without a network; ppp0 comes and goes.
MCLinks ==
    {Bare(k, "None") : k \in {"Tap", "Tun", "Sit", "Wireguard", "Unknown", "Bareudp"}}
    \cup {Bare("Unknown", t) : t \in Types}
    \cup {Bare("Veth", "Ether"), Bare("Bridge", "Ether")}
    \cup {[Bare("Unknown", "Ether") EXCEPT !.configs = c] :
             c \in {{"IP4Config"}, {"IP4Config", "DHCP4Config"}, Configs}}
    \cup {[Bare("Unknown", "Wlan") EXCEPT !.p2p = TRUE, !.nets = p] : p \in SUBSET Networks}
    \cup {[Bare("Unknown", "Wlan") EXCEPT !.nets = p] : p \in SUBSET Networks}
MCCanBe == [n \in Names |-> IF n = ppp0 THEN {Bare("Unknown", "Ppp")} ELSE MCLinks]
=============================================================================
