---------------------------- MODULE MCNetworkScan ----------------------------
(* NetworkScan on a network of two addresses, the second one its own.      *)
EXTENDS NetworkScan

Frame(kind, via, from, mac, fit, layers) ==
    [kind |-> kind, via |-> via, from |-> from, mac |-> mac, fit |-> fit, layers |-> layers]

\* This machine answers itself on "lo", from a MAC address of zeros.
Echoes ==
    {Frame("echoReply", "wlp2s0", 1, "mac1", FALSE, 0),
     Frame("echoReply", "lo", 2, "zero", FALSE, 0)}

Payloads ==
    {Frame(k, "wlp2s0", 1, "mac1", TRUE, n) : k \in {"udp", "tcp"}, n \in {0, 1}}
    \cup {Frame("udp", "wlp2s0", 1, "mac1", FALSE, 1), Frame("echo", "wlp2s0", 1, "mac1", FALSE, 0)}

Neighbours ==
    {Frame(k, "wlp2s0", h, IF h = 1 THEN "mac1" ELSE "mac3", fit, 0) :
        k \in {"arpRequest", "arpReply", "solicit", "advert"}, h \in {1, 3}, fit \in BOOLEAN}

MCPackets == Echoes \cup Payloads \cup Neighbours

Scene(who, packets, arrivals, posts, failures, unloaded) ==
    [who |-> who, packets |-> packets, arrivals |-> arrivals, posts |-> posts,
     failures |-> failures, unloaded |-> unloaded]

\* Scans and their answers on both interfaces; a failure and an unload during a
\* scan; every packet; every transmission, with failures.
MCScenes ==
    {Scene({}, Echoes, 3, {"ICMP_PING"}, 0, FALSE),
     Scene({"u1"}, {p \in Echoes : p.via = "wlp2s0"}, 0, {}, 1, TRUE),
     Scene({}, Payloads, 0, {}, 1, TRUE),
     Scene({}, Neighbours, 0, {}, 1, TRUE),
     Scene({}, {}, 0, {"ARP_REQUEST", "NDP_REQUEST", "UDP_TRANSMISSION", "TCP_TRANSMISSION"}, 2, TRUE)}
=============================================================================
