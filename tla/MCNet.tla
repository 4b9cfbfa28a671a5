------------------------------- MODULE MCNet -------------------------------
(* Instances of Net: a network without a card, DHCP with a server that loses *)
(* and repeats itself, pings on and off the local network, and traffic.      *)
EXTENDS Net

MCFallback == [ip |-> 15, mask |-> 10, gateway |-> 12, dns |-> 99]
MCPeers == [a \in {12, 14, 21} |-> CASE a = 12 -> "gwMac" [] a = 14 -> "hostMac" [] a = 21 -> "farMac"]
Server(dst, type, for, ip) ==
    Packet("gwMac", IF dst = BroadcastIp THEN BroadcastMac ELSE OurMac, 12, dst, "dhcp",
           Lease(type, for, ip, 12, 10, 0, 99))
Scene(offers, acks, strays, calls, frames, callMax) ==
    [card |-> TRUE, offers |-> offers, acks |-> acks, strays |-> strays, calls |-> calls,
     frames |-> frames, callMax |-> callMax]
Op(op, dst) == [op |-> op, dst |-> dst]
From(mac, ip, dst, proto, body) == Packet(mac, OurMac, ip, dst, proto, body)
Datagram(mac, ip, n) == From(mac, ip, 15, "udp", [kind |-> "udp", port |-> n])

OtherLease == {Server(BroadcastIp, "ACK", "hostMac", 14), Server(BroadcastIp, "OFFER", "hostMac", 14)}
MCScenes == {
    [Scene({}, {}, {}, {Op("ping", 14), Op("recv", 0)}, 0, 1) EXCEPT !.card = FALSE],
    Scene({Server(13, "OFFER", OurMac, 13)},
          {Server(13, "ACK", OurMac, 13), Server(BroadcastIp, "NAK", OurMac, 0)},
          OtherLease, {Op("ping", 21)}, 4, 1),
    Scene({Server(13, "none", OurMac, 13)}, {Server(13, "none", OurMac, 13)},
          OtherLease, {}, 4, 0),
    Scene({Server(13, "OFFER", OurMac, 0)}, {}, {}, {}, 2, 0),
    Scene({Server(13, "OFFER", OurMac, 13), Server(14, "OFFER", OurMac, 14)},
          {Server(13, "ACK", OurMac, 13), Server(13, "ACK", OurMac, 0)}, {}, {}, 4, 0),
    Scene({}, {}, {}, {Op("ping", 14), Op("ping", 21), Op("ping", 0), Op("ping", 15)}, 5, 2),
    Scene({}, {}, {Datagram("hostMac", 14, 1), Datagram("gwMac", 12, 2),
                   Datagram("otherMac", 14, 3), From("farMac", 21, 15, "bad", 0)},
          {Op("recv", 0)}, 5, 2),
    Scene({}, {}, {Arp("request", "hostMac", 14, BroadcastMac, 15),
                   Arp("request", "otherMac", 12, BroadcastMac, 15),
                   From("farMac", 21, 15, "icmp", Echo("request", TRUE, 1)),
                   From("farMac", 21, 15, "icmp", Echo("request", FALSE, 1))},
          {Op("send", 14), Op("send", BroadcastIp)}, 5, 2) }
=============================================================================
