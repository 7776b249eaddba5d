--------------------------- MODULE MCPacketFilter ---------------------------
\* Values of the constants of PacketFilter for model checking.
EXTENDS PacketFilter

CONSTANTS bia, own, peer, all, hostip, pdpip, peerip, noip

TwoMacs == {bia, own}

Ip(dst, from, to)  == [dst |-> dst, proto |-> "ip", from |-> from, to |-> to]
Arp(dst, from, to) == [dst |-> dst, proto |-> "arp", from |-> from, to |-> to]
From(src, h) == [src |-> src, dst |-> h.dst, proto |-> h.proto, from |-> h.from, to |-> h.to]

\* A packet for the simulated machine and one for the host.
SomeNet == {From(peer, Ip(bia, peerip, pdpip)), From(peer, Ip(bia, peerip, hostip))}
\* A query of the host.
SomeHost == {Arp(all, hostip, peerip)}
\* A packet to another machine, and one from a machine that has no address yet.
SomeGuest == {Ip(peer, pdpip, peerip), Ip(all, noip, all)}
=============================================================================
