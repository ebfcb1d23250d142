-------------------------------- MODULE Send --------------------------------
(***************************************************************************)
(* kmain after the scan of module Devices: net::init takes the address of  *)
(* the adapter, and UDPSocket::sendto hands datagrams (module Packets)     *)
(* down to net::send, which looks the adapter up in the registry again.    *)
(* Cards go on interrupting. What send_packet does with the frame is in    *)
(* module Pcnet.                                                           *)
(***************************************************************************)
EXTENDS Devices, Packets

CONSTANTS Addresses,    \* addresses set_ip is given
          Peers,        \* <<address, port>> pairs datagrams are sent to
          Ports,        \* ports sockets are bound to
          Buffers       \* payloads

Byte == 0 .. 255
Address == [1 .. 4 -> Byte]

\* A datagram fits the 16 bits of the length of an IP packet.
ASSUME SendAssumption ==
    /\ Addresses \subseteq Address /\ Peers \subseteq Address \X Word
    /\ Ports \subseteq Word
    /\ \A b \in Buffers : b \in Seq(Byte) /\ Len(b) + 28 \in Word

ZeroMac  == 0           \* client_mac before net::init
Broadcast == -2         \* router_mac
None == << >>

VARIABLES client_mac, ip_addr,
          wire          \* the frame handed to an adapter

netVars == <<client_mac, ip_addr, wire>>
vars == <<devVars, netVars>>

SendInit == Init /\ client_mac = ZeroMac /\ ip_addr = <<0, 0, 0, 0>> /\ wire = None

\* net::init.
NetInit ==
    /\ Goto("done", "net")
    /\ LET adapter == FindDeviceByClass(DEVICE_NETWORK)
       IN  client_mac' = IF adapter = 0 THEN client_mac ELSE registry[adapter].mac
    /\ UNCHANGED <<given, at, func, header, registry, unmasked, cards, astray, ip_addr, wire>>

SetIp(ip) ==
    /\ pc = "net" /\ ip_addr' = ip
    /\ UNCHANGED <<devVars, client_mac, wire>>

\* net::send: without an adapter the packet is dropped.
EthernetSend(ether_type, payload) ==
    LET adapter == FindDeviceByClass(DEVICE_NETWORK)
    IN  /\ adapter # 0
        /\ wire' = [by |-> registry[adapter].info, src_mac |-> registry[adapter].mac,
                    dst_mac |-> Broadcast, ether_type |-> Htons(ether_type),
                    payload |-> payload]

\* UDPSocket::sendto, udp::send, ip::send_packet. Nothing but the card remembers
\* a datagram; each behaviour has one (bound).
Sendto(port, peer, buffer) ==
    /\ pc = "net" /\ wire = None
    /\ EthernetSend(2048, IpPacket(ip_addr, peer[1],
                                   UdpPacket(ip_addr, port, peer[1], peer[2], buffer)))
    /\ UNCHANGED <<devVars, client_mac, ip_addr>>

Thread ==
    \/ NetInit
    \/ \E ip \in Addresses : SetIp(ip)
    \/ \E port \in Ports, peer \in Peers, buffer \in Buffers : Sendto(port, peer, buffer)

Next ==
    \/ (Pci \/ Hardware \/ Interrupts) /\ UNCHANGED netVars
    \/ Thread

Spec == SendInit /\ [][Next]_vars /\ DevFairness

----------------------------------------------------------------------------
\* A driver whose uninitialised class reads as that of a network card.
Confused == \E i \in DOMAIN registry :
                registry[i].driver # "PCNET" /\ registry[i].dev_class = DEVICE_NETWORK

\* Both look-ups of the adapter find the first network card of the bus: frames
\* leave through it, under its own address, which is also the one the client
\* tells the DHCP server. An uninitialised class may break this (Confused).
SentByFirstCard ==
    pc = "net" /\ ~Confused =>
        /\ Pcnets = {} => client_mac = ZeroMac /\ wire = None
        /\ \A c \in Pcnets : (\A d \in Pcnets : Place(c) <= Place(d)) =>
              /\ client_mac = machine.cards[c].mac
              /\ wire # None => machine.at[wire.by] = c /\ wire.src_mac = client_mac

\* The checksum test a receiver makes: the big-endian words add up to a
\* multiple of 2^16 - 1. An odd last byte is followed by a zero.
SumBE(bytes) ==
    LET padded == IF Len(bytes) % 2 = 1 THEN Append(bytes, 0) ELSE bytes
    IN  Total([i \in 1 .. Len(padded) \div 2 |-> 256 * padded[2 * i - 1] + padded[2 * i]])
FieldBE(bytes, i) == 256 * bytes[i] + bytes[i + 1]

\* What the receiver of an IP packet checks, and that of a datagram. A UDP
\* checksum of 0 says that there is none. A datagram of odd length verifies only
\* if its last byte is 0: compute_checksum puts that byte into the wrong half of
\* its word.
HeaderAccepted(p) == SumBE(SubSeq(p, 1, 20)) % 65535 = 0 /\ FieldBE(p, 3) = Len(p)
DatagramAccepted(pseudo, udp) ==
    /\ FieldBE(udp, 5) = Len(udp)
    /\ \/ FieldBE(udp, 7) = 0
       \/ Len(udp) % 2 = 1 /\ udp[Len(udp)] # 0
       \/ SumBE(pseudo \o udp) % 65535 = 0
Accepted(p) ==
    LET udp == SubSeq(p, 21, Len(p))
        pseudo == SubSeq(p, 13, 20) \o <<0, p[10]>> \o SubSeq(udp, 5, 6)
    IN  HeaderAccepted(p) /\ DatagramAccepted(pseudo, udp)

\* A receiver accepts every frame, an IP packet (bytes 08 00): both checksums
\* verify (but for the odd bytes above) and both lengths are those of the packet.
FramesVerify == wire # None => wire.ether_type = 8 /\ Accepted(wire.payload)
=============================================================================
