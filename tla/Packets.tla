------------------------------ MODULE Packets -------------------------------
(***************************************************************************)
(* The bytes of a UDP datagram on its way out: the byte order functions of *)
(* std/inet.cpp, the headers and checksums of net/udp.cpp and net/ip.cpp.  *)
(* Memory is a sequence of bytes, and a 16-bit field is stored low byte    *)
(* first, as on this processor.                                            *)
(***************************************************************************)
EXTENDS Integers, SequencesExt

Htons(value) == (value % 256) * 256 + value \div 256

Store16(value) == <<value % 256, value \div 256>>

\* The bytes read through a uint16_t*; an odd last one is left out.
Words(bytes) == [i \in 1 .. Len(bytes) \div 2 |-> bytes[2 * i - 1] + 256 * bytes[2 * i]]

UdpHeader(src_port, dst_port, size, checksum) ==
    Store16(Htons(src_port)) \o Store16(Htons(dst_port)) \o Store16(Htons(size + 8))
    \o Store16(checksum)

UdpPseudoheader(src_ip, dst_ip, size) ==
    src_ip \o dst_ip \o <<0, 17>> \o Store16(Htons(size + 8))

\* Mutant: the carry is cut off.
AddNoCarry(checksum, word) == (checksum + word) % 65536
\* checksum += word, and the carry out of bit 15 is added again.
Add(checksum, word) ==
    LET sum == checksum + word IN IF sum >= 65536 THEN (sum % 65536) + 1 ELSE sum

AddAll(words) ==
    LET checksum[i \in 0 .. Len(words)] ==
            IF i = 0 THEN 0 ELSE Add(checksum[i - 1], words[i])
    IN  checksum[Len(words)]

\* udp::compute_checksum. An odd last byte is added as the upper half of a word.
UdpChecksum(pseudoheader, header, buffer) ==
    LET last == IF Len(buffer) % 2 = 1 THEN <<buffer[Len(buffer)] * 256>> ELSE << >>
    IN  65535 - AddAll(Words(pseudoheader) \o Words(header) \o Words(buffer) \o last)

\* while ((sum >> 16) != 0) sum = (sum & 0xffff) + (sum >> 16)
Fold16[sum \in Nat] ==
    IF sum < 65536 THEN sum ELSE Fold16[(sum % 65536) + sum \div 65536]

\* sum += words[i], for all i
Total(words) ==
    LET sum[i \in 0 .. Len(words)] == IF i = 0 THEN 0 ELSE sum[i - 1] + words[i]
    IN  sum[Len(words)]

\* ip::compute_checksum.
IpChecksum(header) ==
    LET words == Words(header)
    IN  65535 - Fold16[Total([i \in 1 .. Len(words) |-> Htons(words[i])])]

\* Version 4, 5 words, id 0x2626, don't fragment, ttl 128, UDP.
IpHeader(src_ip, dst_ip, size, checksum) ==
    <<69, 0>> \o Store16(Htons(20 + size)) \o Store16(9766) \o Store16(Htons(16384))
    \o <<128, 17>> \o Store16(checksum) \o src_ip \o dst_ip

\* udp::send builds the datagram.
UdpPacket(src_ip, src_port, dst_ip, dst_port, buffer) ==
    LET size   == Len(buffer)
        pseudo == UdpPseudoheader(src_ip, dst_ip, size)
        sum    == UdpChecksum(pseudo, UdpHeader(src_port, dst_port, size, 0), buffer)
    IN  UdpHeader(src_port, dst_port, size, sum) \o buffer

\* ip::send_packet puts its header in front.
IpPacket(src_ip, dst_ip, payload) ==
    LET sum == Htons(IpChecksum(IpHeader(src_ip, dst_ip, Len(payload), 0)))
    IN  IpHeader(src_ip, dst_ip, Len(payload), sum) \o payload
=============================================================================
