---------------------------- MODULE PacketBuilder ----------------------------
(***************************************************************************)
(* The probe datagrams sendTraceRouteMessage builds (aenet.cpp) as the     *)
(* bytes that go on the wire, with the #pragma pack(1) layouts of aenet.h  *)
(* on a little-endian host.  htons/htonl fields are written big-endian;    *)
(* the checksums are computed by calculateChecksum over the memory read as *)
(* host (little-endian) words and stored as host shorts.                   *)
(***************************************************************************)
EXTENDS Integers, Sequences

CS == INSTANCE Checksum WITH WordBits <- 16

IPPROTO_ICMP == 1
IPPROTO_UDP == 17
ICMP_TYPE_ECHO == 8
TRACE_ROUTE_BASE_PORT == 48132

U16BE(v) == <<(v \div 256) % 256, v % 256>>
U16LE(v) == <<v % 256, (v \div 256) % 256>>
\* An IPv4 address, held as its two 16-bit halves <<high, low>> (TLC's
\* integers are signed 32-bit), written by htonl.
AddrBE(a) == U16BE(a[1]) \o U16BE(a[2])
U32LE(v) == U16LE(v % 65536) \o U16LE(v \div 65536)

\* Memory read as unsigned shorts: host order, and network order.
HostWords(b) == [k \in 1 .. Len(b) \div 2 |-> b[2 * k - 1] + 256 * b[2 * k]]
NetWords(b) == [k \in 1 .. Len(b) \div 2 |-> 256 * b[2 * k - 1] + b[2 * k]]

\* Seeded fault: the checksum is stored through htons.
IpHeaderChecksumHtons(totalLen, ident, ttl, proto, cks, src, dst) ==
    <<4 * 16 + 5, 0>> \o U16BE(totalLen) \o U16BE(ident) \o <<0, 0>>
        \o <<ttl % 256, proto>> \o U16BE(cks) \o AddrBE(src) \o AddrBE(dst)

\* ip_header with the given checksum: ip_header_len:4 = 5 in the low nibble
\* and ip_version:4 = 4 in the high one, tos 0, frag_and_flags 0; ttl is
\* truncated to the unsigned char field.
IpHeader(totalLen, ident, ttl, proto, cks, src, dst) ==
    <<4 * 16 + 5, 0>> \o U16BE(totalLen) \o U16BE(ident) \o <<0, 0>>
        \o <<ttl % 256, proto>> \o U16LE(cks) \o AddrBE(src) \o AddrBE(dst)

\* The checksum of the IP header, computed with the checksum field 0.
IpChecksum(totalLen, ident, ttl, proto, src, dst) ==
    CS!CalculateChecksum(HostWords(IpHeader(totalLen, ident, ttl, proto, 0, src, dst)))

\* sizeof( ip_header ) + sizeof( udp_header ) + sizeof( int ): 20 + 8 + 4.
UdpProbeLen == 32
UdpLen == UdpProbeLen - 20

\* udp_probe.data = 1234, an unsigned int in host order.
UdpData == U32LE(1234)

UdpPart(sport, dport, cks) ==
    U16BE(sport) \o U16BE(dport) \o U16BE(UdpLen) \o U16LE(cks) \o UdpData

\* pseudo_udp_header: source, destination, zero, IPPROTO_UDP, length.
PseudoHeader(src, dst) == AddrBE(src) \o AddrBE(dst) \o <<0, IPPROTO_UDP>> \o U16BE(UdpLen)

\* calculateChecksum2 over the pseudo-header and udp header + data.
UdpChecksum(src, dst, sport, dport) ==
    CS!CalculateChecksum2(HostWords(PseudoHeader(src, dst)),
                          HostWords(UdpPart(sport, dport, 0)))

\* The UDP probe of sendTraceRouteMessage: ports are (unsigned short).
UdpProbe(traceId, ttl, src, sport, dst, dport) ==
    IpHeader(UdpProbeLen, traceId, ttl, IPPROTO_UDP,
             IpChecksum(UdpProbeLen, traceId, ttl, IPPROTO_UDP, src, dst), src, dst)
    \o UdpPart(sport, dport, UdpChecksum(src, dst, sport, dport))

\* icmp_probe_packet: ip_header, icmp_echo_header, data left 0 by memset.
IcmpProbeLen == 32

EchoHeader(ident, sequence, cks) ==
    <<ICMP_TYPE_ECHO, 0>> \o U16LE(cks) \o U16BE(ident) \o U16BE(sequence)

\* The ICMP checksum covers the 8-byte echo header only.
EchoChecksum(ident, sequence) ==
    CS!CalculateChecksum(HostWords(EchoHeader(ident, sequence, 0)))

IcmpProbe(traceId, ttl, src, dst, dport) ==
    IpHeader(IcmpProbeLen, traceId, ttl, IPPROTO_ICMP,
             IpChecksum(IcmpProbeLen, traceId, ttl, IPPROTO_ICMP, src, dst), src, dst)
    \o EchoHeader(traceId, dport, EchoChecksum(traceId, dport))
    \o <<0, 0, 0, 0>>

\* traceRoute passes target_port + probe_sequence as the unsigned short
\* target_port of sendTraceRouteMessage.
ProbePort(probeSeq) == (TRACE_ROUTE_BASE_PORT + probeSeq) % 65536

\* Seeded fault: the difference is kept as an int, without the cast.
DecodeSeqNoCast(b, offset) ==
    (256 * b[offset + 1] + b[offset + 2]) - TRACE_ROUTE_BASE_PORT

\* The receive path: reply_seq = ntohs( field ) - TRACE_ROUTE_BASE_PORT as
\* an unsigned short, compared with the int probe_sequence.
DecodeSeq(b, offset) ==
    ((256 * b[offset + 1] + b[offset + 2]) - TRACE_ROUTE_BASE_PORT) % 65536
=============================================================================
