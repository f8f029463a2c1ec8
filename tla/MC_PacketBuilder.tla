-------------------------- MODULE MC_PacketBuilder --------------------------
(***************************************************************************)
(* Checks the UDP and ICMP probes of sendTraceRouteMessage for every TTL   *)
(* traceRoute sends and a spread of trace ids, addresses and probe         *)
(* sequences, including the ones where the port wraps; and checks the      *)
(* checksum routine itself over every sequence of up to MaxLen words,    *)
(* with the word scaled to four bits (C4) so that all of them fit.        *)
(***************************************************************************)
EXTENDS PacketBuilder

CONSTANTS TraceIds, TTLs, Addresses, ProbeSeqs, MaxLen

C4 == INSTANCE Checksum WITH WordBits <- 4

\* 10.0.0.1 and 255.255.255.255; the TTLs the path loop sends, 1..33.
EdgeAddresses == {<<2560, 1>>, <<65535, 65535>>}
SentTTLs == 1 .. 33

VARIABLES probe, words

Inputs == [traceId : TraceIds, ttl : TTLs, src : Addresses, dst : Addresses,
           seq : ProbeSeqs]

WordInputs == UNION {[1 .. n -> C4!Words] : n \in 0 .. MaxLen}

\* Each initial state is one probe with no words, or one word sequence
\* beside a fixed probe; no step changes either.
Init == \/ probe \in Inputs /\ words = <<>>
        \/ probe = (CHOOSE p \in Inputs : TRUE) /\ words \in WordInputs

Next == UNCHANGED <<probe, words>>

Spec == Init /\ [][Next]_<<probe, words>>

\* calculateChecksum agrees with the one's-complement reference, including
\* the 0 -> 0xffff substitution, for every input: the two folds of the
\* 32-bit accumulator catch every carry.
ChecksumMatchesReference ==
    C4!CalculateChecksum(words) = C4!RefChecksum(words)

Udp == UdpProbe(probe.traceId, probe.ttl, probe.src, TRACE_ROUTE_BASE_PORT,
                probe.dst, ProbePort(probe.seq))
Icmp == IcmpProbe(probe.traceId, probe.ttl, probe.src, probe.dst,
                  ProbePort(probe.seq))

Verifies(ws) == CS!OnesSum(ws) = 65535

\* Every checksum of both probes verifies at a receiver that sums the
\* packet as network-order words: the IP headers, the UDP datagram with its
\* pseudo-header, and the whole ICMP echo message.  The checksums were
\* computed over host-order words and stored as host shorts.
ProbesVerifyOnTheWire ==
    /\ Verifies(NetWords(SubSeq(Udp, 1, 20)))
    /\ Verifies(NetWords(SubSeq(Icmp, 1, 20)))
    /\ Verifies(NetWords(PseudoHeader(probe.src, probe.dst))
                  \o NetWords(SubSeq(Udp, 21, 32)))
    /\ Verifies(NetWords(SubSeq(Icmp, 21, 32)))

\* The sequence the receive path recovers from the probe's UDP destination
\* port and ICMP echo sequence (as embedded in a reply) is the probe_sequence
\* the probe was sent for, the key replies are matched by.
CorrelationKeyRoundTrip ==
    /\ DecodeSeq(Udp, 22) = probe.seq
    /\ DecodeSeq(Icmp, 26) = probe.seq
=============================================================================
