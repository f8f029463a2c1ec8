\* Every TTL 1..33 that traceRoute sends, with edge trace ids, addresses and
\* probe sequences (17404 wraps the port to 0); every sequence of up to 4
\* four-bit words for the checksum routine (the 16-bit code scaled to 4 bits).
CONSTANTS
    TraceIds = {0, 1, 4660, 65535}
    TTLs <- SentTTLs
    Addresses <- EdgeAddresses
    ProbeSeqs = {0, 1, 17403, 17404, 65535}
    MaxLen = 4
SPECIFICATION Spec
INVARIANT ChecksumMatchesReference
INVARIANT ProbesVerifyOnTheWire
INVARIANT CorrelationKeyRoundTrip
