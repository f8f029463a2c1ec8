\* Path discovery, one session, a target two hops away, a lossy network.
CONSTANTS
    s1 = s1
    s2 = s2
    NoOrig = NoOrig
    Sessions <- OneSession
    TraceId <- TraceIds
    PingMode <- PathOnly
    Idents <- IdentSet
    Noise <- FewNoise
    NoOrigin <- NoOrig
    Hops = 2
    MaxTTL = 3
    MaxProbes = 3
    ProbeTimeout = 2
    BasePort = 48132
    SeqWidth = 16
    MaxConsecBad = 256
    MaxSeq = 12
    MaxBadRun = 1
    MaxInFlight = 1
    TickZero <- MayTickZero
SPECIFICATION FairSpec
INVARIANT CompletionAtTarget
INVARIANT SocketsHeldWhileTracing
PROPERTY ResultFromCurrentProbe
PROPERTY TraceRefinesHopTrace
PROPERTY PathTraceEnds
CHECK_DEADLOCK FALSE
