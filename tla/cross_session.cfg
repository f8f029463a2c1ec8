\* Two concurrent ping sessions with distinct trace_ids on one host.
CONSTANTS
    s1 = s1
    s2 = s2
    NoOrig = NoOrig
    Sessions <- TwoSessions
    TraceId <- TraceIds
    PingMode <- PingOnly
    Idents <- IdentSet
    Noise <- FewNoise
    NoOrigin <- NoOrig
    Hops = 2
    MaxTTL = 2
    MaxProbes = 3
    ProbeTimeout = 2
    BasePort = 48132
    SeqWidth = 16
    MaxConsecBad = 256
    MaxSeq = 2
    MaxBadRun = 1
    MaxInFlight = 2
    TickZero <- NeverTickZero
SPECIFICATION Spec
PROPERTY ResultFromCurrentProbe
CHECK_DEADLOCK FALSE
