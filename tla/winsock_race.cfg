\* Two concurrent traceroute calls on a fresh process: winsock_started_up
\* is still false when both enter initialiseWinsock.
CONSTANTS
    s1 = s1
    s2 = s2
    NoOrig = NoOrig
    Sessions <- TwoSessions
    TraceId <- TraceIds
    PingMode <- PingOnly
    Idents <- IdentSet
    Noise <- FewNoise
    NoOrigin <- NoOrig
    Hops = 2
    MaxTTL = 2
    MaxProbes = 3
    ProbeTimeout = 2
    BasePort = 48132
    SeqWidth = 16
    MaxConsecBad = 256
    MaxSeq = 2
    MaxBadRun = 1
    MaxInFlight = 2
    TickZero <- NeverTickZero
SPECIFICATION Spec
INVARIANT WinsockReadyBeforeSocket
CHECK_DEADLOCK FALSE
