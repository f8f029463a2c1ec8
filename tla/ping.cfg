\* Path discovery, one session, a target two hops away.
CONSTANTS
    s1 = s1
    s2 = s2
    NoOrig = NoOrig
    Sessions <- OneSession
    TraceId <- TraceIds
    PingMode <- PingOnly
    Idents <- IdentSet
    Noise <- NoisePackets
    NoOrigin <- NoOrig
    Hops = 2
    MaxTTL = 2
    MaxProbes = 3
    ProbeTimeout = 2
    BasePort = 48132
    SeqWidth = 16
    MaxConsecBad = 256
    MaxSeq = 5
    MaxBadRun = 1
    MaxInFlight = 2
    TickZero <- NeverTickZero
SPECIFICATION FairSpec
 
INVARIANT ProbeWaitWithinBudget
PROPERTY ResultFromCurrentProbe
CHECK_DEADLOCK FALSE
