SPECIFICATION FairSpec
CONSTANTS
    s1 = s1
    s2 = s2
    k1 = k1
    k2 = k2
    k3 = k3
    i1 = i1
    i2 = i2
    Stream <- MCStream
    Socket <- MCSocket
    Ip <- MCIp
    ClientIp <- MCClientIp
    MaxPerIp = 2
    MaxStreams = 1
    MaxSockets = 1
    Crowd = 3
INVARIANTS
    CountsMatch
PROPERTIES
    ClearedSocketsEnd
    ShutdownEnds
