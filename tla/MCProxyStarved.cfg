CONSTANTS
    c1 = c1
    c2 = c2
    b1 = b1
    b2 = b2
    b3 = b3
    b4 = b4
    NoBuffer = NoBuffer
    Conns <- OneConn
    Buffers <- MCBuffers
    FrameSizes <- MCFrameSizes
    ResolveSizes <- MCResolveSizes
    MaxQueries = 1
    Capacity = 1
    ServfailSize = 29
    Timeout = 5
    MaxStalls = 1
    MaxDatagrams = 1

SPECIFICATION FairSpec

PROPERTY UdpAnswered
CHECK_DEADLOCK FALSE
