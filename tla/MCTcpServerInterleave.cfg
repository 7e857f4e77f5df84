CONSTANTS
    c1 = c1
    c2 = c2
    b1 = b1
    b2 = b2
    b3 = b3
    b4 = b4
    NoBuffer = NoBuffer
    Buffers <- MCBuffers
    ResolveSizes <- MCResolveSizes
    Capacity = 2
    ServfailSize = 29
    Timeout = 5
    MaxStalls = 1
    Conns <- OneConn
    FrameSizes <- MCFrameSizes
    MaxQueries = 2

SPECIFICATION Spec
SYMMETRY BufferSymmetry

INVARIANT ResponsesContiguous
