CONSTANTS
    c1 = c1
    c2 = c2
    b1 = b1
    b2 = b2
    b3 = b3
    b4 = b4
    NoBuffer = NoBuffer
    Conns <- TwoConns
    Buffers <- MCBuffers
    FrameSizes <- MCFrameSizes
    ResolveSizes <- MCResolveSizes
    MaxQueries = 1
    Capacity = 2
    ServfailSize = 29
    Timeout = 5
    MaxStalls = 0
    MaxDatagrams = 2

SPECIFICATION Spec
SYMMETRY ConnBufferSymmetry

INVARIANT TypeOK
INVARIANT ExclusiveBuffers
INVARIANT JoinBeforeClose
INVARIANT FrameLengthMatches
INVARIANT BuffersWithinAdmission
PROPERTY SharedAdmissionRefinement
