CONSTANTS
    cl1 = cl1
    cl2 = cl2
    s1 = s1
    s2 = s2
    m1 = m1
    m2 = m2
    l1 = l1
    l2 = l2
    f1 = f1
    NoBuffer = NoBuffer
    Clients <- MCClients
    Buffers <- MCBuffers
    Cap <- MCCap
    Sizes <- MCSizes

SPECIFICATION Spec
SYMMETRY Symmetry

INVARIANT GetFits
INVARIANT PooledTierMatches
