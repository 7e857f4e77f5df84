CONSTANTS
    r1 = r1
    r2 = r2
    r3 = r3
    r4 = r4
    name = name
    A = A
    PTR = PTR
    None = None
    Calls <- MCCalls
    CallKey <- MCCallKey
    MaxRetries = 2
    MaxTTL = 60
    TTLs = {30, 300}

SPECIFICATION Spec
SYMMETRY SameKeySymmetry

INVARIANT ReadsBounded
PROPERTY ResolveRefinement
