CONSTANTS
    r1 = r1
    r2 = r2
    ip1 = ip1
    ip2 = ip2
    Reqs <- MCReqs
    Bootstrap <- MCBootstrap
    Hostname = Hostname
    TAddr = TAddr
    TPath = TPath
    NoPath = NoPath
    CallerPath = CallerPath
    None = None
    MaxConns = 2

SPECIFICATION FairSpec

PROPERTY RoundTripReturns
