CONSTANTS
    c1 = c1
    c2 = c2
    c3 = c3
    c4 = c4
    t1 = t1
    t2 = t2
    Chans <- MCChans
    Callers <- MCCallers
    ChanType <- MCChanType
    Configured <- MCConfigured
SYMMETRY CallerSymmetry
SPECIFICATION Spec
INVARIANT TrafficMatchesChannel
