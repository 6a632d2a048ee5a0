CONSTANTS
    c1 = c1
    t1 = t1
    t2 = t2
    Local = Local
    Remote = Remote
    NoCaller = NoCaller
    Chans <- MCChans
    Callers <- MCCallers
    MaxRequests = 2
    SessionCalls = {"open", "close", "shutdown"}
    GsDeliveries = {}
SPECIFICATION FairSpec
PROPERTY OpenChannelReturns
