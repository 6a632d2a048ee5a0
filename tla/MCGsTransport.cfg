CONSTANTS
    c1 = c1
    t1 = t1
    t2 = t2
    Local = Local
    Remote = Remote
    NoCaller = NoCaller
    Chans <- MCChans
    Callers <- MCCallers
    MaxRequests = 3
    SessionCalls = {"open", "cleanup", "shutdown"}
    GsDeliveries = {}
SYMMETRY CallerSymmetry
SPECIFICATION Spec
INVARIANT TypeOK
INVARIANT RunningRequestCancellable
INVARIANT KeyMapsAgree
PROPERTY ImplementsChannelRequests
