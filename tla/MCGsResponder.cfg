CONSTANTS
    c1 = c1
    t1 = t1
    t2 = t2
    Local = Local
    Remote = Remote
    Chans <- MCChans
    Callers <- MCCallers
    MaxRequests = 3
    MaxDeferred = 2
    SessionCalls = {"pause", "resume", "close", "cleanup", "useStore"}
SYMMETRY CallerSymmetry
SPECIFICATION Spec
INVARIANT TypeOK
INVARIANT KeyMapsAgree
INVARIANT DeferredOnlyWhileCancelled
INVARIANT RunningMeansStarted
