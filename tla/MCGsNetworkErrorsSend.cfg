CONSTANTS
    c1 = c1
    c2 = c2
    c3 = c3
    p1 = p1
    p2 = p2
    Local = Local
    NoOwner = NoOwner
    Chans <- MCChans
    Remotes <- MCRemotes
    Initiator <- MCInitiator
    Responder <- MCResponder
    Dir <- MCDir
    Reentrant = FALSE
SPECIFICATION Spec
INVARIANT SendErrorOnOwnChannel
