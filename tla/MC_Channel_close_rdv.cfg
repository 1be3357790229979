\* A rendezvous sender is the waiting proposer when the channel is closed.
CONSTANTS
    s1 = s1
    s2 = s2
    r1 = r1
    r2 = r2
    a = a
    b = b
    NoMsg = NoMsg
    Threads <- CloseRdvThreads
    Chans <- UnbufChans
    Cap <- UnbufCap
    Script <- CloseRdvScript
SPECIFICATION Spec
INVARIANT SentIsDelivered
