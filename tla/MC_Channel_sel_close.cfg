\* A select on an unbuffered channel that is closed while it waits.
CONSTANTS
    s1 = s1
    s2 = s2
    r1 = r1
    r2 = r2
    a = a
    b = b
    NoMsg = NoMsg
    Threads <- SelCloseThreads
    Chans <- UnbufChans
    Cap <- UnbufCap
    Script <- SelCloseScript
SPECIFICATION Spec
INVARIANT SelIndexReported
