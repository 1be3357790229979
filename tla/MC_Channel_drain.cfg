\* A receive after close while a payload is still buffered.
CONSTANTS
    s1 = s1
    s2 = s2
    r1 = r1
    r2 = r2
    a = a
    b = b
    NoMsg = NoMsg
    Threads <- DrainThreads
    Chans <- BufChans
    Cap <- BufCap
    Script <- DrainScript
SPECIFICATION Spec
PROPERTY DrainAfterClose
