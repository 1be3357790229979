\* A try_send on an unbuffered channel while a receiver retries.
CONSTANTS
    s1 = s1
    s2 = s2
    r1 = r1
    r2 = r2
    a = a
    b = b
    NoMsg = NoMsg
    Threads <- TryHangThreads
    Chans <- UnbufChans
    Cap <- UnbufCap
    Script <- TryHangScript
SPECIFICATION Spec
PROPERTY NonBlockingReturns
CHECK_DEADLOCK FALSE
