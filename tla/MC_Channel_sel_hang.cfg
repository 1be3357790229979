\* A send select on the unbuffered b that counts a registered receive select
\* as its partner, while that select completes on the buffered a.  Deadlock
\* is not an error here, so that a stop shows as a call that never returns.
CONSTANTS
    s1 = s1
    s2 = s2
    r1 = r1
    r2 = r2
    a = a
    b = b
    NoMsg = NoMsg
    Threads <- SelHangThreads
    Chans <- SelHangChans
    Cap <- SelHangCap
    Script <- SelHangScript
SPECIFICATION Spec
PROPERTY AllCallsReturn
CHECK_DEADLOCK FALSE
