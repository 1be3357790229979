\* A sender blocked on a full buffer races a receive and a close.
CONSTANTS
    s1 = s1
    s2 = s2
    r1 = r1
    r2 = r2
    a = a
    b = b
    NoMsg = NoMsg
    Threads <- SendCloseThreads
    Chans <- BufChans
    Cap <- BufCap
    Script <- SendCloseScript
SPECIFICATION Spec
PROPERTY NoSendAfterClose
