\* The buffered, unbuffered and mixed channel scenarios in one model.  The
\* mixed scenario may stop short of its scripts (a try_send can block for
\* good), so deadlock is not an error; in the other two a stop before every
\* call returns violates AllCallsReturn.
CONSTANTS
    s1 = s1
    s2 = s2
    r1 = r1
    r2 = r2
    a = a
    b = b
    NoMsg = NoMsg
SPECIFICATION Spec
INVARIANT TypeOK NoDuplicateDelivery SentIsDelivered NoStaleSelector
PROPERTY AllCallsReturn
CHECK_DEADLOCK FALSE
