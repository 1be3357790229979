\* MLFQ handling an arrival before a completion due at the same instant.
CONSTANTS
    N = 3
    MaxArrival = 2
    MaxLength = 4
    MAX_MLFQ_LEVELS = 3
    ArrivalFirst <- TieMLFQ
SPECIFICATION Spec
INVARIANT FinishExactlyWhenServed
