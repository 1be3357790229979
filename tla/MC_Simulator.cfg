\* Three jobs, arrivals 0..2, job times 1..4, three MLFQ levels (so a job of
\* length 4 reaches the last level and stays there).
CONSTANTS
    N = 3
    MaxArrival = 2
    MaxLength = 4
    MAX_MLFQ_LEVELS = 3
    ArrivalFirst <- TieEitherWay
SPECIFICATION Spec
INVARIANT TypeOK JobConservation WorkConserving FinishExactlyWhenServed FCFSMatchesReference
          WrappersMatchJobs
PROPERTY AllJobsFinish
