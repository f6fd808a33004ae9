CONSTANTS
    n1 = n1
    n2 = n2
    Node = {n1, n2}
    None = None
    Candidates = {n1, n2}
    Faulty = {}
    Stoppable = {}
    Crashable = {}
    Lossy = FALSE
    MaxTerm = 2
    MaxPos = 0
    MaxInFlight = 1
SPECIFICATION FairSpec
PROPERTY SplitVoteRetried
\* No election starts beyond MaxTerm.
CHECK_DEADLOCK FALSE
