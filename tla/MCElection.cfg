CONSTANTS
    n1 = n1
    n2 = n2
    n3 = n3
    Node = {n1, n2, n3}
    None = None
    Candidates = {n1, n2}
    Faulty = {n3}
    Stoppable = {n3}
    Crashable = {n3}
    Lossy = TRUE
    MaxTerm = 1
    MaxPos = 1
    MaxInFlight = 1
SPECIFICATION Spec
SYMMETRY Symmetry
INVARIANTS TypeOK ElectionSafety VoteKept VotesCounted AskedOnce
PROPERTY ImplementsVoting
