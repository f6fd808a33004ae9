CONSTANTS
    n1 = n1
    n2 = n2
    n3 = n3
    Node = {n1, n2, n3}
    None = None
    Faulty = {}
    FaultySnap = {}
    Candidates <- Succeeded
    Crashable = {}
    Appliers = {}
    Readers = {n2}
    Retain = 0
    MaxAppend = 1
    SnapshotEvery = 0
    MaxTerm = 2
    MaxLen = 1
    MaxInFlight = 1
SPECIFICATION Spec
SYMMETRY Symmetry
INVARIANT ReadsLinearizable
\* The bounds end every behaviour.
CHECK_DEADLOCK FALSE
