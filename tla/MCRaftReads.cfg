CONSTANTS
    n1 = n1
    n2 = n2
    n3 = n3
    Node = {n1, n2, n3}
    None = None
    Faulty = {n1}
    FaultySnap = {}
    Candidates <- Reelected
    Crashable = {}
    Appliers = {}
    Readers = {n1}
    Retain = 0
    MaxAppend = 1
    SnapshotEvery = 0
    MaxTerm = 3
    MaxLen = 2
    MaxInFlight = 1
SPECIFICATION Spec
SYMMETRY Symmetry
INVARIANTS OwnTermReads LogMatching
PROPERTY RejectionsEnd
\* The bounds end every behaviour.
CHECK_DEADLOCK FALSE
