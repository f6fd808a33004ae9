CONSTANTS
    n1 = n1
    n2 = n2
    n3 = n3
    Node = {n1, n2, n3}
    None = None
    Faulty = {}
    FaultySnap = {n2}
    Candidates <- Alone
    Crashable = {n3}
    Appliers = {n1}
    Readers = {}
    Retain = 0
    MaxAppend = 1
    SnapshotEvery = 1
    MaxTerm = 1
    MaxLen = 2
    MaxInFlight = 2
SPECIFICATION Spec
SYMMETRY Symmetry
INVARIANTS MatchIsHeld AppliableHeld
\* The bounds end every behaviour.
CHECK_DEADLOCK FALSE
