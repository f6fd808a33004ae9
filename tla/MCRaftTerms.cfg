CONSTANTS
    n1 = n1
    n2 = n2
    n3 = n3
    Node = {n1, n2, n3}
    None = None
    Faulty = {n2, n3}
    FaultySnap = {n2}
    Candidates <- InTurn
    Crashable = {n1}
    Appliers = {n1, n2}
    Readers = {}
    Retain = 0
    MaxAppend = 1
    SnapshotEvery = 1
    MaxTerm = 4
    MaxLen = 1
    MaxInFlight = 1
SPECIFICATION Spec
SYMMETRY Symmetry
INVARIANTS TypeOK  StateMachineSafety
PROPERTY CommittedKept
\* The bounds end every behaviour.
CHECK_DEADLOCK FALSE
