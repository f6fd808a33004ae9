CONSTANTS
    n1 = n1
    n2 = n2
    n3 = n3
    Node = {n1, n2, n3}
    None = None
    Faulty = {}
    FaultySnap = {}
    Candidates <- Succeeded
    Crashable = {}
    Appliers = {n1, n2}
    Readers = {}
    Retain = 0
    MaxAppend = 1
    SnapshotEvery = 1
    MaxTerm = 2
    MaxLen = 2
    MaxInFlight = 1
SPECIFICATION Spec
SYMMETRY Symmetry
INVARIANTS StateMachineSafety AppliableHeld SnapshotIsPrefix MatchIsHeld
\* The bounds end every behaviour.
CHECK_DEADLOCK FALSE
