CONSTANTS
    c1 = c1
    c2 = c2
    k1 = k1
    v1 = v1
    v2 = v2
    v3 = v3
    Client = {c1, c2}
    NoClient = NoClient
    Key = {k1}
    Value = {Empty, v1, v2, v3}
    Empty = Empty
    Absent = Absent
    Window = 0
    HighWater = 1
    SweepEvery = 2
    Program <- Programs
    SnapEvery = 2
    RecentKept = 0
    SnapshotFails = FALSE
    MaxLag = 0
    MaxLog = 3
SPECIFICATION Spec
INVARIANTS TypeOK ExactlyOnce ReplicasAgree
PROPERTY SteadyAnswer
\* The bounds end every behaviour.
CHECK_DEADLOCK FALSE
