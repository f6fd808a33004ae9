CONSTANTS
    k1 = k1
    k2 = k2
    v1 = v1
    v2 = v2
    Key = {k1, k2}
    Value = {v1, v2}
    None = None
    Retain = 1
    Faulty = {"store"}
    MaxFailures = 1
    MaxHard = 2
    MaxLen = 3
    MaxRecords = 3
SPECIFICATION Spec
INVARIANTS TypeOK StoreRecovers RaftRecovers
