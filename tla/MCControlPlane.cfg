\* Two machines; at rest, with every machine up, nothing is left to do.
CONSTANTS
    Node = {1, 2}
    NoNode = NoNode
    v = v
    Visitor = {v}
    Deployments <- MCDeployments
    Job = {j1, j2}
    NoJob = NoJob
SPECIFICATION FairSpec
INVARIANTS TypeOK HealOwned FreshView OneAtATime
PROPERTY Repaired
CHECK_DEADLOCK FALSE
