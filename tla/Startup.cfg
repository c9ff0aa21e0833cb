CONSTANTS
    r1 = r1
    r2 = r2
    Replicas <- MCReplicas
    NV = 2
    Envs <- MCEnvs
    MaxFaults = 1
    MaxDowns = 1
SPECIFICATION FairSpec
INVARIANTS
    RecordedApplied
    ServingSchema
    ProdNoStub
PROPERTIES
    EventuallyServes
CHECK_DEADLOCK FALSE
