\* Two partitions moved in and out of one instance, with Redis restarts and acquire timeouts.
CONSTANTS
    p1 = p1
    p2 = p2
    k1 = k1
    k2 = k2
    k3 = k3
    Parts <- MC_Parts2
    Keys <- MC_Keys2
    PartOf <- MC_PartOf2
    Faults <- AllFaults
    MaxChanges = 4
    MaxRedis = 1
SPECIFICATION Spec
INVARIANTS TypeOK StoreEpochIsOwners
PROPERTIES ReleaseCompletes
