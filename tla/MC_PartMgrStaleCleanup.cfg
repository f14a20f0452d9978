\* A released partition re-acquired before the loop cleans it up.
CONSTANTS
    p1 = p1
    p2 = p2
    k1 = k1
    k2 = k2
    k3 = k3
    Parts <- MC_Parts1
    Keys <- MC_Keys1
    PartOf <- MC_PartOf1
    Faults <- NoFaults
    MaxChanges = 3
    MaxRedis = 0
SPECIFICATION Spec
INVARIANTS OwnedPartitionsAggregated
