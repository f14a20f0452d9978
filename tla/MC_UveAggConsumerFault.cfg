\* StoreMatchesSources under Consumer faults only.
CONSTANTS
    c1 = c1  c2 = c2  k1 = k1  k2 = k2  t1 = t1  t2 = t2  v1 = v1
    NoVal = NoVal
    Colls <- MC_Colls
    Keys <- MC_Keys1
    Types <- MC_Types
    Vals <- MC_Vals
    Batch = 1
    MaxWrites = 3
    Faults <- ConsumerFaults
    MaxFaults = 1
SPECIFICATION Spec
INVARIANTS StoreMatchesSources
