\* Two keys popped one at a time, two faults that are aggregate-Redis restarts or send_agg_uve cut off by a connection error, reads never fail: consistency when quiet, and convergence.
CONSTANTS
    c1 = c1  c2 = c2  k1 = k1  k2 = k2  t1 = t1  t2 = t2  v1 = v1
    NoVal = NoVal
    Colls <- MC_Colls
    Keys <- MC_Keys2
    Types <- MC_Types
    Vals <- MC_Vals
    Batch = 1
    MaxWrites = 3
    Faults <- StoreFaults
    MaxFaults = 2
SPECIFICATION Spec
INVARIANTS TypeOK StoreMatchesSources
PROPERTIES Converges
