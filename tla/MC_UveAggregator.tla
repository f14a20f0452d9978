------------------------- MODULE MC_UveAggregator -------------------------
(* Model values and fault selections for checking UveAggregator with TLC. *)
EXTENDS UveAggregator

CONSTANTS c1, c2, k1, k2, t1, t2, v1

MC_Colls == {c1, c2}
MC_Keys1 == {k1}
MC_Keys2 == {k1, k2}
MC_Types == {t1, t2}
MC_Vals == {v1}

AllFaults == FaultKinds
NoFaults == {}
ReadFaults == {"read"}
ConsumerFaults == {"consumer"}
FlapFaults == {"flap"}
RedisFaults == {"redis"}
StoreFaults == {"redis", "send"}
============================================================================
