------------------------- MODULE MC_PartitionManager -------------------------
(* Instances of PartitionManager for TLC: one or two partitions, one or two *)
(* UVE keys in each.                                                        *)
EXTENDS PartitionManager, TLC

CONSTANTS p1, p2, k1, k2, k3

MC_Parts1 == {p1}
MC_Parts2 == {p1, p2}
MC_Keys1 == {k1, k2}
MC_Keys2 == {k1, k2, k3}
MC_PartOf1 == [k \in MC_Keys1 |-> p1]
MC_PartOf2 == (k1 :> p1) @@ (k2 :> p1) @@ (k3 :> p2)

AllFaults == FaultKinds
NoFaults == {}
RedisFaults == {"redis"}
AcqTimeoutFaults == {"acqtimeout"}
=============================================================================
