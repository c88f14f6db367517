---------------------------- MODULE MCMultiSource ----------------------------
(* Instances of MultiSource for TLC. *)
EXTENDS MultiSource

MCDevices == {[in |-> 1, out |-> 1], [in |-> 3, out |-> 3]}   \* narrower and wider than the manager
Straight == [s \in Streams |-> s]
MCBlocks == [t \in Threads |-> IF t = "master" THEN {2, 3} ELSE {2}]
MCRoutes == {Straight}
=============================================================================
