--------------------------- MODULE MCInstanceDemand ---------------------------
(* Instances of InstanceDemand for TLC.                                    *)
EXTENDS InstanceDemand

CONSTANTS small, big, empty
=============================================================================
