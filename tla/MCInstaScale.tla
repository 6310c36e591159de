----------------------------- MODULE MCInstaScale -----------------------------
(* Instances of InstaScale for TLC.                                        *)
EXTENDS InstaScale, TLC

CONSTANTS small, big, pool1, pool2

(* Every demand is for one machine of each type.                           *)
OneOfEach == [d \in Demands |-> [t \in InstanceTypes |-> 1]]

(* Each strategy without a Secret, and each kind of Secret: with one, the  *)
(* strategy is only read again after the Secret has gone.                  *)
Configurations ==
    {[strategy |-> n, secret |-> "none"] : n \in {"reuse", "duplicate", "other"}}
    \cup {[strategy |-> "duplicate", secret |-> x] : x \in {"noToken", "token"}}

(* OCM's credentials are there, and stay.                                  *)
OnlyPools == {[strategy |-> "reuse", secret |-> "token"]}
=============================================================================
