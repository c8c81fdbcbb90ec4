---------------------------- MODULE MCHeartbeat ----------------------------
(* Instances of Heartbeat for TLC: which faults may happen, and how often. *)
EXTENDS Heartbeat, TLC

Faults ==
    [kind \in Kinds |-> IF kind = "late" THEN 3 ELSE 1]
=============================================================================
