------------------------------ MODULE MCQuery ------------------------------
(* Instances of Query for TLC: which faults may happen, and how often.     *)
EXTENDS Query, TLC

AnyFault == [kind \in Kinds |-> 1]
=============================================================================
