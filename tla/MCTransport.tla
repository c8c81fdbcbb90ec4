---------------------------- MODULE MCTransport -----------------------------
(* Instances of Transport for TLC: which faults may happen, and how often. *)
EXTENDS Transport, TLC

OneOfEach == [kind \in Kinds |-> 1]
=============================================================================
