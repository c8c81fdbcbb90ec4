---------------------------- MODULE MCConsensus ----------------------------
(* Instances of Consensus for TLC: who proposes, and which faults happen.  *)
EXTENDS Consensus, TLC

CONSTANTS n1, n2, n3, p1

OneCaller == p1 :> n1

AnyFault == [kind \in Kinds |-> 1]
=============================================================================
