----------------------------- MODULE MCStartup ------------------------------
(* Instances of Startup for TLC: a seed of this node.                      *)
EXTENDS Startup, TLC

SmallSeed == [t \in Tables |-> IF t = "INGENIEROS" THEN {1, 2} ELSE {1}]
=============================================================================
