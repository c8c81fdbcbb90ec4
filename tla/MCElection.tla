----------------------------- MODULE MCElection -----------------------------
(* Instances of Election for TLC: which faults may happen, and how often.  *)
EXTENDS Election, TLC

Scenario(start, kinds) ==
    [start |-> start, faults |-> [kind \in Kinds |-> IF kind \in kinds THEN 1 ELSE 0]]

\* Three nodes and the faults that a crash can meet; two nodes, the third being
\* down from the start, and all that makes elections overlap.
Mixed ==
    {Scenario({1, 2, 3}, {"crash", "loss"}), Scenario({1, 2, 3}, {"crash", "late"}),
     Scenario({1, 2, 3}, {"suspect"}),
     Scenario({1, 2}, {"crash", "restart"}), Scenario({1, 2}, {"suspect", "loss"}),
     Scenario({2}, {"restart", "suspect"})}

TwoCrashes ==
    {[start |-> Nodes, faults |-> [kind \in Kinds |-> IF kind = "crash" THEN 2 ELSE 0]]}
=============================================================================
