----------------------------- MODULE MCTickets -----------------------------
(* Instances of Tickets for TLC: where the engineers work, which faults.   *)
EXTENDS Tickets, TLC

CONSTANTS n1, n2, e1

Together == [e \in Engineers |-> n1]

NoFaults == [kind \in Kinds |-> 0]
OneOfEach == [kind \in Kinds |-> 1]
=============================================================================
