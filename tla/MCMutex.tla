------------------------------ MODULE MCMutex ------------------------------
(* Instances of Mutex for TLC: which nodes raise tickets and which faults. *)
EXTENDS Mutex, TLC

CONSTANTS n1, n2

NoRestart == [n \in Nodes |-> 0]

AnyFault == [timeout |-> 4, loss |-> 1, master |-> 1]

MasterRestarts == [n \in Nodes |-> IF n = n1 THEN 1 ELSE 0]
=============================================================================
