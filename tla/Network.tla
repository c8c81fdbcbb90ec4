------------------------------ MODULE Network -------------------------------
(***************************************************************************)
(* What a sender may rely on when it calls Send: a message that was        *)
(* refused with an error never arrives, one that was accepted is handled   *)
(* once or not at all, in any order.  This is the network of all the other *)
(* modules (Post, Lose, a set of messages); Transport implements it.       *)
(***************************************************************************)
CONSTANT Msgs

VARIABLE status

Init == status = [m \in Msgs |-> "unsent"]

Become(m, from, to) ==
    /\ status[m] = from
    /\ status' = [status EXCEPT ![m] = to]

Accept(m) == Become(m, "unsent", "sent")
Refuse(m) == Become(m, "unsent", "refused")
Handle(m) == Become(m, "sent", "handled")

Next == \E m \in Msgs : Accept(m) \/ Refuse(m) \/ Handle(m)

Spec == Init /\ [][Next]_status
=============================================================================
