----------------------------- MODULE LockTable -----------------------------
(***************************************************************************)
(* What the lock service promises: a table of locks, each with at most one *)
(* owner.  A client enters a lock only when nobody owns it.                *)
(***************************************************************************)
CONSTANTS Locks, Clients

VARIABLE owners

Init == owners = [l \in Locks |-> {}]

Enter(l, c) ==
    /\ owners[l] = {}
    /\ owners' = [owners EXCEPT ![l] = {c}]

Leave(l, c) ==
    /\ c \in owners[l]
    /\ owners' = [owners EXCEPT ![l] = @ \ {c}]

Next == \E l \in Locks, c \in Clients : Enter(l, c) \/ Leave(l, c)

Spec == Init /\ [][Next]_owners
=============================================================================
