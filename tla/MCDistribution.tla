--------------------------- MODULE MCDistribution ---------------------------
(* Instances of Distribution for TLC.                                      *)
EXTENDS Distribution, TLC

CONSTANTS n1, n2, n3, e1, e2, e3, e4, t1, t2

HomeOf == e1 :> n1 @@ e2 :> n2 @@ e3 :> n3 @@ e4 :> n3
OpenAt3 == [n \in Nodes |-> IF n # n3 THEN {}
                            ELSE {[id |-> t1, eng |-> e3, open |-> TRUE],
                                  [id |-> t2, eng |-> e4, open |-> TRUE]}]

Scenario(times) == [kind \in Kinds |-> IF kind \in DOMAIN times THEN times[kind] ELSE 0]

\* Devices: three at a time; an incomplete list, a failed round; two masters.
\* Deaths: two suspicions and a close; two masters; a real death.
Mixed ==
    {Scenario([device |-> 3]), Scenario([device |-> 2, late |-> 1, quorum |-> 1]),
     Scenario([device |-> 2, master |-> 1]), Scenario([device |-> 1, crash |-> 1]),
     Scenario([suspect |-> 2, close |-> 1]),
     Scenario([suspect |-> 1, close |-> 1, quorum |-> 1, master |-> 1])}

OneCrash == {Scenario([crash |-> 1])}

Symmetric == Permutations(Jobs)
=============================================================================
