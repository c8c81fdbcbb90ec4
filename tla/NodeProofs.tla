----------------------------- MODULE NodeProofs -----------------------------
(***************************************************************************)
(* The theorems about one node: about Transport, its connections, for any  *)
(* finite set of messages, any capacity of the hub's channel and any       *)
(* number of faults; and about Startup, what it keeps on disk, for any     *)
(* seed, any clock and any number of crashes, rows and messages.           *)
(***************************************************************************)
EXTENDS Transport, Startup, FiniteSetTheorems, SequenceTheorems, TLAPS

Placed == \A m \in Msgs : InOnePlace(m)
Connected == \A m \in Msgs : HasConn(m)
CliNeverFails == \A m \in CliMsgs : pc[m] # "failing"
ClosedAreBroken == \A c \in closed : link[c] = "broken"
FewLeaks == Cardinality(Outside) <= Cardinality(Failures)

\* A step of the network from which everything else is abstracted.
NetStep == [Net!Next]_([m \in Msgs |-> Status(m)])

LEMMA SpendType ==
    ASSUME TypeOK, NEW kind \in Kinds, Spend(kind)
    PROVE  budget' \in [Kinds -> Nat]
BY DEF TypeOK, Spend

LEMMA TypeInit == Init => TypeOK
BY BoundsAssumption DEF Init, TypeOK, Pools

LEMMA TypeStep == TypeOK /\ [Next]_vars => TypeOK'
<1> SUFFICES ASSUME TypeOK, [Next]_vars PROVE TypeOK'
  OBVIOUS
<1>1. ASSUME NEW m \in Msgs, get(m) PROVE TypeOK'
  BY <1>1 DEF TypeOK, get, Pool, Pools, Usable
<1>2. ASSUME NEW m \in Msgs, Write(m) PROVE TypeOK'
  BY <1>2 DEF TypeOK, Write, hubVars
<1>3. ASSUME NEW m \in Msgs, Forget(m) PROVE TypeOK'
  BY <1>3 DEF TypeOK, Forget, hubVars, Pools, Pool
<1>4. ASSUME NEW m \in Msgs, Run(m) PROVE TypeOK'
  BY <1>4 DEF TypeOK, Run, sendVars
<1>5. ASSUME NEW c \in Msgs, readLoop(c) PROVE TypeOK'
  BY <1>5 DEF TypeOK, readLoop, hubVars
<1>6. ASSUME NEW c \in Msgs, Serve(c) PROVE TypeOK'
  BY <1>6 DEF TypeOK, Serve, sendVars
<1>7. ASSUME NEW c \in Msgs, readPump(c) PROVE TypeOK'
  BY <1>7 DEF TypeOK, readPump, sendVars
<1>8. ASSUME NEW c \in Msgs, unregister(c) PROVE TypeOK'
  BY <1>8 DEF TypeOK, unregister, sendVars
<1>9. ASSUME NEW c \in Msgs, Cut(c) PROVE TypeOK'
  <2>1. budget' \in [Kinds -> Nat]
    BY <1>9, SpendType DEF Cut, Kinds
  <2> QED
    BY <1>9, <2>1 DEF TypeOK, Cut, sendVars, hubVars
<1>10. ASSUME Crash PROVE TypeOK'
  <2>1. budget' \in [Kinds -> Nat]
    BY <1>10, SpendType DEF Crash, Kinds
  <2> QED
    BY <1>10, <2>1 DEF TypeOK, Crash, sendVars
<1>11. ASSUME Start PROVE TypeOK'
  BY <1>11 DEF TypeOK, Start, sendVars, hubVars
<1>12. ASSUME UNCHANGED vars PROVE TypeOK'
  BY <1>12 DEF TypeOK, vars, sendVars, hubVars
<1> QED
  BY <1>1, <1>2, <1>3, <1>4, <1>5, <1>6, <1>7, <1>8, <1>9, <1>10, <1>11, <1>12 DEF Next

LEMMA PlacedStep == TypeOK /\ Placed /\ Connected /\ [Next]_vars => Placed'
<1> SUFFICES ASSUME TypeOK, Placed, Connected, [Next]_vars, NEW n \in Msgs
             PROVE  InOnePlace(n)'
  BY DEF Placed
<1>0. InOnePlace(n) /\ HasConn(n)
  BY DEF Placed, Connected
<1>1. ASSUME NEW m \in Msgs, get(m) PROVE InOnePlace(n)'
  BY <1>0, <1>1 DEF TypeOK, InOnePlace, get
<1>2. ASSUME NEW m \in Msgs, Write(m) PROVE InOnePlace(n)'
  BY <1>0, <1>2 DEF TypeOK, InOnePlace, Write, hubVars
<1>3. ASSUME NEW m \in Msgs, Forget(m) PROVE InOnePlace(n)'
  BY <1>0, <1>3 DEF TypeOK, InOnePlace, Forget, hubVars
<1>4. ASSUME NEW m \in Msgs, Run(m) PROVE InOnePlace(n)'
  BY <1>0, <1>4 DEF TypeOK, InOnePlace, Run, sendVars
<1>5. ASSUME NEW c \in Msgs, readLoop(c) PROVE InOnePlace(n)'
  BY <1>0, <1>5 DEF TypeOK, InOnePlace, readLoop, hubVars
<1>6. ASSUME NEW c \in Msgs, Serve(c) PROVE InOnePlace(n)'
  BY <1>0, <1>6 DEF TypeOK, InOnePlace, Serve, sendVars
<1>7. ASSUME NEW c \in Msgs, readPump(c) PROVE InOnePlace(n)'
  BY <1>0, <1>7 DEF TypeOK, InOnePlace, readPump, sendVars
<1>8. ASSUME NEW c \in Msgs, unregister(c) PROVE InOnePlace(n)'
  BY <1>0, <1>8 DEF TypeOK, InOnePlace, unregister, sendVars
<1>9. ASSUME NEW c \in Msgs, Cut(c) PROVE InOnePlace(n)'
  BY <1>0, <1>9 DEF TypeOK, InOnePlace, Cut, sendVars, hubVars
<1>10. ASSUME Crash PROVE InOnePlace(n)'
  BY <1>0, <1>10 DEF TypeOK, InOnePlace, Crash, sendVars
<1>11. ASSUME Start PROVE InOnePlace(n)'
  BY <1>0, <1>11 DEF TypeOK, InOnePlace, Start, sendVars, hubVars
<1>12. ASSUME UNCHANGED vars PROVE InOnePlace(n)'
  BY <1>0, <1>12 DEF TypeOK, InOnePlace, vars, sendVars, hubVars
<1> QED
  BY <1>1, <1>2, <1>3, <1>4, <1>5, <1>6, <1>7, <1>8, <1>9, <1>10, <1>11, <1>12 DEF Next

LEMMA ConnectedStep == TypeOK /\ Connected /\ [Next]_vars => Connected'
<1> SUFFICES ASSUME TypeOK, Connected, [Next]_vars, NEW n \in Msgs
             PROVE  HasConn(n)'
  BY DEF Connected
<1>0. HasConn(n)
  BY DEF Connected
<1>1. ASSUME NEW m \in Msgs, get(m) PROVE HasConn(n)'
  BY <1>0, <1>1, MsgsAssumption DEF TypeOK, HasConn, get, Usable, Pool, Pools
<1>2. ASSUME NEW m \in Msgs, Write(m) PROVE HasConn(n)'
  BY <1>0, <1>2 DEF TypeOK, HasConn, Write, hubVars
<1>3. ASSUME NEW m \in Msgs, Forget(m) PROVE HasConn(n)'
  BY <1>0, <1>3 DEF TypeOK, HasConn, Forget, hubVars
<1>4. ASSUME NEW m \in Msgs, Run(m) PROVE HasConn(n)'
  BY <1>0, <1>4 DEF TypeOK, HasConn, Run, sendVars
<1>5. ASSUME NEW c \in Msgs, readLoop(c) PROVE HasConn(n)'
  BY <1>0, <1>5 DEF TypeOK, HasConn, readLoop, hubVars
<1>6. ASSUME NEW c \in Msgs, Serve(c) PROVE HasConn(n)'
  BY <1>0, <1>6 DEF TypeOK, HasConn, Serve, sendVars
<1>7. ASSUME NEW c \in Msgs, readPump(c) PROVE HasConn(n)'
  BY <1>0, <1>7 DEF TypeOK, HasConn, readPump, sendVars
<1>8. ASSUME NEW c \in Msgs, unregister(c) PROVE HasConn(n)'
  BY <1>0, <1>8 DEF TypeOK, HasConn, unregister, sendVars
<1>9. ASSUME NEW c \in Msgs, Cut(c) PROVE HasConn(n)'
  BY <1>0, <1>9 DEF TypeOK, HasConn, Cut, sendVars, hubVars
<1>10. ASSUME Crash PROVE HasConn(n)'
  BY <1>0, <1>10 DEF TypeOK, HasConn, Crash, sendVars
<1>11. ASSUME Start PROVE HasConn(n)'
  BY <1>0, <1>11 DEF TypeOK, HasConn, Start, sendVars, hubVars
<1>12. ASSUME UNCHANGED vars PROVE HasConn(n)'
  BY <1>0, <1>12 DEF TypeOK, HasConn, vars, sendVars, hubVars
<1> QED
  BY <1>1, <1>2, <1>3, <1>4, <1>5, <1>6, <1>7, <1>8, <1>9, <1>10, <1>11, <1>12 DEF Next

LEMMA CliStep == TypeOK /\ CliNeverFails /\ [Next]_vars => CliNeverFails'
<1> SUFFICES ASSUME TypeOK, CliNeverFails, [Next]_vars, NEW n \in CliMsgs
             PROVE  pc'[n] # "failing"
  BY DEF CliNeverFails
<1> n \in Msgs
  BY MsgsAssumption
<1>0. pc[n] # "failing"
  BY DEF CliNeverFails
<1>1. ASSUME NEW m \in Msgs, get(m) PROVE pc'[n] # "failing"
  BY <1>0, <1>1 DEF TypeOK, get
<1>2. ASSUME NEW m \in Msgs, Write(m) PROVE pc'[n] # "failing"
  BY <1>0, <1>2 DEF TypeOK, Write, Pool
<1>3. ASSUME NEW m \in Msgs, Forget(m) PROVE pc'[n] # "failing"
  BY <1>0, <1>3 DEF TypeOK, Forget, hubVars
<1>4. ASSUME NEW m \in Msgs, Run(m) PROVE pc'[n] # "failing"
  BY <1>0, <1>4 DEF TypeOK, Run, sendVars
<1>5. ASSUME NEW c \in Msgs, readLoop(c) PROVE pc'[n] # "failing"
  BY <1>0, <1>5 DEF TypeOK, readLoop, hubVars
<1>6. ASSUME NEW c \in Msgs, Serve(c) PROVE pc'[n] # "failing"
  BY <1>0, <1>6 DEF TypeOK, Serve, sendVars
<1>7. ASSUME NEW c \in Msgs, readPump(c) PROVE pc'[n] # "failing"
  BY <1>0, <1>7 DEF TypeOK, readPump, sendVars
<1>8. ASSUME NEW c \in Msgs, unregister(c) PROVE pc'[n] # "failing"
  BY <1>0, <1>8 DEF TypeOK, unregister, sendVars
<1>9. ASSUME NEW c \in Msgs, Cut(c) PROVE pc'[n] # "failing"
  BY <1>0, <1>9 DEF TypeOK, Cut, sendVars, hubVars
<1>10. ASSUME Crash PROVE pc'[n] # "failing"
  BY <1>0, <1>10 DEF TypeOK, Crash, sendVars
<1>11. ASSUME Start PROVE pc'[n] # "failing"
  BY <1>0, <1>11 DEF TypeOK, Start, sendVars, hubVars
<1>12. ASSUME UNCHANGED vars PROVE pc'[n] # "failing"
  BY <1>0, <1>12 DEF TypeOK, vars, sendVars, hubVars
<1> QED
  BY <1>1, <1>2, <1>3, <1>4, <1>5, <1>6, <1>7, <1>8, <1>9, <1>10, <1>11, <1>12 DEF Next

LEMMA ClosedStep == TypeOK /\ Connected /\ ClosedAreBroken /\ [Next]_vars => ClosedAreBroken'
<1> SUFFICES ASSUME TypeOK, Connected, ClosedAreBroken, [Next]_vars
             PROVE  ClosedAreBroken'
  OBVIOUS
<1>1. ASSUME NEW m \in Msgs, get(m) PROVE ClosedAreBroken'
  BY <1>1 DEF TypeOK, ClosedAreBroken, Connected, HasConn, get
<1>2. ASSUME NEW m \in Msgs, Write(m) PROVE ClosedAreBroken'
  BY <1>2 DEF TypeOK, ClosedAreBroken, Write, hubVars
<1>3. ASSUME NEW m \in Msgs, Forget(m) PROVE ClosedAreBroken'
  BY <1>3 DEF TypeOK, ClosedAreBroken, Forget, hubVars
<1>4. ASSUME NEW m \in Msgs, Run(m) PROVE ClosedAreBroken'
  BY <1>4 DEF TypeOK, ClosedAreBroken, Run, sendVars
<1>5. ASSUME NEW c \in Msgs, readLoop(c) PROVE ClosedAreBroken'
  BY <1>5 DEF TypeOK, ClosedAreBroken, readLoop, hubVars
<1>6. ASSUME NEW c \in Msgs, Serve(c) PROVE ClosedAreBroken'
  BY <1>6 DEF TypeOK, ClosedAreBroken, Serve, sendVars
<1>7. ASSUME NEW c \in Msgs, readPump(c) PROVE ClosedAreBroken'
  BY <1>7 DEF TypeOK, ClosedAreBroken, readPump, sendVars
<1>8. ASSUME NEW c \in Msgs, unregister(c) PROVE ClosedAreBroken'
  BY <1>8 DEF TypeOK, ClosedAreBroken, unregister, sendVars
<1>9. ASSUME NEW c \in Msgs, Cut(c) PROVE ClosedAreBroken'
  BY <1>9 DEF TypeOK, ClosedAreBroken, Cut, sendVars, hubVars
<1>10. ASSUME Crash PROVE ClosedAreBroken'
  BY <1>10 DEF TypeOK, ClosedAreBroken, Crash, sendVars
<1>11. ASSUME Start PROVE ClosedAreBroken'
  BY <1>11 DEF TypeOK, ClosedAreBroken, Start, sendVars, hubVars
<1>12. ASSUME UNCHANGED vars PROVE ClosedAreBroken'
  BY <1>12 DEF TypeOK, ClosedAreBroken, vars, sendVars, hubVars
<1> QED
  BY <1>1, <1>2, <1>3, <1>4, <1>5, <1>6, <1>7, <1>8, <1>9, <1>10, <1>11, <1>12 DEF Next

LEMMA Finite ==
    ASSUME NEW S \in SUBSET Msgs
    PROVE  IsFiniteSet(S) /\ Cardinality(S) \in Nat
BY MsgsAssumption, FS_Subset, FS_CardinalityType

\* One connection more is left behind by one failure more, at most.
LEMMA OneMore ==
    ASSUME NEW S \in SUBSET Msgs, NEW T \in SUBSET Msgs, NEW R \in SUBSET Msgs,
           NEW x, NEW m \in Msgs, m \notin R, T \subseteq S \cup {x},
           Cardinality(S) <= Cardinality(R)
    PROVE  Cardinality(T) <= Cardinality(R \cup {m})
<1>1. IsFiniteSet(S) /\ IsFiniteSet(R) /\ Cardinality(S) \in Nat /\ Cardinality(R) \in Nat
  BY Finite
<1>2. /\ IsFiniteSet(S \cup {x})
      /\ Cardinality(S \cup {x}) = IF x \in S THEN Cardinality(S) ELSE Cardinality(S) + 1
  BY <1>1, FS_AddElement
<1>3. Cardinality(R \cup {m}) = Cardinality(R) + 1
  BY <1>1, FS_AddElement
<1>4. Cardinality(T) <= Cardinality(S \cup {x})
  BY <1>2, FS_Subset
<1>5. Cardinality(T) \in Nat
  BY Finite
<1> QED
  BY <1>1, <1>2, <1>3, <1>4, <1>5

LEMMA OutsideStep ==
    ASSUME TypeOK, Connected, ClosedAreBroken, [Next]_vars,
           \A m \in Msgs : ~Forget(m)
    PROVE  Outside' \subseteq Outside
<1>1. ASSUME NEW m \in Msgs, get(m) PROVE Outside' \subseteq Outside
  <2>1. conns["sender"] \notin Msgs \/ link[conns["sender"]] # "open" \/ conns'["sender"] = conns["sender"]
    BY <1>1, MsgsAssumption DEF TypeOK, Pools, Pool, Usable, get, ClosedAreBroken
  <2>2. \A c \in Msgs : link'[c] = link[c] \/ c = m
    BY <1>1 DEF TypeOK, get
  <2>3. CASE UNCHANGED <<conns, link>>
    BY <2>3 DEF Outside
  <2>4. CASE ~Usable(conns[Pool(m)]) /\ conns' = [conns EXCEPT ![Pool(m)] = m]
    <3>1. m \notin CliMsgs => conns'["sender"] = m
      BY <2>4 DEF TypeOK, Pool, Pools
    <3> QED
      BY <2>1, <2>2, <2>4, <3>1 DEF Outside
  <2> QED
    BY <1>1, <2>3, <2>4 DEF get
<1>2. ASSUME NEW m \in Msgs, Write(m) PROVE Outside' \subseteq Outside
  BY <1>2 DEF TypeOK, Outside, Write, hubVars
<1>3. ASSUME NEW m \in Msgs, Forget(m) PROVE Outside' \subseteq Outside
  BY <1>3
<1>4. ASSUME NEW m \in Msgs, Run(m) PROVE Outside' \subseteq Outside
  BY <1>4 DEF TypeOK, Outside, Run, sendVars
<1>5. ASSUME NEW c \in Msgs, readLoop(c) PROVE Outside' \subseteq Outside
  BY <1>5 DEF TypeOK, Outside, readLoop, hubVars
<1>6. ASSUME NEW c \in Msgs, Serve(c) PROVE Outside' \subseteq Outside
  BY <1>6 DEF TypeOK, Outside, Serve, sendVars
<1>7. ASSUME NEW c \in Msgs, readPump(c) PROVE Outside' \subseteq Outside
  BY <1>7 DEF TypeOK, Outside, readPump, sendVars
<1>8. ASSUME NEW c \in Msgs, unregister(c) PROVE Outside' \subseteq Outside
  BY <1>8 DEF TypeOK, Outside, unregister, sendVars
<1>9. ASSUME NEW c \in Msgs, Cut(c) PROVE Outside' \subseteq Outside
  BY <1>9 DEF TypeOK, Outside, Cut, sendVars, hubVars
<1>10. ASSUME Crash PROVE Outside' \subseteq Outside
  BY <1>10 DEF TypeOK, Outside, Crash, sendVars
<1>11. ASSUME Start PROVE Outside' \subseteq Outside
  BY <1>11 DEF TypeOK, Outside, Start, sendVars, hubVars
<1>12. ASSUME UNCHANGED vars PROVE Outside' \subseteq Outside
  BY <1>12 DEF TypeOK, Outside, vars, sendVars, hubVars
<1> QED
  BY <1>1, <1>2, <1>3, <1>4, <1>5, <1>6, <1>7, <1>8, <1>9, <1>10, <1>11, <1>12 DEF Next

LEMMA FailuresStep ==
    ASSUME TypeOK, [Next]_vars
    PROVE  Failures \subseteq Failures'
<1>1. ASSUME NEW m \in Msgs, get(m) PROVE Failures \subseteq Failures'
  BY <1>1 DEF TypeOK, Failures, get
<1>2. ASSUME NEW m \in Msgs, Write(m) PROVE Failures \subseteq Failures'
  BY <1>2 DEF TypeOK, Failures, Write, hubVars
<1>3. ASSUME NEW m \in Msgs, Forget(m) PROVE Failures \subseteq Failures'
  BY <1>3 DEF TypeOK, Failures, Forget, hubVars
<1>4. ASSUME NEW m \in Msgs, Run(m) PROVE Failures \subseteq Failures'
  BY <1>4 DEF TypeOK, Failures, Run, sendVars
<1>5. ASSUME NEW c \in Msgs, readLoop(c) PROVE Failures \subseteq Failures'
  BY <1>5 DEF TypeOK, Failures, readLoop, hubVars
<1>6. ASSUME NEW c \in Msgs, Serve(c) PROVE Failures \subseteq Failures'
  BY <1>6 DEF TypeOK, Failures, Serve, sendVars
<1>7. ASSUME NEW c \in Msgs, readPump(c) PROVE Failures \subseteq Failures'
  BY <1>7 DEF TypeOK, Failures, readPump, sendVars
<1>8. ASSUME NEW c \in Msgs, unregister(c) PROVE Failures \subseteq Failures'
  BY <1>8 DEF TypeOK, Failures, unregister, sendVars
<1>9. ASSUME NEW c \in Msgs, Cut(c) PROVE Failures \subseteq Failures'
  BY <1>9 DEF TypeOK, Failures, Cut, sendVars, hubVars
<1>10. ASSUME Crash PROVE Failures \subseteq Failures'
  BY <1>10 DEF TypeOK, Failures, Crash, sendVars
<1>11. ASSUME Start PROVE Failures \subseteq Failures'
  BY <1>11 DEF TypeOK, Failures, Start, sendVars, hubVars
<1>12. ASSUME UNCHANGED vars PROVE Failures \subseteq Failures'
  BY <1>12 DEF TypeOK, Failures, vars, sendVars, hubVars
<1> QED
  BY <1>1, <1>2, <1>3, <1>4, <1>5, <1>6, <1>7, <1>8, <1>9, <1>10, <1>11, <1>12 DEF Next

LEMMA LeaksStep ==
    TypeOK /\ Connected /\ CliNeverFails /\ ClosedAreBroken /\ FewLeaks /\ [Next]_vars
        => FewLeaks'
<1> SUFFICES ASSUME TypeOK, Connected, CliNeverFails, ClosedAreBroken, FewLeaks, [Next]_vars
             PROVE  FewLeaks'
  OBVIOUS
<1>0. /\ Outside \subseteq Msgs /\ Failures \subseteq Msgs
      /\ Outside' \subseteq Msgs /\ Failures' \subseteq Msgs
  BY DEF Outside, Failures
<1>1. CASE \A m \in Msgs : ~Forget(m)
  <2>1. Cardinality(Outside') <= Cardinality(Outside)
    BY <1>0, <1>1, OutsideStep, Finite, FS_Subset
  <2>2. Cardinality(Failures) <= Cardinality(Failures')
    BY <1>0, FailuresStep, Finite, FS_Subset
  <2>3. /\ Cardinality(Outside) \in Nat /\ Cardinality(Outside') \in Nat
        /\ Cardinality(Failures) \in Nat /\ Cardinality(Failures') \in Nat
    BY <1>0, Finite
  <2> QED
    BY <2>1, <2>2, <2>3 DEF FewLeaks
<1>2. CASE \E m \in Msgs : Forget(m)
  <2>1. PICK m \in Msgs : Forget(m)
    BY <1>2
  <2>2. Outside' \subseteq Outside \cup {conns["sender"]}
    BY <2>1 DEF Outside, Forget
  <2>3. m \notin Failures
    BY <2>1 DEF Failures, Forget
  <2>4. using[m] # NoConn
    BY <2>1, MsgsAssumption DEF Connected, HasConn, Forget
  <2>5. Failures' = Failures \cup {m}
    BY <2>1, <2>4 DEF TypeOK, Failures, Forget
  <2>6. Cardinality(Outside') <= Cardinality(Failures \cup {m})
    BY <1>0, <2>2, <2>3, OneMore DEF FewLeaks
  <2> QED
    BY <2>5, <2>6 DEF FewLeaks
<1> QED
  BY <1>1, <1>2

-----------------------------------------------------------------------------
(* The refinement.                                                         *)

LEMMA StatusStays ==
    ASSUME NEW n \in Msgs, handled'[n] = handled[n], pc'[n] = pc[n]
    PROVE  Status(n)' = Status(n)
BY DEF Status

\* A step that changes the status of at most one message is one of Network's.
LEMMA OneStatus ==
    ASSUME NEW m \in Msgs,
           \A n \in Msgs \ {m} : Status(n)' = Status(n),
           \/ Status(m)' = Status(m)
           \/ Status(m) = "unsent" /\ Status(m)' \in {"sent", "refused"}
           \/ Status(m) = "sent" /\ Status(m)' = "handled"
    PROVE  NetStep
<1> DEFINE f == [n \in Msgs |-> Status(n)]
           g == [n \in Msgs |-> Status(n)']
<1>1. f' = g
  OBVIOUS
<1>2. CASE Status(m)' = Status(m)
  <2>1. g = f
    BY <1>2
  <2> QED
    BY <1>1, <2>1 DEF NetStep
<1>3. ASSUME NEW to, Status(m)' = to PROVE g = [f EXCEPT ![m] = to]
  BY <1>3
<1>4. CASE Status(m) = "unsent" /\ Status(m)' = "sent"
  BY <1>1, <1>3, <1>4 DEF NetStep, Net!Next, Net!Accept, Net!Become
<1>5. CASE Status(m) = "unsent" /\ Status(m)' = "refused"
  BY <1>1, <1>3, <1>5 DEF NetStep, Net!Next, Net!Refuse, Net!Become
<1>6. CASE Status(m) = "sent" /\ Status(m)' = "handled"
  BY <1>1, <1>3, <1>6 DEF NetStep, Net!Next, Net!Handle, Net!Become
<1> QED
  BY <1>2, <1>4, <1>5, <1>6

LEMMA NoStatus ==
    ASSUME \A n \in Msgs : Status(n)' = Status(n)
    PROVE  NetStep
<1>1. [n \in Msgs |-> Status(n)]' = [n \in Msgs |-> Status(n)]
  OBVIOUS
<1> QED
  BY <1>1 DEF NetStep

LEMMA StepRefines == TypeOK /\ Placed /\ [Next]_vars => NetStep
<1> SUFFICES ASSUME TypeOK, Placed, [Next]_vars PROVE NetStep
  OBVIOUS
<1>0. \A n \in Msgs : handled[n] \in {0, 1} /\ (handled[n] = 1 => pc[n] = "sent")
  BY DEF TypeOK, Placed, InOnePlace
<1>1. ASSUME NEW m \in Msgs, get(m) PROVE NetStep
  <2>1. handled' = handled /\ \A n \in Msgs \ {m} : pc'[n] = pc[n]
    BY <1>1 DEF TypeOK, get
  <2>2. \A n \in Msgs \ {m} : Status(n)' = Status(n)
    BY <2>1, StatusStays
  <2>3. Status(m) = "unsent" /\ Status(m)' \in {"unsent", "refused"}
    BY <1>0, <1>1, <2>1 DEF TypeOK, Status, get
  <2> QED
    BY <2>2, <2>3, OneStatus
<1>2. ASSUME NEW m \in Msgs, Write(m) PROVE NetStep
  <2>1. handled' = handled /\ \A n \in Msgs \ {m} : pc'[n] = pc[n]
    BY <1>2 DEF TypeOK, Write, hubVars
  <2>2. \A n \in Msgs \ {m} : Status(n)' = Status(n)
    BY <2>1, StatusStays
  <2>3. Status(m) = "unsent" /\ Status(m)' \in {"sent", "refused"}
    BY <1>0, <1>2, <2>1 DEF TypeOK, Status, Write
  <2> QED
    BY <2>2, <2>3, OneStatus
<1>3. ASSUME NEW m \in Msgs, Forget(m) PROVE NetStep
  <2>1. handled' = handled /\ \A n \in Msgs \ {m} : pc'[n] = pc[n]
    BY <1>3 DEF TypeOK, Forget, hubVars
  <2>2. \A n \in Msgs \ {m} : Status(n)' = Status(n)
    BY <2>1, StatusStays
  <2>3. Status(m) = "refused" /\ Status(m)' = "refused"
    BY <1>0, <1>3, <2>1 DEF TypeOK, Status, Forget
  <2> QED
    BY <2>2, <2>3, OneStatus
<1>4. ASSUME NEW m \in Msgs, Run(m) PROVE NetStep
  <2>1. pc' = pc /\ \A n \in Msgs \ {m} : handled'[n] = handled[n]
    BY <1>4 DEF TypeOK, Run, sendVars
  <2>2. \A n \in Msgs \ {m} : Status(n)' = Status(n)
    BY <2>1, StatusStays
  <2>3. pc[m] = "sent" /\ handled[m] = 0 /\ handled'[m] = 1
    BY <1>4 DEF TypeOK, Run, Placed, InOnePlace
  <2>4. Status(m) = "sent" /\ Status(m)' = "handled"
    BY <2>1, <2>3 DEF Status
  <2> QED
    BY <2>2, <2>4, OneStatus
<1>5. ASSUME NEW c \in Msgs, readLoop(c) PROVE NetStep
  <2>1. handled' = handled /\ pc' = pc
    BY <1>5 DEF readLoop, hubVars
  <2> QED
    BY <2>1, StatusStays, NoStatus
<1>6. ASSUME NEW c \in Msgs, Serve(c) PROVE NetStep
  <2>1. handled' = handled /\ pc' = pc
    BY <1>6 DEF Serve, sendVars
  <2> QED
    BY <2>1, StatusStays, NoStatus
<1>7. ASSUME NEW c \in Msgs, readPump(c) PROVE NetStep
  <2>1. handled' = handled /\ pc' = pc
    BY <1>7 DEF readPump, sendVars
  <2> QED
    BY <2>1, StatusStays, NoStatus
<1>8. ASSUME NEW c \in Msgs, unregister(c) PROVE NetStep
  <2>1. handled' = handled /\ pc' = pc
    BY <1>8 DEF unregister, sendVars
  <2> QED
    BY <2>1, StatusStays, NoStatus
<1>9. ASSUME NEW c \in Msgs, Cut(c) PROVE NetStep
  <2>1. handled' = handled /\ pc' = pc
    BY <1>9 DEF Cut, sendVars, hubVars
  <2> QED
    BY <2>1, StatusStays, NoStatus
<1>10. ASSUME Crash PROVE NetStep
  <2>1. handled' = handled /\ pc' = pc
    BY <1>10 DEF Crash, sendVars
  <2> QED
    BY <2>1, StatusStays, NoStatus
<1>11. ASSUME Start PROVE NetStep
  <2>1. handled' = handled /\ pc' = pc
    BY <1>11 DEF Start, sendVars, hubVars
  <2> QED
    BY <2>1, StatusStays, NoStatus
<1>12. ASSUME UNCHANGED vars PROVE NetStep
  <2>1. handled' = handled /\ pc' = pc
    BY <1>12 DEF vars, sendVars, hubVars
  <2> QED
    BY <2>1, StatusStays, NoStatus
<1> QED
  BY <1>1, <1>2, <1>3, <1>4, <1>5, <1>6, <1>7, <1>8, <1>9, <1>10, <1>11, <1>12 DEF Next

-----------------------------------------------------------------------------
(* The theorems.                                                           *)

LEMMA InitIInv == Init => IInv
<1> SUFFICES ASSUME Init PROVE IInv
  OBVIOUS
<1>1. TypeOK
  BY TypeInit
<1>2. \A m \in Msgs : InOnePlace(m) /\ HasConn(m)
  BY DEF Init, InOnePlace, HasConn
<1>3. \A m \in CliMsgs : pc[m] # "failing"
  BY MsgsAssumption DEF Init
<1>4. \A c \in closed : link[c] = "broken"
  BY DEF Init
<1>5. Outside = {} /\ Failures = {}
  BY DEF Init, Outside, Failures
<1>6. Cardinality(Outside) <= Cardinality(Failures)
  BY <1>5, FS_EmptySet
<1> QED
  BY <1>1, <1>2, <1>3, <1>4, <1>6 DEF IInv

LEMMA Parts == IInv <=> /\ TypeOK /\ Placed /\ Connected /\ CliNeverFails
                        /\ ClosedAreBroken /\ FewLeaks
BY DEF IInv, Placed, Connected, CliNeverFails, ClosedAreBroken, FewLeaks

LEMMA PartsNext == IInv' <=> /\ TypeOK' /\ Placed' /\ Connected' /\ CliNeverFails'
                             /\ ClosedAreBroken' /\ FewLeaks'
BY DEF IInv, Placed, Connected, CliNeverFails, ClosedAreBroken, FewLeaks

LEMMA StepIInv == IInv /\ [Next]_vars => IInv'
BY Parts, PartsNext, TypeStep, PlacedStep, ConnectedStep, CliStep, ClosedStep, LeaksStep

\* The inductive invariant of sender.go, tcpclient.go and hub.go.
THEOREM Invariance == Spec => []IInv
BY InitIInv, StepIInv, PTL DEF Spec

\* Every variable of the pools and the hub has its type.
THEOREM TypeCorrectness == Spec => []TypeOK
<1>1. IInv => TypeOK
  BY DEF IInv
<1> QED
  BY <1>1, Invariance, PTL

\* Every live connection that nobody uses and the pool has forgotten costs a
\* failed write (sender.go:79): a pool leaks no more of them than sends fail.
THEOREM LeaksAreRare == Spec => []LeaksAreFailures
<1>1. IInv => LeaksAreFailures
  <2> SUFFICES ASSUME IInv PROVE LeaksAreFailures
    OBVIOUS
  <2>1. /\ Leaked \subseteq Outside /\ Leaked \subseteq Msgs
        /\ Outside \subseteq Msgs /\ Failures \subseteq Msgs
    BY DEF Leaked, Outside, Failures
  <2>2. Cardinality(Leaked) <= Cardinality(Outside)
    BY <2>1, Finite, FS_Subset
  <2>3. /\ Cardinality(Leaked) \in Nat /\ Cardinality(Outside) \in Nat
        /\ Cardinality(Failures) \in Nat
    BY <2>1, Finite
  <2>4. Cardinality(Outside) <= Cardinality(Failures)
    BY DEF IInv
  <2> QED
    BY <2>2, <2>3, <2>4 DEF LeaksAreFailures
<1> QED
  BY <1>1, Invariance, PTL

\* The pools, the connections and the hub are a Network, whatever breaks: what
\* Send refused is never dispatched, what it accepted is dispatched at most once.
THEOREM Refinement == Spec => ImplementsNetwork
<1>1. Init => Net!Init
  BY DEF Init, Net!Init, Status
<1>2. IInv /\ [Next]_vars => [Net!Next]_([m \in Msgs |-> Status(m)])
  BY Parts, StepRefines DEF NetStep
<1> QED
  BY <1>1, <1>2, Invariance, PTL DEF Spec, ImplementsNetwork, Net!Spec

-----------------------------------------------------------------------------
(* Startup.                                                                *)

LEMMA LargestSeed == Max(AllSeeds) \in Nat /\ \A s \in AllSeeds : s <= Max(AllSeeds)
<1>1. PICK last \in AllSeeds : \A s \in AllSeeds : s <= last
  BY SeedsAssumption
<1>2. AllSeeds \subseteq Nat
  BY SeedsAssumption DEF AllSeeds
<1>3. \A s \in AllSeeds : last >= s
  BY <1>1, <1>2
<1>4. Max(AllSeeds) \in AllSeeds /\ \A s \in AllSeeds : Max(AllSeeds) >= s
  BY <1>3 DEF Max
<1> QED
  BY <1>2, <1>4

\* What is kept of a list that grew too long.
LEMMA LastOfProperties ==
    ASSUME NEW S, NEW s \in Seq(S), NEW n \in Nat, NEW t, t = LastOf(s, n)
    PROVE  /\ t \in Seq(S)
           /\ Len(t) = IF Len(s) > n THEN n ELSE Len(s)
           /\ Len(s) - Len(t) \in Nat
           /\ \A i \in 1..Len(t) : t[i] = s[i + (Len(s) - Len(t))]
<1>0. Len(s) \in Nat /\ s \in [1..Len(s) -> S]
  BY LenProperties
<1>1. CASE Len(s) > n
  <2> DEFINE m == Len(s) - n + 1
  <2>1. m \in Int /\ m >= 1 /\ \A i \in m..Len(s) : s[i] \in S
    BY <1>0, <1>1
  <2>2. /\ SubSeq(s, m, Len(s)) \in Seq(S)
        /\ Len(SubSeq(s, m, Len(s))) = IF m <= Len(s) THEN Len(s) - m + 1 ELSE 0
        /\ \A i \in 1..(Len(s) - m + 1) : SubSeq(s, m, Len(s))[i] = s[m + i - 1]
    <3> HIDE DEF m
    <3> QED
      BY <1>0, <2>1, SubSeqProperties
  <2>3. t = SubSeq(s, m, Len(s))
    BY <1>1 DEF LastOf
  <2>4. Len(t) = n
    BY <1>0, <2>2, <2>3
  <2>5. \A i \in 1..n : t[i] = s[i + (Len(s) - n)]
    BY <1>0, <2>2, <2>3
  <2>6. t \in Seq(S)
    BY <2>2, <2>3
  <2>7. Len(s) - Len(t) = Len(s) - n /\ Len(s) - n \in Nat
    BY <1>0, <1>1, <2>4
  <2> QED
    BY <1>1, <2>4, <2>5, <2>6, <2>7
<1>2. CASE ~(Len(s) > n)
  BY <1>0, <1>2 DEF LastOf
<1> QED
  BY <1>1, <1>2

\* A message that is saved becomes a line of its own, or is glued to one that
\* cannot be read; no line that is too long becomes shorter.
Grown(f, line, g) ==
    /\ g \in Seq(Lines) /\ Len(f) <= Len(g)
    /\ \A i \in 1..Len(g) : g[i] \in Saves =>
          (i \in 1..Len(f) /\ g[i] = f[i]) \/ (i = Len(f) + 1 /\ g[i] = line)
    /\ \A i \in 1..Len(f) : IsLong(f[i]) => IsLong(g[i])

LEMMA AppendLineProperties ==
    ASSUME NEW f \in Seq(Lines), NEW line \in Saves
    PROVE  Grown(f, line, AppendLine(f, line))
<1> DEFINE g == AppendLine(f, line)
<1> SUFFICES Grown(f, line, g)
  OBVIOUS
<1>0. Len(f) \in Nat /\ f \in [1..Len(f) -> Lines] /\ line \in Lines
  BY LenProperties DEF Lines
<1>1. CASE HasNoEnd(f)
  <2> DEFINE last == IF f[Len(f)] = LongTorn \/ IsLong(line) THEN LongGlued ELSE Glued
  <2>1. g = [f EXCEPT ![Len(f)] = last]
    BY <1>1 DEF AppendLine
  <2> HIDE DEF g
  <2>2. Len(f) \in 1..Len(f)
    BY <1>0, <1>1, EmptySeq DEF HasNoEnd
  <2>3. last \in Lines /\ last \notin Saves
    BY StartupBounds DEF Lines, Saves, Glued, LongGlued
  <2>4. IsLong(f[Len(f)]) => IsLong(last)
    <3>1. f[Len(f)] \in {Torn, LongTorn}
      BY <1>1 DEF HasNoEnd
    <3>2. ~IsLong(Torn)
      BY StartupBounds DEF IsLong, Torn, LongTorn, LongGlued
    <3> QED
      BY <3>1, <3>2 DEF IsLong
  <2>5. /\ g \in Seq(Lines) /\ Len(g) = Len(f)
        /\ \A i \in 1..Len(f) : g[i] = IF i = Len(f) THEN last ELSE f[i]
    <3> HIDE DEF last
    <3> QED
      BY <2>1, <2>2, <2>3, ExceptSeq
  <2> HIDE DEF last
  <2>6. \A i \in 1..Len(g) : g[i] \in Saves => i \in 1..Len(f) /\ g[i] = f[i]
    BY <2>3, <2>5
  <2>7. \A i \in 1..Len(f) : IsLong(f[i]) => IsLong(g[i])
    BY <2>4, <2>5
  <2> QED
    <3>1. g \in Seq(Lines) /\ Len(g) = Len(f) /\ Len(f) \in Nat
      BY <1>0, <2>5
    <3>2. Len(f) <= Len(g)
      BY <3>1
    <3> QED
      BY <2>6, <2>7, <3>1, <3>2 DEF Grown
<1>2. CASE ~HasNoEnd(f)
  <2>1. g = Append(f, line)
    BY <1>2 DEF AppendLine
  <2> HIDE DEF g
  <2>2. /\ g \in Seq(Lines) /\ Len(g) = Len(f) + 1 /\ g[Len(f) + 1] = line
        /\ \A i \in 1..Len(f) : g[i] = f[i]
    BY <1>0, <2>1, AppendProperties
  <2> QED
    BY <1>0, <2>2 DEF Grown
<1> QED
  BY <1>1, <1>2

\* A crash adds no message to the file.
LEMMA CutLineProperties ==
    ASSUME NEW f \in Seq(Lines), NEW line, NEW g \in CutLine(f, line)
    PROVE  /\ g \in Seq(Lines)
           /\ \A i \in 1..Len(g) : g[i] \in Saves => i \in 1..Len(f) /\ g[i] = f[i]
<1>0. Len(f) \in Nat /\ f \in [1..Len(f) -> Lines]
  BY LenProperties
<1>1. {Torn, LongTorn} \cap Saves = {} /\ {Torn, LongTorn} \subseteq Lines
  BY StartupBounds DEF Lines, Saves, Torn, LongTorn
<1>2. CASE HasNoEnd(f)
  <2>1. PICK start \in {Torn, LongTorn} : g = [f EXCEPT ![Len(f)] = start]
    <3>1. PICK start \in {Torn, LongTorn} :
              g = [f EXCEPT ![Len(f)] = IF @ = LongTorn THEN @ ELSE start]
      BY <1>2 DEF CutLine
    <3>2. CASE f[Len(f)] = LongTorn
      BY <3>1, <3>2
    <3>3. CASE f[Len(f)] # LongTorn
      BY <3>1, <3>3
    <3> QED
      BY <3>2, <3>3
  <2>2. Len(f) \in 1..Len(f)
    BY <1>0, <1>2, EmptySeq DEF HasNoEnd
  <2>3. /\ g \in Seq(Lines) /\ Len(g) = Len(f)
        /\ \A i \in 1..Len(f) : g[i] = IF i = Len(f) THEN start ELSE f[i]
    BY <1>1, <2>1, <2>2, ExceptSeq
  <2> QED
    BY <1>0, <1>1, <2>3
<1>3. CASE ~HasNoEnd(f)
  <2>1. PICK start \in {Torn, LongTorn} : g = Append(f, start)
    BY <1>3 DEF CutLine
  <2>2. /\ g \in Seq(Lines) /\ Len(g) = Len(f) + 1 /\ g[Len(f) + 1] = start
        /\ \A i \in 1..Len(f) : g[i] = f[i]
    BY <1>1, <2>1, AppendProperties
  <2> QED
    BY <1>0, <1>1, <2>2
<1> QED
  BY <1>2, <1>3

-----------------------------------------------------------------------------
(* The beginning.                                                          *)

LEMMA StartupInitIInv == StartupInit => StartupIInv
<1> SUFFICES ASSUME StartupInit PROVE StartupIInv
  OBVIOUS
<1>1. StartupTypeOK
  <2>1. entries \in Seq(Saves) /\ Len(entries) = 0 /\ file \in Seq(Lines) /\ Len(file) = 0
    BY EmptySeq DEF StartupInit
  <2>2. rows \in [Tables -> SUBSET Nat]
    BY SeedsAssumption DEF StartupInit
  <2>3. version \in 0..2 /\ schema \in SUBSET Migrations
    BY DEF StartupInit, Migrations
  <2>4. saved \in 0..MaxSaves /\ draws \in 0..MaxDraws /\ crashes \in 0..MaxCrashes
    BY StartupBounds DEF StartupInit
  <2>5. pos \in 0..Len(file) /\ Len(entries) <= MaxHistory
    BY <2>1, StartupBounds DEF StartupInit
  <2> QED
    BY <2>1, <2>2, <2>3, <2>4, <2>5 DEF StartupInit, StartupTypeOK
<1>2. Recorded
  BY DEF StartupInit, Recorded, SchemaIsRecorded
<1>3. Whole
  <2>1. CASE rows = [t \in Tables |-> {}]
    BY <2>1 DEF StartupInit, Whole, Stored, Tables
  <2>2. CASE rows = Seeds
    BY <2>2, SeedsAssumption DEF StartupInit, Whole
  <2> QED
    BY <2>1, <2>2 DEF StartupInit
<1>4. Ahead
  BY DEF StartupInit, Ahead
<1>5. FreshIds
  BY DEF StartupInit, FreshIds
<1>6. History
  BY DEF StartupInit, History, FileInOrder, EntriesInOrder, Increasing, Loading, HistoryIsTail
<1> QED
  BY <1>1, <1>2, <1>3, <1>4, <1>5, <1>6 DEF StartupIInv

-----------------------------------------------------------------------------
(* The steps, one conjunct of the invariant after the other.               *)

LEMMA TypesStep == StartupTypeOK /\ Recorded /\ [StartupNext]_startupVars => StartupTypeOK'
<1> SUFFICES ASSUME StartupTypeOK, Recorded, [StartupNext]_startupVars PROVE StartupTypeOK'
  OBVIOUS
<1> USE DEF memoryVars, diskVars, historyVars
<1>0. Len(file) \in Nat /\ Len(entries) \in Nat
  BY LenProperties DEF StartupTypeOK
<1>1. CASE main
  BY <1>0, <1>1, StartupBounds DEF main, StartupTypeOK
<1>2. CASE ScanLine
  <2>1. entries' \in Seq(Saves)
    BY <1>2, AppendProperties DEF ScanLine, StartupTypeOK
  <2>2. pos' \in 0..Len(file')
    BY <1>0, <1>2 DEF ScanLine, StartupTypeOK
  <2> QED
    BY <1>2, <2>1, <2>2 DEF ScanLine, StartupTypeOK
<1>3. CASE Loaded
  <2>1. entries' \in Seq(Saves) /\ Len(entries') <= MaxHistory
    BY <1>0, <1>3, LastOfProperties, StartupBounds DEF Loaded, StartupTypeOK
  <2> QED
    BY <1>0, <1>3, <2>1 DEF Loaded, StartupTypeOK
<1>4. CASE openAt
  BY <1>4 DEF openAt, StartupTypeOK
<1>5. CASE Apply
  <2>1. version + 1 \in Migrations
    BY <1>5 DEF Apply, StartupTypeOK, Recorded, Migrations
  <2> QED
    BY <1>5, <2>1 DEF Apply, StartupTypeOK
<1>6. CASE Record
  <2>1. version' \in 0..2
    BY <1>6 DEF Record, StartupTypeOK, Recorded
  <2> QED
    BY <1>6, <2>1 DEF Record, StartupTypeOK
<1>7. CASE CountIngenieros
  BY <1>7 DEF CountIngenieros, StartupTypeOK
<1>8. CASE Seed
  <2>1. PICK t \in Tables : \E r \in Missing(t) : rows' = [rows EXCEPT ![t] = @ \cup {r}]
    BY <1>8 DEF Seed
  <2>2. rows' \in [Tables -> SUBSET Nat]
    BY <2>1, SeedsAssumption DEF StartupTypeOK, Missing
  <2> QED
    BY <1>8, <2>2 DEF Seed, StartupTypeOK
<1>9. CASE Seeded
  <2>1. counter' \in Nat
    BY <1>9, LargestSeed DEF Seeded, SetMinIDCounter, StartupTypeOK
  <2> QED
    BY <1>9, <2>1 DEF Seeded, StartupTypeOK
<1>10. CASE Save
  <2>1. saved' \in 0..MaxSaves /\ saved + 1 \in Saves
    BY <1>10, StartupBounds DEF Save, StartupTypeOK, Saves
  <2>2. Append(entries, saved + 1) \in Seq(Saves)
    BY <2>1, AppendProperties DEF StartupTypeOK
  <2>3. entries' \in Seq(Saves) /\ Len(entries') <= MaxHistory
    <3> DEFINE s == Append(entries, saved + 1)
    <3>1. s \in Seq(Saves) /\ Len(s) \in Nat
      BY <2>2, LenProperties
    <3>2. MaxHistory \in Nat
      BY StartupBounds
    <3>3. LastOf(s, MaxHistory) \in Seq(Saves) /\ Len(LastOf(s, MaxHistory)) <= MaxHistory
      <4> HIDE DEF s
      <4> QED
        BY <3>1, <3>2, LastOfProperties
    <3> QED
      BY <1>10, <3>3 DEF Save
  <2>4. file' \in Seq(Lines) /\ Len(file) <= Len(file')
    <3>1. Grown(file, saved + 1, file')
      BY <1>10, <2>1, AppendLineProperties DEF Save, StartupTypeOK
    <3> QED
      BY <3>1 DEF Grown
  <2>5. pos' \in 0..Len(file')
    <3>1. Len(file') \in Nat
      BY <2>4, LenProperties
    <3> QED
      BY <1>0, <1>10, <2>4, <3>1 DEF Save, StartupTypeOK
  <2> QED
    BY <1>10, <2>1, <2>3, <2>4, <2>5 DEF Save, StartupTypeOK
<1>11. ASSUME NEW t \in Tables, AddRow(t) PROVE StartupTypeOK'
  <2>1. draws' \in 0..MaxDraws /\ counter' \in Nat
    BY <1>11, StartupBounds DEF AddRow, StartupTypeOK
  <2>2. rows' \in [Tables -> SUBSET Nat]
    BY <1>11 DEF AddRow, StartupTypeOK
  <2> QED
    BY <1>11, <2>1, <2>2 DEF AddRow, StartupTypeOK
<1>12. CASE ProcessCrash
  <2>1. file' \in Seq(Lines)
    BY <1>12, CutLineProperties DEF ProcessCrash, StartupTypeOK
  <2>2. pos' \in 0..Len(file')
    BY <1>12, <2>1, LenProperties DEF ProcessCrash
  <2>3. crashes' \in 0..MaxCrashes
    BY <1>12, StartupBounds DEF ProcessCrash, StartupTypeOK
  <2>4. entries' \in Seq(Saves) /\ Len(entries') <= MaxHistory
    BY <1>12, EmptySeq, StartupBounds DEF ProcessCrash
  <2> QED
    BY <1>12, <2>1, <2>2, <2>3, <2>4 DEF ProcessCrash, StartupTypeOK
<1>13. CASE UNCHANGED startupVars
  BY <1>13 DEF startupVars, StartupTypeOK
<1> QED
  BY <1>1, <1>2, <1>3, <1>4, <1>5, <1>6, <1>7, <1>8, <1>9, <1>10, <1>11, <1>12, <1>13 DEF StartupNext

LEMMA RecordedStep == StartupTypeOK /\ Recorded /\ [StartupNext]_startupVars => Recorded'
<1> SUFFICES ASSUME StartupTypeOK, Recorded, [StartupNext]_startupVars PROVE Recorded'
  OBVIOUS
<1>1. CASE main
  BY <1>1 DEF main, Recorded, SchemaIsRecorded, diskVars, historyVars
<1>2. CASE openAt
  BY <1>2 DEF openAt, StartupTypeOK, Recorded, SchemaIsRecorded, diskVars, historyVars
<1>3. CASE Apply
  BY <1>3 DEF Apply, StartupTypeOK, Recorded, SchemaIsRecorded, historyVars
<1>4. CASE Record
  BY <1>4 DEF Record, StartupTypeOK, Recorded, SchemaIsRecorded, historyVars
<1>5. CASE CountIngenieros
  BY <1>5 DEF CountIngenieros, Recorded, SchemaIsRecorded, diskVars
<1>6. CASE Seed
  BY <1>6 DEF Seed, Recorded, SchemaIsRecorded, historyVars
<1>7. CASE Seeded
  BY <1>7 DEF Seeded, Recorded, SchemaIsRecorded, diskVars, historyVars
<1>8. CASE Save
  BY <1>8 DEF Save, Recorded, SchemaIsRecorded
<1>9. ASSUME NEW t \in Tables, AddRow(t) PROVE Recorded'
  BY <1>9 DEF AddRow, Recorded, SchemaIsRecorded
<1>10. CASE ProcessCrash
  BY <1>10 DEF ProcessCrash, Recorded, SchemaIsRecorded
<1>11. CASE UNCHANGED startupVars
  BY <1>11 DEF startupVars, diskVars, historyVars, Recorded, SchemaIsRecorded
<1>12. CASE ScanLine
  BY <1>12 DEF ScanLine, Recorded, SchemaIsRecorded, diskVars, historyVars
<1>13. CASE Loaded
  BY <1>13 DEF Loaded, Recorded, SchemaIsRecorded, diskVars, historyVars
<1> QED
  BY <1>1, <1>2, <1>3, <1>4, <1>5, <1>6, <1>7, <1>8, <1>9, <1>10, <1>11, <1>12, <1>13 DEF StartupNext

LEMMA WholeStep == StartupTypeOK /\ Whole /\ [StartupNext]_startupVars => Whole'
<1> SUFFICES ASSUME StartupTypeOK, Whole, [StartupNext]_startupVars PROVE Whole'
  OBVIOUS
<1>1. CASE main
  BY <1>1 DEF main, Whole, Stored, diskVars, historyVars
<1>2. CASE openAt
  BY <1>2 DEF openAt, Whole, Stored, diskVars, historyVars
<1>3. CASE Apply
  BY <1>3 DEF Apply, Whole, Stored, historyVars
<1>4. CASE Record
  BY <1>4 DEF Record, Whole, Stored, historyVars
<1>5. CASE CountIngenieros
  <2>1. rows' = rows /\ torn' = torn
    BY <1>5 DEF CountIngenieros, diskVars
  <2>2. CASE rows["INGENIEROS"] = {}
    <3>1. \A t \in Tables : rows[t] = {}
      BY <2>2 DEF Whole, Stored
    <3>2. stage' = "seed"
      BY <1>5, <2>2 DEF CountIngenieros
    <3> QED
      BY <2>1, <2>2, <3>1, <3>2 DEF Whole, Stored
  <2>3. CASE rows["INGENIEROS"] # {}
    BY <1>5, <2>1, <2>3 DEF CountIngenieros, Whole, Stored
  <2> QED
    BY <2>2, <2>3
<1>6. CASE Seed
  <2>0. PICK t \in Tables : \E r \in Missing(t) :
            /\ stage = "seed"
            /\ t # "INGENIEROS" => Missing("INGENIEROS") = {}
            /\ rows' = [rows EXCEPT ![t] = @ \cup {r}]
            /\ stage' = stage
    BY <1>6 DEF Seed
  <2>1. PICK r \in Missing(t) :
            /\ stage = "seed"
            /\ t # "INGENIEROS" => Missing("INGENIEROS") = {}
            /\ rows' = [rows EXCEPT ![t] = @ \cup {r}]
            /\ stage' = stage
    BY <2>0
  <2>2. rows'["INGENIEROS"] # {}
    <3>1. CASE t = "INGENIEROS"
      BY <2>1, <3>1 DEF StartupTypeOK
    <3>2. CASE t # "INGENIEROS"
      <4>1. Seeds["INGENIEROS"] \subseteq rows["INGENIEROS"]
        BY <2>1, <3>2 DEF Missing
      <4>2. rows'["INGENIEROS"] = rows["INGENIEROS"]
        BY <2>1, <3>2 DEF StartupTypeOK, Tables
      <4> QED
        BY <4>1, <4>2, SeedsAssumption
    <3> QED
      BY <3>1, <3>2
  <2>3. \A s \in Tables : rows'[s] \subseteq Seeds[s]
    BY <2>1 DEF StartupTypeOK, Whole, Missing
  <2> QED
    BY <2>1, <2>2, <2>3 DEF Whole
<1>7. CASE Seeded
  <2>1. \A t \in Tables : Seeds[t] \subseteq rows[t]
    BY <1>7 DEF Seeded, Missing
  <2>2. rows["INGENIEROS"] # {}
    BY <2>1, SeedsAssumption DEF Tables
  <2> QED
    BY <1>7, <2>1, <2>2 DEF Seeded, Whole, diskVars
<1>8. CASE Save
  BY <1>8 DEF Save, Whole, Stored
<1>9. ASSUME NEW t \in Tables, AddRow(t) PROVE Whole'
  <2>1. stage = "run" /\ stage' = "run" /\ torn' = torn
    BY <1>9 DEF AddRow
  <2>2. \A s \in Tables : rows[s] \subseteq rows'[s]
    BY <1>9 DEF AddRow, StartupTypeOK
  <2>3. rows["INGENIEROS"] # {}
    BY <2>1 DEF Whole
  <2>4. rows'["INGENIEROS"] # {}
    BY <2>2, <2>3 DEF Tables
  <2>5. torn \/ \A s \in Tables : Seeds[s] \subseteq rows[s]
    BY <2>1, <2>3 DEF Whole
  <2> QED
    BY <2>1, <2>2, <2>4, <2>5 DEF Whole
<1>10. CASE ProcessCrash
  <2>1. rows' = rows /\ stage' = "down"
    BY <1>10 DEF ProcessCrash
  <2>2. rows["INGENIEROS"] # {} => torn' \/ \A t \in Tables : Seeds[t] \subseteq rows[t]
    BY <1>10 DEF ProcessCrash, Whole, Missing
  <2> QED
    BY <2>1, <2>2 DEF Whole, Stored
<1>11. CASE UNCHANGED startupVars
  BY <1>11 DEF startupVars, diskVars, historyVars, Whole, Stored
<1>12. CASE ScanLine
  BY <1>12 DEF ScanLine, Whole, Stored, diskVars, historyVars
<1>13. CASE Loaded
  BY <1>13 DEF Loaded, Whole, Stored, diskVars, historyVars
<1> QED
  BY <1>1, <1>2, <1>3, <1>4, <1>5, <1>6, <1>7, <1>8, <1>9, <1>10, <1>11, <1>12, <1>13 DEF StartupNext

\* Why an insertion is never ignored: the number it takes is above all others.
LEMMA AheadStep == StartupIInv /\ [StartupNext]_startupVars => Ahead' /\ FreshIds'
<1> SUFFICES ASSUME StartupIInv, [StartupNext]_startupVars PROVE Ahead' /\ FreshIds'
  OBVIOUS
<1> USE DEF StartupIInv
<1>1. CASE stage' # "run" /\ behind' = behind /\ dropped' = dropped
  BY <1>1 DEF Ahead, FreshIds
<1>2. CASE main
  BY <1>1, <1>2 DEF main, historyVars
<1>3. CASE openAt
  BY <1>1, <1>3 DEF openAt, historyVars
<1>4. CASE Apply
  BY <1>1, <1>4 DEF Apply, historyVars
<1>5. CASE Record
  BY <1>1, <1>5 DEF Record, historyVars
<1>6. CASE CountIngenieros
  <2>1. Stored' = Stored /\ counter' = counter /\ dropped' = dropped
    BY <1>6 DEF CountIngenieros, Stored, diskVars, memoryVars
  <2>2. ~behind' => ~behind
    BY <1>6 DEF CountIngenieros
  <2>3. stage' = "run" /\ ~behind' => ~ \E i \in Stored : counter < i
    BY <1>6 DEF CountIngenieros
  <2>4. \A i \in Stored : i \in Nat
    BY DEF Stored, StartupTypeOK
  <2>5. stage' = "run" /\ ~behind' => \A i \in Stored : i <= counter
    BY <2>3, <2>4 DEF StartupTypeOK
  <2> QED
    BY <2>1, <2>2, <2>5 DEF Ahead, FreshIds
<1>7. CASE Seed
  BY <1>1, <1>7 DEF Seed, historyVars
<1>8. CASE Seeded
  <2>1. behind' = behind /\ dropped' = dropped /\ rows' = rows
    BY <1>8 DEF Seeded, historyVars, diskVars
  <2>2. \A i \in Stored : i \in AllSeeds
    BY <1>8 DEF Seeded, Whole, Stored, AllSeeds
  <2>3. Max(AllSeeds) <= counter'
    BY <1>8, LargestSeed DEF Seeded, SetMinIDCounter, StartupTypeOK
  <2>4. counter' \in Nat
    BY <1>8, LargestSeed DEF Seeded, SetMinIDCounter, StartupTypeOK
  <2>5. AllSeeds \subseteq Nat
    BY SeedsAssumption DEF AllSeeds
  <2>6. \A s \in AllSeeds : s <= counter'
    BY <2>3, <2>4, <2>5, LargestSeed
  <2>7. Stored' = Stored
    BY <2>1 DEF Stored
  <2> QED
    BY <2>1, <2>2, <2>6, <2>7 DEF Ahead, FreshIds
<1>9. CASE Save
  BY <1>9 DEF Save, Ahead, FreshIds, Stored
<1>10. ASSUME NEW t \in Tables, AddRow(t) PROVE Ahead' /\ FreshIds'
  <2>1. stage = "run" /\ behind' = behind /\ counter' = counter + 1
    BY <1>10 DEF AddRow
  <2>2. rows' = [rows EXCEPT ![t] = @ \cup {counter + 1}]
    BY <1>10 DEF AddRow
  <2>3. dropped' = (dropped \/ counter + 1 \in rows[t])
    BY <1>10 DEF AddRow
  <2>4. CASE behind
    BY <2>1, <2>4 DEF Ahead, FreshIds
  <2>5. CASE ~behind
    <3>1. \A i \in Stored : i <= counter
      BY <2>1, <2>5 DEF Ahead
    <3>2. Stored' \subseteq Stored \cup {counter + 1}
      BY <2>2 DEF Stored, StartupTypeOK
    <3>3. \A i \in Stored : i \in Nat
      BY DEF Stored, StartupTypeOK
    <3>4. \A i \in Stored' : i <= counter + 1
      BY <3>1, <3>2, <3>3 DEF StartupTypeOK
    <3>5. counter + 1 \notin Stored
      BY <3>1 DEF StartupTypeOK
    <3>6. counter + 1 \notin rows[t]
      BY <3>5 DEF Stored
    <3>7. ~dropped'
      BY <2>3, <2>5, <3>6 DEF FreshIds
    <3> QED
      BY <2>1, <3>4, <3>7 DEF Ahead, FreshIds
  <2> QED
    BY <2>4, <2>5
<1>11. CASE ProcessCrash
  BY <1>1, <1>11 DEF ProcessCrash
<1>12. CASE UNCHANGED startupVars
  BY <1>12 DEF startupVars, diskVars, memoryVars, historyVars, Ahead, FreshIds, Stored
<1>13. CASE ScanLine
  BY <1>1, <1>13 DEF ScanLine, historyVars
<1>14. CASE Loaded
  BY <1>1, <1>14 DEF Loaded, historyVars
<1> QED
  BY <1>2, <1>3, <1>4, <1>5, <1>6, <1>7, <1>8, <1>9, <1>10, <1>11, <1>12, <1>13, <1>14 DEF StartupNext

\* Of an increasing list the end is kept, and what is not kept is before it.
Trimmed(s, n, t) ==
    /\ t \in Seq(Saves) /\ Increasing(t)
    /\ \A k \in DOMAIN t : \E l \in DOMAIN s : t[k] = s[l]
    /\ \A l \in DOMAIN s :
          (\E k \in DOMAIN t : t[k] = s[l]) \/ (Len(t) = n /\ \A k \in DOMAIN t : s[l] < t[k])
    /\ s # <<>> => \E k \in DOMAIN t : t[k] = s[Len(s)]
    /\ Len(s) >= n => Len(t) = n

LEMMA Trim ==
    ASSUME NEW s \in Seq(Saves), NEW n \in Nat \ {0}, Increasing(s)
    PROVE  Trimmed(s, n, LastOf(s, n))
<1> DEFINE t == LastOf(s, n)
<1> DEFINE d == Len(s) - Len(t)
<1>1. /\ Len(s) \in Nat /\ DOMAIN s = 1..Len(s) /\ (s # <<>> => Len(s) # 0)
      /\ \A l \in 1..Len(s) : s[l] \in Nat
  <2>1. Saves \subseteq Nat
    BY DEF Saves
  <2> QED
    BY <2>1, LenProperties, EmptySeq
<1>2. /\ t \in Seq(Saves) /\ d \in Nat /\ n \in Nat /\ n # 0
      /\ Len(t) = IF Len(s) > n THEN n ELSE Len(s)
      /\ \A k \in 1..Len(t) : t[k] = s[k + d]
  BY LastOfProperties
<1> HIDE DEF t
<1>3. Len(t) \in Nat /\ DOMAIN t = 1..Len(t) /\ Len(t) + d = Len(s)
  BY <1>1, <1>2, LenProperties
<1> HIDE DEF d
<1>4. /\ Len(s) \in Nat /\ Len(t) \in Nat /\ d \in Nat /\ n \in Nat /\ n # 0 /\ Len(t) + d = Len(s)
      /\ Len(s) > n => Len(t) = n
      /\ Len(s) <= n => Len(t) = Len(s)
  <2>1. Len(s) \in Nat /\ Len(t) \in Nat /\ d \in Nat /\ n \in Nat /\ n # 0 /\ Len(t) + d = Len(s)
    BY <1>1, <1>2, <1>3
  <2>2. Len(t) = IF Len(s) > n THEN n ELSE Len(s)
    BY <1>2
  <2> QED
    BY <2>1, <2>2
<1>5. \A k \in 1..Len(t) : k + d \in 1..Len(s)
  BY <1>4
<1>6. Increasing(t)
  <2> SUFFICES ASSUME NEW i \in 1..Len(t), NEW j \in 1..Len(t), i < j
               PROVE  t[i] < t[j]
    BY <1>3 DEF Increasing
  <2>1. i + d < j + d
    BY <1>2, <1>3
  <2> QED
    BY <1>1, <1>2, <1>5, <2>1 DEF Increasing
<1>7. \A k \in DOMAIN t : \E l \in DOMAIN s : t[k] = s[l]
  BY <1>1, <1>2, <1>3, <1>5
<1>8. ASSUME NEW l \in 1..Len(s)
      PROVE  (\E k \in 1..Len(t) : t[k] = s[l]) \/ (Len(t) = n /\ \A k \in 1..Len(t) : s[l] < t[k])
  <2>1. CASE l > d
    <3>1. l - d \in 1..Len(t) /\ l = (l - d) + d
      BY <1>4, <2>1
    <3> QED
      BY <1>2, <3>1
  <2>2. CASE l <= d
    <3>1. Len(t) = n
      BY <1>4, <2>2
    <3>2. \A k \in 1..Len(t) : l < k + d
      BY <1>2, <1>3, <2>2
    <3>3. \A k \in 1..Len(t) : s[l] < s[k + d]
      BY <1>1, <1>5, <3>2 DEF Increasing
    <3> QED
      BY <1>2, <3>1, <3>3
  <2> QED
    BY <1>4, <2>1, <2>2
<1>9. s # <<>> => Len(t) \in 1..Len(t) /\ t[Len(t)] = s[Len(s)]
  <2> SUFFICES ASSUME s # <<>> PROVE Len(t) \in 1..Len(t) /\ t[Len(t)] = s[Len(s)]
    OBVIOUS
  <2>1. Len(t) \in 1..Len(t)
    BY <1>1, <1>4
  <2>2. Len(t) + d = Len(s)
    BY <1>1, <1>3
  <2> QED
    BY <1>2, <2>1, <2>2
<1>10. Len(s) >= n => Len(t) = n
  BY <1>4
<1> QED
  BY <1>1, <1>2, <1>3, <1>6, <1>7, <1>8, <1>9, <1>10 DEF t, Trimmed

LEMMA HistoryKept ==
    ASSUME StartupTypeOK, History, UNCHANGED <<file, entries, saved>>,
           stage \notin {"down", "load"}, stage' # "load"
    PROVE  History'
BY DEF History, FileInOrder, EntriesInOrder, Loading, HistoryIsTail, Readable, Increasing

LEMMA HistoryScan == StartupTypeOK /\ History /\ ScanLine => History'
<1> SUFFICES ASSUME StartupTypeOK, History, ScanLine PROVE History'
  OBVIOUS
<1> DEFINE x == file[pos + 1]
<1> USE DEF History
<1>1. /\ Len(file) \in Nat /\ DOMAIN file = 1..Len(file)
      /\ Len(entries) \in Nat /\ DOMAIN entries = 1..Len(entries)
      /\ \A k \in 1..Len(entries) : entries[k] \in Saves
      /\ pos \in Nat /\ pos + 1 \in 1..Len(file)
  BY LenProperties DEF StartupTypeOK, ScanLine
<1>2. /\ UNCHANGED <<stage, file, saved>> /\ stage = "load" /\ ~IsLong(x) /\ pos' = pos + 1
      /\ entries' = IF x \in Saves THEN Append(entries, x) ELSE entries
  BY DEF ScanLine, diskVars, historyVars
<1>3. 1..pos' = 1..pos \cup {pos + 1} /\ 1..pos \subseteq 1..Len(file)
  BY <1>1, <1>2
<1>4. FileInOrder'
  BY <1>2 DEF FileInOrder
<1>5. \A i \in 1..pos' : ~IsLong(file'[i])
  BY <1>2, <1>3 DEF Loading
<1>6. CASE x \in Saves
  <2>1. /\ Len(entries') = Len(entries) + 1 /\ DOMAIN entries' = 1..(Len(entries) + 1)
        /\ \A k \in 1..Len(entries) : entries'[k] = entries[k]
        /\ entries'[Len(entries) + 1] = x
    BY <1>2, <1>6, AppendProperties, LenProperties DEF StartupTypeOK
  <2>2. \A k \in 1..Len(entries) : entries[k] < x
    <3> SUFFICES ASSUME NEW k \in 1..Len(entries) PROVE entries[k] < x
      OBVIOUS
    <3>1. PICK i \in 1..pos : entries[k] = file[i]
      BY <1>1, <1>2 DEF Loading
    <3>2. i \in DOMAIN file /\ pos + 1 \in DOMAIN file /\ i < pos + 1 /\ file[i] \in Saves
      BY <1>1, <1>3, <3>1
    <3> QED
      BY <1>6, <3>1, <3>2 DEF FileInOrder
  <2>3. Increasing(entries')
    <3> SUFFICES ASSUME NEW i \in 1..(Len(entries) + 1), NEW j \in 1..(Len(entries) + 1), i < j
                 PROVE  entries'[i] < entries'[j]
      BY <2>1 DEF Increasing
    <3>1. i \in 1..Len(entries)
      BY <1>1
    <3>2. CASE j = Len(entries) + 1
      BY <2>1, <2>2, <3>1, <3>2
    <3>3. CASE j \in 1..Len(entries)
      BY <1>1, <2>1, <3>1, <3>3 DEF EntriesInOrder, Increasing
    <3> QED
      BY <1>1, <3>2, <3>3
  <2>4. \A k \in 1..(Len(entries) + 1) : entries'[k] <= saved
    <3>1. x <= saved
      BY <1>1, <1>6 DEF FileInOrder
    <3>2. \A k \in 1..(Len(entries) + 1) : k = Len(entries) + 1 \/ k \in 1..Len(entries)
      BY <1>1
    <3> QED
      BY <1>1, <2>1, <3>1, <3>2 DEF EntriesInOrder
  <2>5. EntriesInOrder'
    BY <1>2, <2>1, <2>3, <2>4 DEF EntriesInOrder
  <2>6. \A i \in 1..pos' : file'[i] \in Saves => \E k \in DOMAIN entries' : entries'[k] = file'[i]
    <3>1. \A i \in 1..pos : file[i] \in Saves => \E k \in 1..Len(entries) : entries[k] = file[i]
      BY <1>1, <1>2 DEF Loading
    <3>2. 1..Len(entries) \subseteq 1..(Len(entries) + 1) /\ Len(entries) + 1 \in 1..(Len(entries) + 1)
      BY <1>1
    <3> QED
      BY <1>2, <1>3, <2>1, <3>1, <3>2
  <2>7. \A k \in DOMAIN entries' : \E i \in 1..pos' : entries'[k] = file'[i]
    <3>1. \A k \in 1..Len(entries) : \E i \in 1..pos : entries[k] = file[i]
      BY <1>1, <1>2 DEF Loading
    <3>2. \A k \in 1..(Len(entries) + 1) : k = Len(entries) + 1 \/ k \in 1..Len(entries)
      BY <1>1
    <3> QED
      BY <1>2, <1>3, <2>1, <3>1, <3>2
  <2> QED
    BY <1>2, <1>4, <1>5, <2>5, <2>6, <2>7 DEF Loading, HistoryIsTail
<1>7. CASE x \notin Saves
  <2>1. entries' = entries
    BY <1>2, <1>7
  <2>2. EntriesInOrder'
    BY <1>2, <2>1 DEF EntriesInOrder
  <2>3. Loading'
    BY <1>2, <1>3, <1>5, <1>7, <2>1 DEF Loading
  <2> QED
    BY <1>2, <1>4, <2>2, <2>3 DEF HistoryIsTail
<1> QED
  BY <1>6, <1>7

LEMMA HistoryLoaded == StartupTypeOK /\ History /\ Loaded => History'
<1> SUFFICES ASSUME StartupTypeOK, History, Loaded PROVE History'
  OBVIOUS
<1> USE DEF History
<1>1. /\ Len(file) \in Nat /\ DOMAIN file = 1..Len(file) /\ pos \in Nat
      /\ entries \in Seq(Saves) /\ MaxHistory \in Nat \ {0} /\ Increasing(entries)
  BY LenProperties, StartupBounds DEF StartupTypeOK, EntriesInOrder
<1>2. /\ UNCHANGED <<file, saved>> /\ stage = "load" /\ stage' = "open"
      /\ entries' = LastOf(entries, MaxHistory)
      /\ pos < Len(file) => IsLong(file[pos + 1])
  BY DEF Loaded, diskVars, historyVars
<1>3. /\ Increasing(entries')
      /\ \A k \in DOMAIN entries' : \E l \in DOMAIN entries : entries'[k] = entries[l]
      /\ \A l \in DOMAIN entries :
            \/ \E k \in DOMAIN entries' : entries'[k] = entries[l]
            \/ Len(entries') = MaxHistory /\ \A k \in DOMAIN entries' : entries[l] < entries'[k]
  <2>1. Trimmed(entries, MaxHistory, entries')
    BY <1>1, <1>2, Trim
  <2> QED
    BY <2>1 DEF Trimmed
<1>4. FileInOrder' /\ EntriesInOrder' /\ Loading'
  BY <1>2, <1>3 DEF FileInOrder, EntriesInOrder, Loading
<1>5. ASSUME NEW i \in Readable
      PROVE  \E l \in DOMAIN entries : entries[l] = file[i]
  <2>1. i \in 1..Len(file) /\ file[i] \in Saves /\ \A j \in 1..i : ~IsLong(file[j])
    BY <1>1 DEF Readable
  <2>2. i \in 1..pos
    <3>1. CASE i > pos
      <4>1. pos + 1 \in 1..i /\ pos < Len(file)
        BY <1>1, <2>1, <3>1
      <4> QED
        BY <1>2, <2>1, <4>1
    <3> QED
      BY <1>1, <2>1, <3>1
  <2> QED
    BY <1>2, <2>1, <2>2 DEF Loading
<1>6. Readable' = Readable
  BY <1>2 DEF Readable
<1>7. HistoryIsTail'
  BY <1>2, <1>3, <1>5, <1>6 DEF HistoryIsTail
<1> QED
  BY <1>4, <1>7

LEMMA HistorySave == StartupTypeOK /\ History /\ Save => History'
<1> SUFFICES ASSUME StartupTypeOK, History, Save PROVE History'
  OBVIOUS
<1> DEFINE m == saved + 1
           s == Append(entries, m)
<1> USE DEF History
<1>1. /\ Len(file) \in Nat /\ DOMAIN file = 1..Len(file) /\ file \in Seq(Lines)
      /\ Len(entries) \in Nat /\ DOMAIN entries = 1..Len(entries) /\ entries \in Seq(Saves)
      /\ MaxHistory \in Nat \ {0} /\ saved \in Nat /\ m \in Saves /\ Saves \subseteq Nat
  BY LenProperties, StartupBounds DEF StartupTypeOK, Saves, Save
<1>2. /\ m \in Nat /\ saved < m /\ \A line \in Saves : line <= saved => line < m /\ line <= m
  BY <1>1
<1>3. /\ stage = "run" /\ stage' = "run" /\ saved' = m
      /\ entries' = LastOf(s, MaxHistory) /\ file' = AppendLine(file, m)
  BY DEF Save
<1>4. /\ s \in Seq(Saves) /\ s # <<>> /\ Len(s) = Len(entries) + 1
      /\ DOMAIN s = 1..(Len(entries) + 1)
      /\ \A k \in 1..Len(entries) : s[k] = entries[k]
      /\ s[Len(entries) + 1] = m
  BY <1>1, AppendProperties, LenProperties
<1>5. /\ \A k \in 1..Len(entries) : entries[k] \in Nat /\ entries[k] <= saved
      /\ \A k \in 1..(Len(entries) + 1) : k = Len(entries) + 1 \/ k \in 1..Len(entries)
  <2>1. \A k \in 1..Len(entries) : entries[k] \in Saves
    BY <1>1, ElementOfSeq
  <2>2. \A k \in 1..Len(entries) : entries[k] <= saved
    BY <1>1 DEF EntriesInOrder
  <2>3. \A k \in 1..(Len(entries) + 1) : k = Len(entries) + 1 \/ k \in 1..Len(entries)
    BY <1>1
  <2> QED
    BY <1>1, <2>1, <2>2, <2>3
<1>6. /\ file' \in Seq(Lines) /\ Len(file) <= Len(file')
      /\ \A i \in 1..Len(file') : file'[i] \in Saves =>
            (i \in 1..Len(file) /\ file'[i] = file[i]) \/ (i = Len(file) + 1 /\ file'[i] = m)
      /\ \A i \in 1..Len(file) : IsLong(file[i]) => IsLong(file'[i])
  <2>1. Grown(file, m, file')
    BY <1>1, <1>3, AppendLineProperties
  <2> HIDE DEF m
  <2> QED
    BY <2>1 DEF Grown
<1>7. Len(file') \in Nat /\ DOMAIN file' = 1..Len(file')
  BY <1>6, LenProperties
<1> HIDE DEF s, m
<1>8. Increasing(s)
  <2> SUFFICES ASSUME NEW i \in 1..(Len(entries) + 1), NEW j \in 1..(Len(entries) + 1), i < j
               PROVE  s[i] < s[j]
    BY <1>4 DEF Increasing
  <2>1. i \in 1..Len(entries)
    BY <1>1
  <2>2. CASE j = Len(entries) + 1
    BY <1>2, <1>1, <1>4, <1>5, <2>1, <2>2
  <2>3. CASE j \in 1..Len(entries)
    BY <1>1, <1>4, <2>1, <2>3 DEF EntriesInOrder, Increasing
  <2> QED
    BY <1>5, <2>2, <2>3
<1>9. /\ entries' \in Seq(Saves) /\ Increasing(entries')
      /\ \A k \in DOMAIN entries' : \E l \in DOMAIN s : entries'[k] = s[l]
      /\ \A l \in DOMAIN s :
            \/ \E k \in DOMAIN entries' : entries'[k] = s[l]
            \/ Len(entries') = MaxHistory /\ \A k \in DOMAIN entries' : s[l] < entries'[k]
      /\ \E k \in DOMAIN entries' : entries'[k] = s[Len(s)]
      /\ Len(s) >= MaxHistory => Len(entries') = MaxHistory
  <2>1. Trimmed(s, MaxHistory, entries')
    BY <1>1, <1>3, <1>4, <1>8, Trim
  <2> QED
    BY <1>4, <2>1 DEF Trimmed
<1>10. EntriesInOrder'
  <2>1. \A l \in DOMAIN s : s[l] <= m
    BY <1>2, <1>1, <1>4, <1>5
  <2> QED
    BY <1>3, <1>9, <2>1 DEF EntriesInOrder
<1>11. FileInOrder'
  <2>1. \A i \in 1..Len(file) : file[i] \in Saves => file[i] <= saved /\ file[i] < m
    <3>1. \A i \in 1..Len(file) : file[i] \in Saves => file[i] <= saved
      BY <1>1 DEF FileInOrder
    <3> QED
      BY <1>2, <3>1
  <2>2. \A i \in 1..Len(file') : file'[i] \in Saves => file'[i] <= m
    <3> SUFFICES ASSUME NEW i \in 1..Len(file'), file'[i] \in Saves PROVE file'[i] <= m
      OBVIOUS
    <3>1. CASE i \in 1..Len(file) /\ file'[i] = file[i]
      BY <1>2, <2>1, <3>1
    <3>2. CASE file'[i] = m
      BY <1>2, <3>2
    <3> QED
      BY <1>6, <3>1, <3>2
  <2>3. ASSUME NEW i \in 1..Len(file'), NEW j \in 1..Len(file'), i < j,
               file'[i] \in Saves, file'[j] \in Saves
        PROVE  file'[i] < file'[j]
    <3>1. i \in 1..Len(file) /\ file'[i] = file[i]
      BY <1>1, <1>6, <2>3
    <3>2. CASE j \in 1..Len(file) /\ file'[j] = file[j]
      BY <1>1, <2>3, <3>1, <3>2 DEF FileInOrder
    <3>3. CASE file'[j] = m
      BY <2>1, <2>3, <3>1, <3>3
    <3> QED
      BY <1>6, <2>3, <3>2, <3>3
  <2> QED
    BY <1>3, <1>7, <2>2, <2>3 DEF FileInOrder
<1>12. ASSUME NEW i \in Readable'
       PROVE  \/ \E k \in DOMAIN entries' : entries'[k] = file'[i]
              \/ Len(entries') = MaxHistory /\ \A k \in DOMAIN entries' : file'[i] < entries'[k]
  <2>1. i \in 1..Len(file') /\ file'[i] \in Saves /\ \A j \in 1..i : ~IsLong(file'[j])
    BY <1>7 DEF Readable
  <2>2. CASE i \in 1..Len(file) /\ file'[i] = file[i]
    <3>1. i \in Readable
      <4>1. 1..i \subseteq 1..Len(file)
        BY <1>1, <2>2
      <4> QED
        BY <1>1, <1>6, <2>1, <2>2, <4>1 DEF Readable
    <3>2. CASE \E k \in DOMAIN entries : entries[k] = file[i]
      <4>1. PICK k \in 1..Len(entries) : entries[k] = file[i]
        BY <1>1, <3>2
      <4>2. k \in DOMAIN s /\ s[k] = file'[i]
        BY <1>1, <1>4, <2>2, <4>1
      <4> QED
        BY <1>9, <4>2
    <3>3. CASE Len(entries) = MaxHistory /\ \A k \in DOMAIN entries : file[i] < entries[k]
      <4>1. Len(entries') = MaxHistory
        BY <1>1, <1>4, <1>9, <3>3
      <4>2. file[i] < m
        <5>1. file[i] <= saved
          BY <1>1, <2>1, <2>2 DEF FileInOrder
        <5> QED
          BY <1>2, <2>1, <2>2, <5>1
      <4>3. \A l \in DOMAIN s : file[i] < s[l]
        BY <1>1, <1>4, <1>5, <3>3, <4>2
      <4> QED
        BY <1>9, <2>2, <4>1, <4>3
    <3> QED
      BY <1>3, <3>1, <3>2, <3>3 DEF HistoryIsTail
  <2>3. CASE file'[i] = m
    BY <1>4, <1>9, <2>3
  <2> QED
    BY <1>6, <2>1, <2>2, <2>3
<1>13. HistoryIsTail'
  BY <1>9, <1>12 DEF HistoryIsTail
<1>14. Loading'
  BY <1>3 DEF Loading
<1> QED
  BY <1>10, <1>11, <1>13, <1>14

LEMMA HistoryCrash == StartupTypeOK /\ History /\ ProcessCrash => History'
<1> SUFFICES ASSUME StartupTypeOK, History, ProcessCrash PROVE History'
  OBVIOUS
<1> USE DEF History
<1>1. /\ Len(file) \in Nat /\ DOMAIN file = 1..Len(file) /\ file \in Seq(Lines)
  BY LenProperties DEF StartupTypeOK
<1>2. stage' = "down" /\ entries' = <<>> /\ saved' = saved
  BY DEF ProcessCrash
<1>3. /\ file' \in Seq(Lines)
      /\ \A i \in 1..Len(file') : file'[i] \in Saves => i \in 1..Len(file) /\ file'[i] = file[i]
  BY <1>1, CutLineProperties DEF ProcessCrash
<1>4. DOMAIN file' = 1..Len(file')
  BY <1>3, LenProperties
<1>5. FileInOrder'
  BY <1>1, <1>2, <1>3, <1>4 DEF FileInOrder
<1>6. EntriesInOrder'
  BY <1>2 DEF EntriesInOrder, Increasing
<1> QED
  BY <1>2, <1>5, <1>6 DEF Loading, HistoryIsTail

\* Why no message is lost from memory: a start reads the lines in their order, and
\* all that is discarded, then or later, is older than all that is kept.
LEMMA HistoryStep == StartupTypeOK /\ History /\ [StartupNext]_startupVars => History'
<1> SUFFICES ASSUME StartupTypeOK, History, [StartupNext]_startupVars PROVE History'
  OBVIOUS
<1> USE DEF diskVars, memoryVars, historyVars
<1>1. CASE main
  <2>1. stage' = "load" /\ pos' = 0 /\ entries' = <<>> /\ UNCHANGED <<file, saved>>
    BY <1>1 DEF main
  <2> QED
    BY <2>1 DEF History, FileInOrder, EntriesInOrder, Increasing, Loading, HistoryIsTail
<1>2. CASE ScanLine
  BY <1>2, HistoryScan
<1>3. CASE Loaded
  BY <1>3, HistoryLoaded
<1>4. CASE openAt
  BY <1>4, HistoryKept DEF openAt
<1>5. CASE Apply
  BY <1>5, HistoryKept DEF Apply
<1>6. CASE Record
  BY <1>6, HistoryKept DEF Record
<1>7. CASE CountIngenieros
  BY <1>7, HistoryKept DEF CountIngenieros
<1>8. CASE Seed
  BY <1>8, HistoryKept DEF Seed
<1>9. CASE Seeded
  BY <1>9, HistoryKept DEF Seeded
<1>10. CASE Save
  BY <1>10, HistorySave
<1>11. ASSUME NEW t \in Tables, AddRow(t) PROVE History'
  BY <1>11, HistoryKept DEF AddRow
<1>12. CASE ProcessCrash
  BY <1>12, HistoryCrash
<1>13. CASE UNCHANGED startupVars
  BY <1>13 DEF startupVars, History, FileInOrder, EntriesInOrder, Increasing, Loading,
     HistoryIsTail, Readable
<1> QED
  BY <1>1, <1>2, <1>3, <1>4, <1>5, <1>6, <1>7, <1>8, <1>9, <1>10, <1>11, <1>12, <1>13 DEF StartupNext

LEMMA StartupStep == StartupIInv /\ [StartupNext]_startupVars => StartupIInv'
BY TypesStep, RecordedStep, WholeStep, AheadStep, HistoryStep DEF StartupIInv

-----------------------------------------------------------------------------
(* The theorems.                                                           *)

\* The invariant holds of every crash and every start.
THEOREM StartupInvariance == StartupSpec => []StartupIInv
BY StartupInitIInv, StartupStep, PTL DEF StartupSpec

\* db.go:94: the version of the schema tells which migrations were run, and a
\* process that works has all of them.
THEOREM SchemaFollowsVersion == StartupSpec => []SchemaIsRecorded
<1>1. StartupIInv => SchemaIsRecorded
  BY DEF StartupIInv, Recorded
<1> QED
  BY StartupInvariance, <1>1, PTL

\* seed.go:47: a process that works has the whole seed, unless a crash came
\* between two of its rows.
THEOREM SeedIsComplete == StartupSpec => []SeedIsWhole
<1>1. StartupIInv => SeedIsWhole
  BY DEF StartupIInv, Whole, SeedIsWhole
<1> QED
  BY StartupInvariance, <1>1, PTL

\* ticket_service.go:38: no id is drawn that a stored row has, as long as no
\* start that skipped the seed found its clock behind the rows.
THEOREM IdsAreFresh == StartupSpec => []FreshIds
<1>1. StartupIInv => FreshIds
  BY DEF StartupIInv
<1> QED
  BY StartupInvariance, <1>1, PTL

\* Every variable of the start and of the disk has its type, and the history in
\* memory never exceeds its limit once it is loaded.
THEOREM StartupTypeCorrectness == StartupSpec => []StartupTypeOK
<1>1. StartupIInv => StartupTypeOK
  BY DEF StartupIInv
<1> QED
  BY StartupInvariance, <1>1, PTL

\* store.go:28: once loaded the history is in the order in which it was saved, and
\* has the latest of all the messages that can be read from the file.
THEOREM HistorySurvives == StartupSpec => []HistoryIsTail
<1>1. StartupIInv => HistoryIsTail
  BY DEF StartupIInv, History
<1> QED
  BY StartupInvariance, <1>1, PTL
=============================================================================
