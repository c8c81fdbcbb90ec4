--------------------------- MODULE TicketsProofs ----------------------------
(***************************************************************************)
(* The theorems about Tickets, for any sucursales, engineers and bounds.   *)
(***************************************************************************)
EXTENDS Tickets, TLAPS

-----------------------------------------------------------------------------
(* What the parts of the steps do.                                         *)

LEMMA SucursalType == \A t \in Ids : Sucursal(t) \in Nodes /\ t = <<t[1], t[2]>> /\ t[2] \in Nat
BY BoundsAssumption DEF Ids, Sucursal

LEMMA SpendType ==
    ASSUME TypeOK, NEW kind \in Kinds, Spend(kind)
    PROVE  budget' \in [Kinds -> Nat]
BY DEF TypeOK, Spend

LEMMA DecideType ==
    ASSUME TypeOK, NEW n \in Nodes, NEW w \in Ops, Decide(n, w)
    PROVE  decided' \in [Nodes -> 0..MaxRounds] /\ commits' \subseteq Commits
<1>1. decided[n] \in 0..MaxRounds /\ decided[n] < MaxRounds
  BY DEF TypeOK, Decide
<1>2. decided[n] + 1 \in 1..MaxRounds
  BY <1>1, BoundsAssumption
<1>3. decided' \in [Nodes -> 0..MaxRounds]
  BY <1>2 DEF TypeOK, Decide
<1>4. alive[n] \cup {n} \subseteq Nodes
  BY DEF TypeOK
<1>5. \A p \in alive[n] \cup {n} :
          [to |-> p, round |-> <<n, decided[n] + 1>>, what |-> w] \in Commits
  BY <1>2, <1>4 DEF Commits
<1> QED
  BY <1>3, <1>5 DEF TypeOK, Decide

LEMMA GiveUpType ==
    ASSUME TypeOK, NEW n \in Nodes, GiveUp(n)
    PROVE  /\ pc' \in [Nodes -> PCs]
           /\ pc' = [pc EXCEPT ![n] = "retry"] \/ pc' = [pc EXCEPT ![n] = "idle"]
           /\ pc'[n] = "retry" => attempt[n] < MaxAttempts
BY DEF TypeOK, GiveUp, Enter, PCs

LEMMA OpType ==
    ASSUME NEW op \in {"INSERT_TICKET", "CLOSE_TICKET", "UPDATE_INGENIERO_DISPONIBLE"},
           NEW t \in Ids, NEW e \in Engineers
    PROVE  Op(op, t, e) \in Ops
BY DEF Op, Ops

LEMMA FirstSeen == ASSUME NEW n \in Nodes PROVE firstOf(n) \subseteq seen[n]
BY DEF firstOf

LEMMA NewIdDrawn ==
    ASSUME TypeOK, NEW n \in Nodes, NewId(n) \in Ids
    PROVE  issued[n] + 1 \in 0..MaxTickets /\ Sucursal(NewId(n)) = n
BY BoundsAssumption DEF TypeOK, NewId, Ids, Sucursal

LEMMA SameRows ==
    ASSUME tickets' = tickets
    PROVE  \A t \in Ids : /\ (Open(t)' <=> Open(t)) /\ (HasRow(t)' <=> HasRow(t))
                          /\ EngineerOf(t)' = EngineerOf(t)
BY DEF Open, HasRow, EngineerOf

LEMMA OpenHasRow == \A t \in Ids : Open(t) => HasRow(t)
BY DEF Open, HasRow

\* The three cases of the commit handler, row by row.
LEMMA InsertRows ==
    ASSUME TypeOK, NEW n \in Nodes, NEW w \in Ops, commitInsert(n, w)
    PROVE  /\ tickets' \in [Nodes -> [Ids -> Rows \cup {NoRow}]]
           /\ \A p \in Nodes, t \in Ids : tickets'[p][t] =
                IF p = n /\ t = w.id /\ Sucursal(t) = n /\ tickets[p][t] = NoRow
                THEN [eng |-> w.eng, estado |-> "ABIERTO"] ELSE tickets[p][t]
<1>1. w.id \in Ids /\ w.eng \in Engineers
  BY DEF Ops
<1>2. [eng |-> w.eng, estado |-> "ABIERTO"] \in Rows
  BY <1>1 DEF Rows
<1>3. CASE Sucursal(w.id) = n /\ tickets[n][w.id] = NoRow
  <2>1. tickets' = [tickets EXCEPT ![n][w.id] = [eng |-> w.eng, estado |-> "ABIERTO"]]
    BY <1>3 DEF commitInsert
  <2> QED
    BY <1>1, <1>2, <1>3, <2>1 DEF TypeOK
<1>4. CASE ~(Sucursal(w.id) = n /\ tickets[n][w.id] = NoRow)
  <2>1. tickets' = tickets
    BY <1>4 DEF commitInsert
  <2> QED
    BY <1>4, <2>1 DEF TypeOK
<1> QED
  BY <1>3, <1>4

LEMMA CloseRows ==
    ASSUME TypeOK, NEW n \in Nodes, NEW w \in Ops, commitClose(n, w)
    PROVE  /\ tickets' \in [Nodes -> [Ids -> Rows \cup {NoRow}]]
           /\ \A p \in Nodes, t \in Ids : tickets'[p][t] =
                IF p = n /\ t = w.id /\ tickets[p][t] # NoRow
                THEN [eng |-> tickets[p][t].eng, estado |-> "CERRADO"] ELSE tickets[p][t]
<1>1. w.id \in Ids
  BY DEF Ops
<1>2. CASE tickets[n][w.id] # NoRow
  <2>1. tickets[n][w.id] \in Rows
    BY <1>1, <1>2 DEF TypeOK
  <2>2. [tickets[n][w.id] EXCEPT !.estado = "CERRADO"]
            = [eng |-> tickets[n][w.id].eng, estado |-> "CERRADO"]
    BY <2>1 DEF Rows
  <2>3. [eng |-> tickets[n][w.id].eng, estado |-> "CERRADO"] \in Rows
    BY <2>1 DEF Rows
  <2>4. tickets' = [tickets EXCEPT ![n][w.id] =
                      [eng |-> tickets[n][w.id].eng, estado |-> "CERRADO"]]
    BY <1>1, <1>2, <2>2 DEF commitClose, TypeOK
  <2> QED
    BY <1>1, <1>2, <2>3, <2>4 DEF TypeOK
<1>3. CASE tickets[n][w.id] = NoRow
  <2>1. tickets' = tickets
    BY <1>3 DEF commitClose
  <2> QED
    BY <1>3, <2>1 DEF TypeOK
<1> QED
  BY <1>2, <1>3

LEMMA InsertOpens ==
    ASSUME TypeOK, NEW n \in Nodes, NEW w \in Ops, commitInsert(n, w)
    PROVE  \A t \in Ids :
               /\ HasRow(t) => HasRow(t)'
               /\ HasRow(t) => EngineerOf(t)' = EngineerOf(t)
               /\ HasRow(t) => (Open(t)' <=> Open(t))
               /\ ~HasRow(t) /\ Open(t)' =>
                    t = w.id /\ Sucursal(t) = n /\ EngineerOf(t)' = w.eng
               /\ ~HasRow(t) /\ t = w.id /\ Sucursal(t) = n =>
                    Open(t)' /\ EngineerOf(t)' = w.eng
<1> SUFFICES ASSUME NEW t \in Ids
             PROVE  /\ HasRow(t) => HasRow(t)'
                    /\ HasRow(t) => EngineerOf(t)' = EngineerOf(t)
                    /\ HasRow(t) => (Open(t)' <=> Open(t))
                    /\ ~HasRow(t) /\ Open(t)' =>
                         t = w.id /\ Sucursal(t) = n /\ EngineerOf(t)' = w.eng
                    /\ ~HasRow(t) /\ t = w.id /\ Sucursal(t) = n =>
                         Open(t)' /\ EngineerOf(t)' = w.eng
  OBVIOUS
<1>1. Sucursal(t) \in Nodes
  BY SucursalType
<1>2. tickets'[Sucursal(t)][t] =
          IF Sucursal(t) = n /\ t = w.id /\ tickets[Sucursal(t)][t] = NoRow
          THEN [eng |-> w.eng, estado |-> "ABIERTO"] ELSE tickets[Sucursal(t)][t]
  BY <1>1, InsertRows
<1>3. [eng |-> w.eng, estado |-> "ABIERTO"] \in Rows
  BY DEF Ops, Rows
<1>4. [eng |-> w.eng, estado |-> "ABIERTO"] # NoRow
  BY <1>3, NoRowAssumption
<1> QED
  BY <1>2, <1>4 DEF HasRow, Open, EngineerOf

LEMMA CloseCloses ==
    ASSUME TypeOK, NEW n \in Nodes, NEW w \in Ops, commitClose(n, w)
    PROVE  \A t \in Ids :
               /\ HasRow(t)' <=> HasRow(t)
               /\ HasRow(t) => EngineerOf(t)' = EngineerOf(t)
               /\ Open(t)' <=> (Open(t) /\ ~(t = w.id /\ Sucursal(t) = n))
<1> SUFFICES ASSUME NEW t \in Ids
             PROVE  /\ HasRow(t)' <=> HasRow(t)
                    /\ HasRow(t) => EngineerOf(t)' = EngineerOf(t)
                    /\ Open(t)' <=> (Open(t) /\ ~(t = w.id /\ Sucursal(t) = n))
  OBVIOUS
<1>1. Sucursal(t) \in Nodes
  BY SucursalType
<1>2. tickets'[Sucursal(t)][t] =
          IF Sucursal(t) = n /\ t = w.id /\ tickets[Sucursal(t)][t] # NoRow
          THEN [eng |-> tickets[Sucursal(t)][t].eng, estado |-> "CERRADO"]
          ELSE tickets[Sucursal(t)][t]
  BY <1>1, CloseRows
<1>3. tickets[Sucursal(t)][t] # NoRow =>
          [eng |-> tickets[Sucursal(t)][t].eng, estado |-> "CERRADO"] \in Rows
  BY <1>1 DEF TypeOK, Rows
<1>4. tickets[Sucursal(t)][t] # NoRow =>
          [eng |-> tickets[Sucursal(t)][t].eng, estado |-> "CERRADO"] # NoRow
  BY <1>3, NoRowAssumption
<1> QED
  BY <1>2, <1>4 DEF HasRow, Open, EngineerOf

LEMMA SetType ==
    ASSUME TypeOK, NEW n \in Nodes, NEW e \in Engineers, NEW v \in {0, 1},
           SetDisponible(n, e, v)
    PROVE  /\ disponible' \in [Engineers -> {0, 1}]
           /\ \A f \in Engineers : disponible'[f] =
                IF f = e /\ Home[e] = n THEN v ELSE disponible[f]
BY DEF TypeOK, SetDisponible

\* Only the commit handler touches the tables.
LEMMA OthersKeepTables ==
    ASSUME [Next]_vars, \A n \in Nodes : ~HandleCommit(n)
    PROVE  UNCHANGED <<tickets, disponible>>
<1>1. ASSUME NEW n \in Nodes, Raise(n) PROVE UNCHANGED <<tickets, disponible>>
  BY <1>1 DEF Raise, Retry, Acquire, AcquireFails, QueryTimeout, NobodyAvailable,
              InsertTicket, Inserted, MarkBusy, Raised, HandleQuery, dbVars
<1>2. ASSUME NEW n \in Nodes, RaiseTicket(n) \/ ListTickets(n) \/ Close(n)
      PROVE  UNCHANGED <<tickets, disponible>>
  BY <1>2 DEF RaiseTicket, ListTickets, Close, CloseTicket, Closed, dbVars
<1>3. ASSUME NEW n \in Nodes, NEW p \in Nodes, Suspect(n, p) \/ MarkAlive(n, p)
      PROVE  UNCHANGED <<tickets, disponible>>
  BY <1>3 DEF Suspect, MarkAlive, dbVars
<1> QED
  BY <1>1, <1>2, <1>3 DEF Next, vars, dbVars

-----------------------------------------------------------------------------
(* Types, the lock and what operations work on.                            *)

LEMMA TypeInit == Init => TypeOK
BY BoundsAssumption DEF Init, TypeOK, PCs

LEMMA TypeStep == TypeOK /\ Locked /\ Targets /\ [Next]_vars => TypeOK'
<1> SUFFICES ASSUME TypeOK, Locked, Targets, [Next]_vars PROVE TypeOK'
  OBVIOUS
<1>1. ASSUME NEW n \in Nodes, RaiseTicket(n) PROVE TypeOK'
  BY <1>1, BoundsAssumption DEF TypeOK, RaiseTicket, Enter, PCs, countVars, dbVars
<1>2. ASSUME NEW n \in Nodes, Retry(n) PROVE TypeOK'
  <2>1. attempt[n] + 1 \in 0..MaxAttempts
    BY <1>2, BoundsAssumption DEF TypeOK, Locked, Retry
  <2> QED
    BY <1>2, <2>1 DEF TypeOK, Retry, Enter, PCs, countVars, dbVars
<1>3. ASSUME NEW n \in Nodes, Acquire(n) PROVE TypeOK'
  BY <1>3 DEF TypeOK, Acquire, Enter, PCs, countVars, dbVars
<1>4. ASSUME NEW n \in Nodes, AcquireFails(n) PROVE TypeOK'
  <2>1. budget' \in [Kinds -> Nat]
    BY <1>4, SpendType DEF AcquireFails, Kinds
  <2>2. pc' \in [Nodes -> PCs]
    BY <1>4, GiveUpType DEF AcquireFails
  <2> QED
    BY <1>4, <2>1, <2>2 DEF TypeOK, AcquireFails, countVars, dbVars
<1>5. ASSUME NEW n \in Nodes, QueryTimeout(n) PROVE TypeOK'
  <2>1. budget' \in [Kinds -> Nat]
    BY <1>5, SpendType DEF QueryTimeout, Kinds
  <2> QED
    BY <1>5, <2>1 DEF TypeOK, QueryTimeout, countVars, dbVars
<1>6. ASSUME NEW n \in Nodes, NobodyAvailable(n) PROVE TypeOK'
  <2>1. pc' \in [Nodes -> PCs]
    BY <1>6, GiveUpType DEF NobodyAvailable
  <2> QED
    BY <1>6, <2>1 DEF TypeOK, NobodyAvailable, Release, countVars, dbVars
<1>7. ASSUME NEW n \in Nodes, InsertTicket(n) PROVE TypeOK'
  <2>1. PICK e \in firstOf(n) :
          /\ NewId(n) \in Ids
          /\ issued' = [issued EXCEPT ![n] = @ + 1]
          /\ \/ /\ Decide(n, Op("INSERT_TICKET", NewId(n), e))
                /\ Enter(n, "inserting")
                /\ chosen' = [chosen EXCEPT ![n] = e]
                /\ ticket' = [ticket EXCEPT ![n] = NewId(n)]
                /\ UNCHANGED <<lock, budget>>
             \/ /\ NoQuorum
                /\ Release
                /\ GiveUp(n)
                /\ UNCHANGED <<chosen, ticket>>
    BY <1>7 DEF InsertTicket
  <2>2. e \in Engineers
    BY <2>1, FirstSeen DEF TypeOK
  <2>3. issued' \in [Nodes -> 0..MaxTickets]
    BY <2>1, NewIdDrawn DEF TypeOK
  <2>4. /\ seen' \in [Nodes -> SUBSET Engineers]
        /\ UNCHANGED <<attempt, asked, alive, disponible, tickets, orderly>>
    BY <1>7 DEF InsertTicket, TypeOK, dbVars
  <2>5. CASE /\ Decide(n, Op("INSERT_TICKET", NewId(n), e))
             /\ Enter(n, "inserting")
             /\ chosen' = [chosen EXCEPT ![n] = e]
             /\ ticket' = [ticket EXCEPT ![n] = NewId(n)]
             /\ UNCHANGED <<lock, budget>>
    <3>1. Op("INSERT_TICKET", NewId(n), e) \in Ops
      BY <2>1, <2>2, OpType
    <3>2. decided' \in [Nodes -> 0..MaxRounds] /\ commits' \subseteq Commits
      BY <2>5, <3>1, DecideType
    <3> QED
      BY <2>1, <2>2, <2>3, <2>4, <2>5, <3>2 DEF TypeOK, Enter, PCs
  <2>6. CASE /\ NoQuorum
             /\ Release
             /\ GiveUp(n)
             /\ UNCHANGED <<chosen, ticket>>
    <3>1. budget' \in [Kinds -> Nat]
      BY <2>6, SpendType DEF NoQuorum, Kinds
    <3>2. pc' \in [Nodes -> PCs]
      BY <2>6, GiveUpType
    <3> QED
      BY <2>3, <2>4, <2>6, <3>1, <3>2 DEF TypeOK, NoQuorum, Release
  <2> QED
    BY <2>1, <2>5, <2>6
<1>8. ASSUME NEW n \in Nodes, Inserted(n) PROVE TypeOK'
  BY <1>8 DEF TypeOK, Inserted, Enter, PCs, countVars, dbVars
<1>9. ASSUME NEW n \in Nodes, MarkBusy(n) PROVE TypeOK'
  <2>1. ticket[n] \in Ids /\ chosen[n] \in Engineers
    BY <1>9 DEF MarkBusy, Targets, Raising
  <2>2. UNCHANGED <<attempt, asked, seen, issued, alive, disponible, tickets>>
    BY <1>9 DEF MarkBusy, dbVars
  <2>3. CASE /\ Decide(n, Op("UPDATE_INGENIERO_DISPONIBLE", ticket[n], chosen[n]))
             /\ Enter(n, "marking")
             /\ UNCHANGED <<lock, chosen, ticket, orderly, budget>>
    <3>1. Op("UPDATE_INGENIERO_DISPONIBLE", ticket[n], chosen[n]) \in Ops
      BY <2>1, OpType
    <3>2. decided' \in [Nodes -> 0..MaxRounds] /\ commits' \subseteq Commits
      BY <2>3, <3>1, DecideType
    <3> QED
      BY <2>2, <2>3, <3>2 DEF TypeOK, Enter, PCs
  <2>4. CASE NoQuorum /\ Release /\ Return(n) /\ orderly' = FALSE
    <3>1. budget' \in [Kinds -> Nat]
      BY <2>4, SpendType DEF NoQuorum, Kinds
    <3> QED
      BY <2>2, <2>4, <3>1 DEF TypeOK, NoQuorum, Release, Return, Enter, PCs
  <2> QED
    BY <1>9, <2>3, <2>4 DEF MarkBusy
<1>10. ASSUME NEW n \in Nodes, Raised(n) PROVE TypeOK'
  BY <1>10 DEF TypeOK, Raised, Release, Return, Enter, PCs, countVars, dbVars
<1>11. ASSUME NEW n \in Nodes, NEW p \in Nodes, HandleQuery(n, p) PROVE TypeOK'
  <2>1. available(p) \subseteq Engineers
    BY DEF available
  <2> QED
    BY <1>11, <2>1 DEF TypeOK, HandleQuery, countVars, dbVars
<1>12. ASSUME NEW n \in Nodes, ListTickets(n) PROVE TypeOK'
  <2>1. PICK p \in Nodes, t \in Ids :
          /\ tickets[p][t] # NoRow
          /\ ticket' = [ticket EXCEPT ![n] = t]
          /\ chosen' = [chosen EXCEPT ![n] = tickets[p][t].eng]
    BY <1>12 DEF ListTickets, TypeOK
  <2>2. tickets[p][t].eng \in Engineers
    BY <2>1 DEF TypeOK, Rows
  <2> QED
    BY <1>12, <2>1, <2>2 DEF TypeOK, ListTickets, Enter, PCs, countVars, dbVars
<1>13. ASSUME NEW n \in Nodes, CloseTicket(n) PROVE TypeOK'
  <2>1. ticket[n] \in Ids /\ chosen[n] \in Engineers
    BY <1>13 DEF CloseTicket, Targets
  <2>2. UNCHANGED <<lock, attempt, asked, seen, issued, alive, disponible, tickets>>
    BY <1>13 DEF CloseTicket, dbVars
  <2>3. CASE /\ Decide(n, Op("CLOSE_TICKET", ticket[n], chosen[n]))
             /\ Enter(n, "closing")
             /\ orderly' = (orderly /\ StillOpen(ticket[n]))
             /\ UNCHANGED <<chosen, ticket, budget>>
    <3>1. Op("CLOSE_TICKET", ticket[n], chosen[n]) \in Ops
      BY <2>1, OpType
    <3>2. decided' \in [Nodes -> 0..MaxRounds] /\ commits' \subseteq Commits
      BY <2>3, <3>1, DecideType
    <3>3. orderly' \in BOOLEAN
      BY <2>3
    <3> QED
      BY <2>2, <2>3, <3>2, <3>3 DEF TypeOK, Enter, PCs
  <2>4. CASE NoQuorum /\ Return(n) /\ UNCHANGED orderly
    <3>1. budget' \in [Kinds -> Nat]
      BY <2>4, SpendType DEF NoQuorum, Kinds
    <3> QED
      BY <2>2, <2>4, <3>1 DEF TypeOK, NoQuorum, Return, Enter, PCs
  <2> QED
    BY <1>13, <2>3, <2>4 DEF CloseTicket
<1>14. ASSUME NEW n \in Nodes, Closed(n) PROVE TypeOK'
  BY <1>14 DEF TypeOK, Closed, Return, Enter, PCs, countVars, dbVars
<1>15. ASSUME NEW n \in Nodes, HandleCommit(n) PROVE TypeOK'
  <2>1. PICK c \in commits :
          /\ commitInsert(n, c.what) \/ commitClose(n, c.what) \/ commitBusy(n, c.what)
          /\ commits' = commits \ {c}
    BY <1>15 DEF HandleCommit
  <2>2. c.what \in Ops /\ c.what.eng \in Engineers
    BY DEF TypeOK, Commits, Ops
  <2>3. tickets' \in [Nodes -> [Ids -> Rows \cup {NoRow}]]
    BY <2>1, <2>2, InsertRows, CloseRows DEF commitBusy, TypeOK
  <2>4. disponible' \in [Engineers -> {0, 1}]
    BY <2>1, <2>2, SetType DEF commitInsert, commitClose, commitBusy, TypeOK
  <2> QED
    BY <1>15, <2>1, <2>3, <2>4 DEF HandleCommit, TypeOK, opVars, countVars
<1>16. ASSUME NEW n \in Nodes, NEW p \in Nodes, Suspect(n, p) PROVE TypeOK'
  <2>1. budget' \in [Kinds -> Nat]
    BY <1>16, SpendType DEF Suspect, Kinds
  <2> QED
    BY <1>16, <2>1 DEF TypeOK, Suspect, opVars, countVars, dbVars
<1>17. ASSUME NEW n \in Nodes, NEW p \in Nodes, MarkAlive(n, p) PROVE TypeOK'
  BY <1>17 DEF TypeOK, MarkAlive, opVars, countVars, dbVars
<1>18. CASE UNCHANGED vars
  BY <1>18 DEF TypeOK, vars, opVars, countVars, dbVars
<1> QED
  BY <1>1, <1>2, <1>3, <1>4, <1>5, <1>6, <1>7, <1>8, <1>9, <1>10, <1>11, <1>12,
     <1>13, <1>14, <1>15, <1>16, <1>17, <1>18 DEF Next, Raise, Close

LEMMA LockedStep == TypeOK /\ Locked /\ [Next]_vars => Locked'
<1> SUFFICES ASSUME TypeOK, Locked, [Next]_vars PROVE Locked'
  OBVIOUS
<1> USE DEF Locked, Raising
<1>1. ASSUME NEW n \in Nodes, RaiseTicket(n) PROVE Locked'
  BY <1>1 DEF TypeOK, RaiseTicket, Enter
<1>2. ASSUME NEW n \in Nodes, Retry(n) PROVE Locked'
  BY <1>2 DEF TypeOK, Retry, Enter
<1>3. ASSUME NEW n \in Nodes, Acquire(n) PROVE Locked'
  BY <1>3, NoNodeAssumption DEF TypeOK, Acquire, Enter
<1>4. ASSUME NEW n \in Nodes, AcquireFails(n) PROVE Locked'
  BY <1>4 DEF TypeOK, AcquireFails, GiveUp, Enter
<1>5. ASSUME NEW n \in Nodes, QueryTimeout(n) PROVE Locked'
  BY <1>5 DEF TypeOK, QueryTimeout
<1>6. ASSUME NEW n \in Nodes, NobodyAvailable(n) PROVE Locked'
  BY <1>6 DEF TypeOK, NobodyAvailable, GiveUp, Enter
<1>7. ASSUME NEW n \in Nodes, InsertTicket(n) PROVE Locked'
  <2>1. pc[n] = "list" /\ asked[n] = {} /\ asked' = asked /\ attempt' = attempt
    BY <1>7 DEF InsertTicket
  <2>2. CASE Enter(n, "inserting") /\ lock' = lock
    BY <2>1, <2>2 DEF TypeOK, Enter
  <2>3. CASE GiveUp(n)
    BY <2>1, <2>3 DEF TypeOK, GiveUp, Enter
  <2> QED
    BY <1>7, <2>2, <2>3 DEF InsertTicket
<1>8. ASSUME NEW n \in Nodes, Inserted(n) PROVE Locked'
  BY <1>8 DEF TypeOK, Inserted, Enter
<1>9. ASSUME NEW n \in Nodes, MarkBusy(n) PROVE Locked'
  BY <1>9 DEF TypeOK, MarkBusy, Enter, Return
<1>10. ASSUME NEW n \in Nodes, Raised(n) PROVE Locked'
  BY <1>10 DEF TypeOK, Raised, Enter, Return
<1>11. ASSUME NEW n \in Nodes, NEW p \in Nodes, HandleQuery(n, p) PROVE Locked'
  BY <1>11 DEF TypeOK, HandleQuery
<1>12. ASSUME NEW n \in Nodes, ListTickets(n) PROVE Locked'
  BY <1>12 DEF TypeOK, ListTickets, Enter
<1>13. ASSUME NEW n \in Nodes, CloseTicket(n) PROVE Locked'
  BY <1>13 DEF TypeOK, CloseTicket, Enter, Return
<1>14. ASSUME NEW n \in Nodes, Closed(n) PROVE Locked'
  BY <1>14 DEF TypeOK, Closed, Enter, Return
<1>15. ASSUME NEW n \in Nodes, HandleCommit(n) PROVE Locked'
  BY <1>15 DEF HandleCommit, opVars
<1>16. ASSUME NEW n \in Nodes, NEW p \in Nodes, Suspect(n, p) \/ MarkAlive(n, p) PROVE Locked'
  BY <1>16 DEF Suspect, MarkAlive, opVars
<1>17. CASE UNCHANGED vars
  BY <1>17 DEF vars, opVars
<1> QED
  BY <1>1, <1>2, <1>3, <1>4, <1>5, <1>6, <1>7, <1>8, <1>9, <1>10, <1>11, <1>12,
     <1>13, <1>14, <1>15, <1>16, <1>17 DEF Next, Raise, Close

\* Rows stay, and so do their engineers, whatever is done to the tables.
LEMMA RowsStay ==
    ASSUME TypeOK, [Next]_vars
    PROVE  \A t \in Ids : HasRow(t) => HasRow(t)' /\ EngineerOf(t)' = EngineerOf(t)
<1>1. CASE \A n \in Nodes : ~HandleCommit(n)
  BY <1>1, OthersKeepTables, SameRows
<1>2. ASSUME NEW n \in Nodes, HandleCommit(n)
      PROVE  \A t \in Ids : HasRow(t) => HasRow(t)' /\ EngineerOf(t)' = EngineerOf(t)
  <2>1. PICK c \in commits :
          commitInsert(n, c.what) \/ commitClose(n, c.what) \/ commitBusy(n, c.what)
    BY <1>2 DEF HandleCommit
  <2>2. c.what \in Ops
    BY DEF TypeOK, Commits
  <2>3. CASE commitInsert(n, c.what)
    BY <2>2, <2>3, InsertOpens
  <2>4. CASE commitClose(n, c.what)
    BY <2>2, <2>4, CloseCloses
  <2>5. CASE commitBusy(n, c.what)
    BY <2>5, SameRows DEF commitBusy
  <2> QED
    BY <2>1, <2>3, <2>4, <2>5
<1> QED
  BY <1>1, <1>2

LEMMA TargetsStep ==
    TypeOK /\ Locked /\ Targets /\ Numbered /\ [Next]_vars => Targets'
<1> SUFFICES ASSUME TypeOK, Locked, Targets, Numbered, [Next]_vars PROVE Targets'
  OBVIOUS
<1>0. \A t \in Ids : HasRow(t) => HasRow(t)' /\ EngineerOf(t)' = EngineerOf(t)
  BY RowsStay
<1> SUFFICES ASSUME NEW m \in Nodes
             PROVE  /\ pc'[m] \in Raising => ticket'[m] = <<m, issued'[m]>>
                    /\ pc'[m] \in Raising \cup {"listed", "closing"} =>
                         ticket'[m] \in Ids /\ chosen'[m] \in Engineers
                    /\ \A t \in Ids : t = ticket'[m] /\ pc'[m] \in {"listed", "closing"} =>
                         HasRow(t)' /\ EngineerOf(t)' = chosen'[m]
  BY DEF Targets, HasRow, EngineerOf, Raising
<1>a. /\ pc[m] \in Raising => ticket[m] = <<m, issued[m]>>
      /\ pc[m] \in Raising \cup {"listed", "closing"} =>
           ticket[m] \in Ids /\ chosen[m] \in Engineers
      /\ \A t \in Ids : t = ticket[m] /\ pc[m] \in {"listed", "closing"} =>
           HasRow(t) /\ EngineerOf(t) = chosen[m]
  BY DEF Targets
<1> USE DEF Raising
\* What this operator works on changes only when this operator moves.
<1>1. CASE UNCHANGED <<pc[m], ticket[m], chosen[m], issued[m]>>
  BY <1>1, <1>0, <1>a
<1>2. CASE pc'[m] \notin Raising \cup {"listed", "closing"}
  BY <1>2
<1>3. ASSUME NEW n \in Nodes, RaiseTicket(n) \/ Retry(n) \/ Acquire(n)
      PROVE  UNCHANGED <<pc[m], ticket[m], chosen[m], issued[m]>>
             \/ pc'[m] \notin Raising \cup {"listed", "closing"}
  BY <1>3 DEF TypeOK, RaiseTicket, Retry, Acquire, Enter, countVars
<1>4. ASSUME NEW n \in Nodes, AcquireFails(n) \/ NobodyAvailable(n)
      PROVE  UNCHANGED <<pc[m], ticket[m], chosen[m], issued[m]>>
             \/ pc'[m] \notin Raising \cup {"listed", "closing"}
  BY <1>4 DEF TypeOK, AcquireFails, NobodyAvailable, GiveUp, Enter, countVars
<1>5. ASSUME NEW n \in Nodes, Raised(n) \/ Closed(n)
      PROVE  UNCHANGED <<pc[m], ticket[m], chosen[m], issued[m]>>
             \/ pc'[m] \notin Raising \cup {"listed", "closing"}
  BY <1>5 DEF TypeOK, Raised, Closed, Return, Enter, countVars
<1>6. ASSUME NEW n \in Nodes, NEW p \in Nodes,
             QueryTimeout(n) \/ HandleQuery(n, p) \/ HandleCommit(n)
               \/ Suspect(n, p) \/ MarkAlive(n, p)
      PROVE  UNCHANGED <<pc[m], ticket[m], chosen[m], issued[m]>>
  BY <1>6 DEF QueryTimeout, HandleQuery, HandleCommit, Suspect, MarkAlive, opVars, countVars
<1>7. CASE UNCHANGED vars
  BY <1>7, <1>1 DEF vars, opVars, countVars
<1>8. ASSUME NEW n \in Nodes, InsertTicket(n)
      PROVE  /\ pc'[m] \in Raising => ticket'[m] = <<m, issued'[m]>>
             /\ pc'[m] \in Raising \cup {"listed", "closing"} =>
                  ticket'[m] \in Ids /\ chosen'[m] \in Engineers
             /\ \A t \in Ids : t = ticket'[m] /\ pc'[m] \in {"listed", "closing"} =>
                  HasRow(t)' /\ EngineerOf(t)' = chosen'[m]
  <2>1. PICK e \in firstOf(n) :
          /\ NewId(n) \in Ids
          /\ issued' = [issued EXCEPT ![n] = @ + 1]
          /\ \/ /\ Enter(n, "inserting")
                /\ chosen' = [chosen EXCEPT ![n] = e]
                /\ ticket' = [ticket EXCEPT ![n] = NewId(n)]
             \/ GiveUp(n) /\ UNCHANGED <<chosen, ticket>>
    BY <1>8 DEF InsertTicket
  <2>2. CASE m # n
    <3>1. UNCHANGED <<pc[m], ticket[m], chosen[m], issued[m]>>
      BY <2>1, <2>2 DEF TypeOK, Enter, GiveUp
    <3> QED
      BY <1>1, <3>1
  <2>3. CASE m = n /\ GiveUp(n)
    BY <1>2, <2>3 DEF TypeOK, GiveUp, Enter
  <2>4. CASE /\ m = n /\ Enter(n, "inserting")
             /\ chosen' = [chosen EXCEPT ![n] = e]
             /\ ticket' = [ticket EXCEPT ![n] = NewId(n)]
    <3>1. e \in Engineers
      BY FirstSeen DEF TypeOK
    <3>2. pc'[m] = "inserting" /\ chosen'[m] = e /\ ticket'[m] = NewId(n)
      BY <2>4 DEF TypeOK, Enter
    <3>3. issued'[m] = issued[n] + 1
      BY <2>1, <2>4 DEF TypeOK
    <3> QED
      BY <2>1, <2>4, <3>1, <3>2, <3>3 DEF NewId
  <2> QED
    BY <2>1, <2>2, <2>3, <2>4
<1>9. ASSUME NEW n \in Nodes, Inserted(n) \/ MarkBusy(n)
      PROVE  \/ UNCHANGED <<pc[m], ticket[m], chosen[m], issued[m]>>
             \/ pc'[m] \notin Raising \cup {"listed", "closing"}
             \/ /\ pc[m] \in Raising /\ pc'[m] \in Raising
                /\ UNCHANGED <<ticket[m], chosen[m], issued[m]>>
  BY <1>9 DEF TypeOK, Inserted, MarkBusy, Return, Enter, countVars
<1>10. ASSUME NEW n \in Nodes, CloseTicket(n)
       PROVE  \/ UNCHANGED <<pc[m], ticket[m], chosen[m], issued[m]>>
              \/ pc'[m] \notin Raising \cup {"listed", "closing"}
              \/ /\ pc[m] = "listed" /\ pc'[m] = "closing"
                 /\ UNCHANGED <<ticket[m], chosen[m], issued[m]>>
  BY <1>10 DEF TypeOK, CloseTicket, Return, Enter, countVars
<1>11. ASSUME NEW n \in Nodes, ListTickets(n)
       PROVE  /\ pc'[m] \in Raising => ticket'[m] = <<m, issued'[m]>>
              /\ pc'[m] \in Raising \cup {"listed", "closing"} =>
                   ticket'[m] \in Ids /\ chosen'[m] \in Engineers
              /\ \A t \in Ids : t = ticket'[m] /\ pc'[m] \in {"listed", "closing"} =>
                   HasRow(t)' /\ EngineerOf(t)' = chosen'[m]
  <2>1. PICK p \in Nodes, t \in Ids :
          /\ tickets[p][t] # NoRow
          /\ ticket' = [ticket EXCEPT ![n] = t]
          /\ chosen' = [chosen EXCEPT ![n] = tickets[p][t].eng]
    BY <1>11 DEF ListTickets, TypeOK
  <2>2. Enter(n, "listed") /\ issued' = issued
    BY <1>11 DEF ListTickets, countVars
  <2>3. CASE m # n
    <3>1. UNCHANGED <<pc[m], ticket[m], chosen[m], issued[m]>>
      BY <2>1, <2>2, <2>3 DEF TypeOK, Enter
    <3> QED
      BY <1>1, <3>1
  <2>4. CASE m = n
    <3>1. p = Sucursal(t)
      BY <2>1 DEF Numbered
    <3>2. HasRow(t) /\ EngineerOf(t) = tickets[p][t].eng
      BY <2>1, <3>1 DEF HasRow, EngineerOf
    <3>3. tickets[p][t].eng \in Engineers
      BY <2>1 DEF TypeOK, Rows
    <3>4. pc'[m] = "listed" /\ ticket'[m] = t /\ chosen'[m] = tickets[p][t].eng
      BY <2>1, <2>2, <2>4 DEF TypeOK, Enter
    <3> QED
      BY <1>0, <3>2, <3>3, <3>4
  <2> QED
    BY <2>3, <2>4
<1>12. CASE pc[m] \in Raising /\ pc'[m] \in Raising /\ UNCHANGED <<ticket[m], chosen[m], issued[m]>>
  BY <1>12, <1>a
<1>13. CASE pc[m] = "listed" /\ pc'[m] = "closing" /\ UNCHANGED <<ticket[m], chosen[m], issued[m]>>
  BY <1>13, <1>0, <1>a
<1> QED
  BY <1>1, <1>2, <1>3, <1>4, <1>5, <1>6, <1>7, <1>8, <1>9, <1>10, <1>11, <1>12, <1>13
     DEF Next, Raise, Close

-----------------------------------------------------------------------------
(* What a step may do to the tables and to the COMMITs.                    *)

LEMMA HandleEffect ==
    ASSUME TypeOK, NEW n \in Nodes, HandleCommit(n)
    PROVE  \E c \in commits :
             /\ c.to = n /\ c.what \in Ops /\ c.what.id \in Ids /\ c.what.eng \in Engineers
             /\ commits' = commits \ {c}
             /\ commitInsert(n, c.what) \/ commitClose(n, c.what) \/ commitBusy(n, c.what)
BY DEF HandleCommit, TypeOK, Commits, Ops

LEMMA OpenComes ==
    ASSUME TypeOK, [Next]_vars
    PROVE  \A t \in Ids : ~Open(t) /\ Open(t)' =>
             /\ \E c \in commits : /\ c.to = Sucursal(t) /\ c.what.op = "INSERT_TICKET"
                                   /\ c.what.id = t /\ c.what.eng = EngineerOf(t)'
             /\ UNCHANGED opVars /\ commits' \subseteq commits
<1>1. CASE \A n \in Nodes : ~HandleCommit(n)
  BY <1>1, OthersKeepTables, SameRows
<1>2. ASSUME NEW n \in Nodes, HandleCommit(n), NEW t \in Ids, ~Open(t), Open(t)'
      PROVE  /\ \E c \in commits : /\ c.to = Sucursal(t) /\ c.what.op = "INSERT_TICKET"
                                   /\ c.what.id = t /\ c.what.eng = EngineerOf(t)'
             /\ UNCHANGED opVars /\ commits' \subseteq commits
  <2>1. PICK c \in commits :
          /\ c.to = n /\ c.what \in Ops
          /\ commits' = commits \ {c}
          /\ commitInsert(n, c.what) \/ commitClose(n, c.what) \/ commitBusy(n, c.what)
    BY <1>2, HandleEffect
  <2>2. ~commitClose(n, c.what)
    BY <1>2, <2>1, CloseCloses
  <2>3. ~commitBusy(n, c.what)
    BY <1>2, SameRows DEF commitBusy
  <2>4. commitInsert(n, c.what)
    BY <2>1, <2>2, <2>3
  <2>5. t = c.what.id /\ Sucursal(t) = n /\ EngineerOf(t)' = c.what.eng
    BY <1>2, <2>1, <2>4, InsertOpens
  <2>6. c.what.op = "INSERT_TICKET"
    BY <2>4 DEF commitInsert
  <2>7. UNCHANGED opVars
    BY <1>2 DEF HandleCommit
  <2> QED
    BY <2>1, <2>5, <2>6, <2>7
<1> QED
  BY <1>1, <1>2

LEMMA OpenGoes ==
    ASSUME TypeOK, [Next]_vars
    PROVE  \A t \in Ids : Open(t) /\ ~Open(t)' =>
             \E c \in commits : /\ c.to = Sucursal(t) /\ c.what.op = "CLOSE_TICKET"
                                /\ c.what.id = t /\ commits' = commits \ {c}
<1>1. CASE \A n \in Nodes : ~HandleCommit(n)
  BY <1>1, OthersKeepTables, SameRows
<1>2. ASSUME NEW n \in Nodes, HandleCommit(n), NEW t \in Ids, Open(t), ~Open(t)'
      PROVE  \E c \in commits : /\ c.to = Sucursal(t) /\ c.what.op = "CLOSE_TICKET"
                                /\ c.what.id = t /\ commits' = commits \ {c}
  <2>1. PICK c \in commits :
          /\ c.to = n /\ c.what \in Ops
          /\ commits' = commits \ {c}
          /\ commitInsert(n, c.what) \/ commitClose(n, c.what) \/ commitBusy(n, c.what)
    BY <1>2, HandleEffect
  <2>2. ~commitInsert(n, c.what)
    BY <1>2, <2>1, InsertOpens, OpenHasRow
  <2>3. ~commitBusy(n, c.what)
    BY <1>2, SameRows DEF commitBusy
  <2>4. commitClose(n, c.what)
    BY <2>1, <2>2, <2>3
  <2>5. t = c.what.id /\ Sucursal(t) = n
    BY <1>2, <2>1, <2>4, CloseCloses
  <2>6. c.what.op = "CLOSE_TICKET"
    BY <2>4 DEF commitClose
  <2> QED
    BY <2>1, <2>5, <2>6
<1> QED
  BY <1>1, <1>2

LEMMA BusyComes ==
    ASSUME TypeOK, [Next]_vars
    PROVE  \A e \in Engineers : disponible[e] # 0 /\ disponible'[e] = 0 =>
             \E c \in commits : /\ c.to = Home[e] /\ c.what.eng = e
                                /\ c.what.op = "UPDATE_INGENIERO_DISPONIBLE"
<1>1. CASE \A n \in Nodes : ~HandleCommit(n)
  BY <1>1, OthersKeepTables
<1>2. ASSUME NEW n \in Nodes, HandleCommit(n),
             NEW e \in Engineers, disponible[e] # 0, disponible'[e] = 0
      PROVE  \E c \in commits : /\ c.to = Home[e] /\ c.what.eng = e
                                /\ c.what.op = "UPDATE_INGENIERO_DISPONIBLE"
  <2>1. PICK c \in commits :
          /\ c.to = n /\ c.what \in Ops /\ c.what.eng \in Engineers
          /\ commitInsert(n, c.what) \/ commitClose(n, c.what) \/ commitBusy(n, c.what)
    BY <1>2, HandleEffect
  <2>2. ~commitInsert(n, c.what)
    BY <1>2 DEF commitInsert
  <2>3. ~commitClose(n, c.what)
    BY <1>2, <2>1, SetType DEF commitClose
  <2>4. commitBusy(n, c.what)
    BY <2>1, <2>2, <2>3
  <2>5. c.what.eng = e /\ Home[e] = n
    BY <1>2, <2>1, <2>4, SetType DEF commitBusy
  <2> QED
    BY <2>1, <2>4, <2>5 DEF commitBusy
<1> QED
  BY <1>1, <1>2

LEMMA BusyGoes ==
    ASSUME TypeOK, [Next]_vars
    PROVE  \A e \in Engineers : disponible[e] = 0 /\ disponible'[e] # 0 =>
             \E c \in commits : /\ c.to = Home[e] /\ c.what.eng = e
                                /\ c.what.op = "CLOSE_TICKET" /\ commits' = commits \ {c}
<1>1. CASE \A n \in Nodes : ~HandleCommit(n)
  BY <1>1, OthersKeepTables
<1>2. ASSUME NEW n \in Nodes, HandleCommit(n),
             NEW e \in Engineers, disponible[e] = 0, disponible'[e] # 0
      PROVE  \E c \in commits : /\ c.to = Home[e] /\ c.what.eng = e
                                /\ c.what.op = "CLOSE_TICKET" /\ commits' = commits \ {c}
  <2>1. PICK c \in commits :
          /\ c.to = n /\ c.what \in Ops /\ c.what.eng \in Engineers
          /\ commits' = commits \ {c}
          /\ commitInsert(n, c.what) \/ commitClose(n, c.what) \/ commitBusy(n, c.what)
    BY <1>2, HandleEffect
  <2>2. ~commitInsert(n, c.what)
    BY <1>2 DEF commitInsert
  <2>3. ~commitBusy(n, c.what)
    BY <1>2, <2>1, SetType DEF commitBusy
  <2>4. commitClose(n, c.what)
    BY <2>1, <2>2, <2>3
  <2>5. c.what.eng = e /\ Home[e] = n
    BY <1>2, <2>1, <2>4, SetType DEF commitClose
  <2> QED
    BY <2>1, <2>4, <2>5 DEF commitClose
<1> QED
  BY <1>1, <1>2

\* A COMMIT that is gone was handled.
LEMMA CommitGone ==
    ASSUME TypeOK, [Next]_vars, NEW c \in commits, c \notin commits'
    PROVE  /\ UNCHANGED opVars
           /\ c.what.op = "CLOSE_TICKET" =>
                /\ c.to = Sucursal(c.what.id) => ~Open(c.what.id)'
                /\ c.to = Home[c.what.eng] => disponible'[c.what.eng] = 1
           /\ c.what.op = "UPDATE_INGENIERO_DISPONIBLE" =>
                (c.to = Home[c.what.eng] => disponible'[c.what.eng] = 0)
           /\ c.what.op = "INSERT_TICKET" /\ c.to = Sucursal(c.what.id) /\ ~HasRow(c.what.id) =>
                Open(c.what.id)' /\ EngineerOf(c.what.id)' = c.what.eng
<1>1. \E n \in Nodes : HandleCommit(n)
  <2>1. ASSUME NEW n \in Nodes, Raise(n) PROVE commits \subseteq commits'
    BY <2>1 DEF Raise, Retry, Acquire, AcquireFails, QueryTimeout, NobodyAvailable, InsertTicket,
                Inserted, MarkBusy, Raised, HandleQuery, Decide, NoQuorum
  <2>2. ASSUME NEW n \in Nodes, RaiseTicket(n) \/ ListTickets(n) \/ Close(n)
        PROVE  commits \subseteq commits'
    BY <2>2 DEF RaiseTicket, ListTickets, Close, CloseTicket, Closed, Decide, NoQuorum
  <2>3. ASSUME NEW n \in Nodes, NEW p \in Nodes, Suspect(n, p) \/ MarkAlive(n, p)
        PROVE  commits \subseteq commits'
    BY <2>3 DEF Suspect, MarkAlive
  <2> QED
    BY <2>1, <2>2, <2>3 DEF Next, vars
<1>2. PICK n \in Nodes : HandleCommit(n)
  BY <1>1
<1>3. PICK d \in commits :
          /\ d.to = n /\ d.what \in Ops /\ d.what.id \in Ids /\ d.what.eng \in Engineers
          /\ commits' = commits \ {d}
          /\ commitInsert(n, d.what) \/ commitClose(n, d.what) \/ commitBusy(n, d.what)
  BY <1>2, HandleEffect
<1>4. c = d
  BY <1>3
<1>5. UNCHANGED opVars
  BY <1>2 DEF HandleCommit
<1>6. ASSUME c.what.op = "CLOSE_TICKET"
      PROVE  /\ c.to = Sucursal(c.what.id) => ~Open(c.what.id)'
             /\ c.to = Home[c.what.eng] => disponible'[c.what.eng] = 1
  <2>1. commitClose(n, c.what)
    BY <1>3, <1>4, <1>6 DEF commitInsert, commitBusy
  <2>2. \A t \in Ids : t = c.what.id /\ Sucursal(t) = n => ~Open(t)'
    BY <1>3, <1>4, <2>1, CloseCloses
  <2>3. c.to = Sucursal(c.what.id) => ~Open(c.what.id)'
    BY <1>3, <1>4, <2>2 DEF Open
  <2>4. c.to = Home[c.what.eng] => disponible'[c.what.eng] = 1
    BY <1>3, <1>4, <2>1, SetType DEF commitClose
  <2> QED
    BY <2>3, <2>4
<1>7. ASSUME c.what.op = "UPDATE_INGENIERO_DISPONIBLE", c.to = Home[c.what.eng]
      PROVE  disponible'[c.what.eng] = 0
  <2>1. commitBusy(n, c.what)
    BY <1>3, <1>4, <1>7 DEF commitInsert, commitClose
  <2> QED
    BY <1>3, <1>4, <1>7, <2>1, SetType DEF commitBusy
<1>8. ASSUME c.what.op = "INSERT_TICKET", c.to = Sucursal(c.what.id), ~HasRow(c.what.id)
      PROVE  Open(c.what.id)' /\ EngineerOf(c.what.id)' = c.what.eng
  <2>1. commitInsert(n, c.what)
    BY <1>3, <1>4, <1>8 DEF commitClose, commitBusy
  <2>2. \A t \in Ids : t = c.what.id /\ Sucursal(t) = n /\ ~HasRow(t) =>
            Open(t)' /\ EngineerOf(t)' = c.what.eng
    BY <1>3, <1>4, <2>1, InsertOpens
  <2> QED
    BY <1>3, <1>4, <1>8, <2>2 DEF Open, EngineerOf, HasRow
<1> QED
  BY <1>5, <1>6, <1>7, <1>8

\* What InsertTicket does when its round is decided, and when it is not.
LEMMA InsertEffect ==
    ASSUME TypeOK, NEW n \in Nodes, InsertTicket(n)
    PROVE  /\ pc[n] = "list" /\ \A m \in Nodes \ {n} : pc'[m] = pc[m]
           /\ \/ \E e \in seen[n] : /\ NewId(n) \in Ids
                                    /\ Decide(n, Op("INSERT_TICKET", NewId(n), e))
                                    /\ pc'[n] = "inserting" /\ lock' = lock
                                    /\ ticket' = [ticket EXCEPT ![n] = NewId(n)]
                                    /\ chosen' = [chosen EXCEPT ![n] = e]
              \/ /\ pc'[n] \in {"retry", "idle"}
                 /\ UNCHANGED <<chosen, ticket, decided, commits>>
<1>1. PICK e \in firstOf(n) :
        /\ NewId(n) \in Ids
        /\ \/ /\ Decide(n, Op("INSERT_TICKET", NewId(n), e))
              /\ Enter(n, "inserting")
              /\ chosen' = [chosen EXCEPT ![n] = e]
              /\ ticket' = [ticket EXCEPT ![n] = NewId(n)]
              /\ UNCHANGED <<lock, budget>>
           \/ /\ NoQuorum
              /\ GiveUp(n)
              /\ UNCHANGED <<chosen, ticket>>
  BY DEF InsertTicket
<1>2. pc[n] = "list" /\ e \in seen[n]
  BY FirstSeen DEF InsertTicket
<1>3. CASE /\ Decide(n, Op("INSERT_TICKET", NewId(n), e))
           /\ Enter(n, "inserting")
           /\ chosen' = [chosen EXCEPT ![n] = e]
           /\ ticket' = [ticket EXCEPT ![n] = NewId(n)]
           /\ UNCHANGED <<lock, budget>>
  <2>1. pc'[n] = "inserting" /\ \A m \in Nodes \ {n} : pc'[m] = pc[m]
    BY <1>3 DEF Enter, TypeOK
  <2> QED
    BY <1>1, <1>2, <1>3, <2>1
<1>4. CASE NoQuorum /\ GiveUp(n) /\ UNCHANGED <<chosen, ticket>>
  <2>1. pc'[n] \in {"retry", "idle"} /\ \A m \in Nodes \ {n} : pc'[m] = pc[m]
    BY <1>4, GiveUpType DEF TypeOK
  <2>2. UNCHANGED <<decided, commits>>
    BY <1>4 DEF NoQuorum
  <2> QED
    BY <1>2, <1>4, <2>1, <2>2
<1> QED
  BY <1>1, <1>3, <1>4

\* What the operator of a node does changes only when that node moves.
LEMMA OperatorMoves ==
    ASSUME TypeOK, [Next]_vars, NEW m \in Nodes
    PROVE  \/ UNCHANGED <<pc[m], ticket[m], chosen[m], decided[m]>>
           \/ /\ pc[m] \in {"idle", "retry", "acquire", "list", "listed", "closing", "marking"}
              /\ pc'[m] \notin Raising
           \/ InsertTicket(m) \/ Inserted(m) \/ MarkBusy(m)
<1> USE DEF Raising
<1>1. ASSUME NEW n \in Nodes,
             RaiseTicket(n) \/ Retry(n) \/ Acquire(n) \/ Raised(n) \/ ListTickets(n) \/ Closed(n)
      PROVE  \/ UNCHANGED <<pc[m], ticket[m], chosen[m], decided[m]>>
             \/ /\ pc[m] \in {"idle", "retry", "acquire", "list", "listed", "closing", "marking"}
                /\ pc'[m] \notin Raising
  BY <1>1 DEF TypeOK, RaiseTicket, Retry, Acquire, Raised, ListTickets, Closed, Return, Enter,
              countVars
<1>2. ASSUME NEW n \in Nodes, AcquireFails(n) \/ NobodyAvailable(n)
      PROVE  \/ UNCHANGED <<pc[m], ticket[m], chosen[m], decided[m]>>
             \/ pc[m] \in {"acquire", "list"} /\ pc'[m] \notin Raising
  BY <1>2 DEF TypeOK, AcquireFails, NobodyAvailable, GiveUp, Enter, countVars
<1>3. ASSUME NEW n \in Nodes, NEW p \in Nodes,
             QueryTimeout(n) \/ HandleQuery(n, p) \/ HandleCommit(n)
               \/ Suspect(n, p) \/ MarkAlive(n, p)
      PROVE  UNCHANGED <<pc[m], ticket[m], chosen[m], decided[m]>>
  BY <1>3 DEF QueryTimeout, HandleQuery, HandleCommit, Suspect, MarkAlive, opVars, countVars
<1>4. ASSUME NEW n \in Nodes, n # m, Inserted(n) \/ MarkBusy(n)
      PROVE  UNCHANGED <<pc[m], ticket[m], chosen[m], decided[m]>>
  BY <1>4 DEF TypeOK, Inserted, MarkBusy, Decide, NoQuorum, Return, Enter, countVars
<1>5. ASSUME NEW n \in Nodes, n # m, InsertTicket(n)
      PROVE  UNCHANGED <<pc[m], ticket[m], chosen[m], decided[m]>>
  BY <1>5, InsertEffect DEF TypeOK, Decide
<1>6. ASSUME NEW n \in Nodes, CloseTicket(n)
      PROVE  \/ UNCHANGED <<pc[m], ticket[m], chosen[m], decided[m]>>
             \/ pc[m] = "listed" /\ pc'[m] \notin Raising
  BY <1>6 DEF TypeOK, CloseTicket, Decide, NoQuorum, Return, Enter
<1>7. CASE UNCHANGED vars
  BY <1>7 DEF vars, opVars, countVars
<1> QED
  BY <1>1, <1>2, <1>3, <1>4, <1>5, <1>6, <1>7 DEF Next, Raise, Close

\* A COMMIT that is new belongs to a round that has just been decided.
LEMMA CommitNew ==
    ASSUME TypeOK, [Next]_vars, NEW c \in commits', c \notin commits
    PROVE  \E n \in Nodes :
             /\ Decide(n, c.what) /\ c.round = <<n, decided'[n]>>
             /\ UNCHANGED <<tickets, disponible>>
             /\ \/ /\ pc[n] = "list" /\ pc'[n] = "inserting" /\ NewId(n) \in Ids
                   /\ c.what = Op("INSERT_TICKET", ticket'[n], chosen'[n])
                   /\ ticket'[n] = NewId(n) /\ chosen'[n] \in seen[n]
                \/ /\ pc[n] = "busy"
                   /\ c.what = Op("UPDATE_INGENIERO_DISPONIBLE", ticket[n], chosen[n])
                \/ /\ pc[n] = "listed" /\ c.what = Op("CLOSE_TICKET", ticket[n], chosen[n])
                   /\ orderly' = (orderly /\ StillOpen(ticket[n]))
<1>0. ASSUME NEW n \in Nodes, NEW w, Decide(n, w)
      PROVE  c.what = w /\ c.round = <<n, decided'[n]>>
  BY <1>0 DEF TypeOK, Decide
<1>1. ASSUME NEW n \in Nodes, InsertTicket(n)
      PROVE  /\ Decide(n, c.what) /\ c.round = <<n, decided'[n]>>
             /\ UNCHANGED <<tickets, disponible>>
             /\ pc[n] = "list" /\ pc'[n] = "inserting" /\ NewId(n) \in Ids
             /\ c.what = Op("INSERT_TICKET", ticket'[n], chosen'[n])
             /\ ticket'[n] = NewId(n) /\ chosen'[n] \in seen[n]
  <2>1. UNCHANGED <<tickets, disponible>>
    BY <1>1 DEF InsertTicket, dbVars
  <2>2. PICK e \in seen[n] : /\ NewId(n) \in Ids
                             /\ Decide(n, Op("INSERT_TICKET", NewId(n), e))
                             /\ pc'[n] = "inserting"
                             /\ ticket' = [ticket EXCEPT ![n] = NewId(n)]
                             /\ chosen' = [chosen EXCEPT ![n] = e]
    BY <1>1, InsertEffect
  <2>3. ticket'[n] = NewId(n) /\ chosen'[n] = e
    BY <2>2 DEF TypeOK
  <2>4. c.what = Op("INSERT_TICKET", NewId(n), e) /\ c.round = <<n, decided'[n]>>
    BY <1>0, <2>2
  <2> QED
    BY <1>1, <2>1, <2>2, <2>3, <2>4, InsertEffect
<1>2. ASSUME NEW n \in Nodes, MarkBusy(n)
      PROVE  /\ Decide(n, c.what) /\ c.round = <<n, decided'[n]>>
             /\ UNCHANGED <<tickets, disponible>> /\ pc[n] = "busy"
             /\ c.what = Op("UPDATE_INGENIERO_DISPONIBLE", ticket[n], chosen[n])
  <2>1. UNCHANGED <<tickets, disponible>> /\ pc[n] = "busy"
    BY <1>2 DEF MarkBusy, dbVars
  <2>2. Decide(n, Op("UPDATE_INGENIERO_DISPONIBLE", ticket[n], chosen[n]))
    BY <1>2 DEF MarkBusy, NoQuorum
  <2>3. /\ c.what = Op("UPDATE_INGENIERO_DISPONIBLE", ticket[n], chosen[n])
        /\ c.round = <<n, decided'[n]>>
    BY <1>0, <2>2
  <2> QED
    BY <2>1, <2>2, <2>3
<1>3. ASSUME NEW n \in Nodes, CloseTicket(n)
      PROVE  /\ Decide(n, c.what) /\ c.round = <<n, decided'[n]>>
             /\ UNCHANGED <<tickets, disponible>>
             /\ pc[n] = "listed" /\ c.what = Op("CLOSE_TICKET", ticket[n], chosen[n])
             /\ orderly' = (orderly /\ StillOpen(ticket[n]))
  <2>1. UNCHANGED <<tickets, disponible>> /\ pc[n] = "listed"
    BY <1>3 DEF CloseTicket, dbVars
  <2>2. /\ Decide(n, Op("CLOSE_TICKET", ticket[n], chosen[n]))
        /\ orderly' = (orderly /\ StillOpen(ticket[n]))
    BY <1>3 DEF CloseTicket, NoQuorum
  <2>3. c.what = Op("CLOSE_TICKET", ticket[n], chosen[n]) /\ c.round = <<n, decided'[n]>>
    BY <1>0, <2>2
  <2> QED
    BY <2>1, <2>2, <2>3
<1>4. ASSUME NEW n \in Nodes, NEW p \in Nodes,
             \/ RaiseTicket(n) \/ Retry(n) \/ Acquire(n) \/ AcquireFails(n) \/ QueryTimeout(n)
             \/ NobodyAvailable(n) \/ Inserted(n) \/ Raised(n) \/ HandleQuery(n, p)
             \/ ListTickets(n) \/ Closed(n) \/ HandleCommit(n) \/ Suspect(n, p) \/ MarkAlive(n, p)
      PROVE  commits' \subseteq commits
  BY <1>4 DEF RaiseTicket, Retry, Acquire, AcquireFails, QueryTimeout, NobodyAvailable,
              Inserted, Raised, HandleQuery, ListTickets, Closed, HandleCommit, Suspect, MarkAlive
<1>5. CASE UNCHANGED vars
  BY <1>5 DEF vars
<1> QED
  BY <1>1, <1>2, <1>3, <1>4, <1>5 DEF Next, Raise, Close

-----------------------------------------------------------------------------
(* Each part of the invariant, over a step.                                *)

LEMMA OrderlyBefore == ASSUME TypeOK, [Next]_vars, orderly' PROVE orderly
<1>1. ASSUME NEW n \in Nodes, Raise(n) PROVE orderly
  BY <1>1 DEF Raise, Retry, Acquire, AcquireFails, QueryTimeout, NobodyAvailable, InsertTicket,
              Inserted, MarkBusy, Raised, HandleQuery
<1>2. ASSUME NEW n \in Nodes, RaiseTicket(n) \/ ListTickets(n) \/ Closed(n) \/ HandleCommit(n)
      PROVE  orderly
  BY <1>2 DEF RaiseTicket, ListTickets, Closed, HandleCommit
<1>3. ASSUME NEW n \in Nodes, CloseTicket(n) PROVE orderly
  BY <1>3 DEF CloseTicket
<1>4. ASSUME NEW n \in Nodes, NEW p \in Nodes, Suspect(n, p) \/ MarkAlive(n, p)
      PROVE  orderly
  BY <1>4 DEF Suspect, MarkAlive
<1>5. CASE UNCHANGED vars
  BY <1>5 DEF vars
<1> QED
  BY <1>1, <1>2, <1>3, <1>4, <1>5 DEF Next, Close

\* Under Prompt no round is decided while a COMMIT is on its way.
LEMMA NothingPending ==
    ASSUME Prompt, NEW n \in Nodes, NEW w, Decide(n, w) PROVE commits = {}
BY DEF Decide, Settled

\* Whoever raises a ticket after the step raised it before, or has just begun.
LEMMA RaisedBefore ==
    ASSUME TypeOK, [Next]_vars, NEW m \in Nodes, pc'[m] \in Raising
    PROVE  \/ pc[m] \in Raising /\ ticket'[m] = ticket[m]
           \/ /\ pc[m] = "list" /\ NewId(m) \in Ids /\ ticket'[m] = NewId(m)
              /\ \E w : Decide(m, w)
<1>1. CASE UNCHANGED <<pc[m], ticket[m], chosen[m], decided[m]>>
  BY <1>1
<1>2. CASE Inserted(m)
  BY <1>2 DEF Inserted, Raising
<1>3. CASE MarkBusy(m)
  <2>1. pc[m] = "busy" /\ (ticket'[m] = ticket[m] \/ pc'[m] = "idle")
    BY <1>3 DEF TypeOK, MarkBusy, Return, Enter
  <2> QED
    BY <2>1 DEF Raising
<1>4. CASE InsertTicket(m)
  <2>1. pc[m] = "list"
    BY <1>4, InsertEffect
  <2>2. CASE pc'[m] \in {"retry", "idle"}
    BY <2>2 DEF Raising
  <2>3. CASE \E e \in seen[m] : /\ NewId(m) \in Ids
                                /\ Decide(m, Op("INSERT_TICKET", NewId(m), e))
                                /\ ticket' = [ticket EXCEPT ![m] = NewId(m)]
    BY <2>1, <2>3 DEF TypeOK
  <2> QED
    BY <1>4, <2>2, <2>3, InsertEffect
<1> QED
  BY <1>1, <1>2, <1>3, <1>4, OperatorMoves

\* A row that comes is that of an INSERT, and open.
LEMMA RowComes ==
    ASSUME TypeOK, [Next]_vars
    PROVE  \A t \in Ids : ~HasRow(t) /\ HasRow(t)' =>
             /\ Open(t)'
             /\ \E c \in commits : /\ c.to = Sucursal(t) /\ c.what.op = "INSERT_TICKET"
                                   /\ c.what.id = t /\ commits' = commits \ {c}
<1>1. CASE \A n \in Nodes : ~HandleCommit(n)
  BY <1>1, OthersKeepTables, SameRows
<1>2. ASSUME NEW n \in Nodes, HandleCommit(n), NEW t \in Ids, ~HasRow(t), HasRow(t)'
      PROVE  /\ Open(t)'
             /\ \E c \in commits : /\ c.to = Sucursal(t) /\ c.what.op = "INSERT_TICKET"
                                   /\ c.what.id = t /\ commits' = commits \ {c}
  <2>1. PICK c \in commits :
          /\ c.to = n /\ c.what \in Ops
          /\ commits' = commits \ {c}
          /\ commitInsert(n, c.what) \/ commitClose(n, c.what) \/ commitBusy(n, c.what)
    BY <1>2, HandleEffect
  <2>2. ~commitClose(n, c.what)
    BY <1>2, <2>1, CloseCloses
  <2>3. ~commitBusy(n, c.what)
    BY <1>2, SameRows DEF commitBusy
  <2>4. commitInsert(n, c.what)
    BY <2>1, <2>2, <2>3
  <2>5. Sucursal(t) \in Nodes
    BY SucursalType
  <2>6. t = c.what.id /\ Sucursal(t) = n
    BY <1>2, <2>1, <2>4, <2>5, InsertRows DEF HasRow
  <2>7. Open(t)'
    BY <1>2, <2>1, <2>4, <2>6, InsertOpens
  <2> QED
    BY <2>1, <2>4, <2>6, <2>7 DEF commitInsert
<1> QED
  BY <1>1, <1>2

\* An id that is drawn now has no row.
LEMMA NewIdIsNew ==
    ASSUME TypeOK, Numbered, NEW n \in Nodes, NewId(n) \in Ids
    PROVE  ~HasRow(NewId(n)) /\ Sucursal(NewId(n)) = n
<1>1. Sucursal(NewId(n)) = n /\ NewId(n)[2] = issued[n] + 1
  BY DEF NewId, Sucursal
<1>2. issued[n] \in Nat
  BY BoundsAssumption DEF TypeOK
<1>3. tickets[n][NewId(n)] # NoRow => issued[n] + 1 <= issued[n]
  BY <1>1 DEF Numbered
<1>4. ~(issued[n] + 1 <= issued[n])
  BY <1>2
<1> QED
  BY <1>1, <1>3, <1>4 DEF HasRow

LEMMA IssuedGrows ==
    ASSUME TypeOK, [Next]_vars, NEW p \in Nodes PROVE issued[p] <= issued'[p] /\ issued'[p] \in Nat
<1>0. issued[p] \in Nat
  BY BoundsAssumption DEF TypeOK
<1>1. ASSUME NEW n \in Nodes, InsertTicket(n)
      PROVE  issued'[p] = issued[p] \/ issued'[p] = issued[p] + 1
  <2>1. issued' = [issued EXCEPT ![n] = @ + 1]
    BY <1>1 DEF InsertTicket
  <2> QED
    BY <2>1 DEF TypeOK
<1>2. ASSUME NEW n \in Nodes, NEW q \in Nodes,
             \/ RaiseTicket(n) \/ Retry(n) \/ Acquire(n) \/ AcquireFails(n) \/ QueryTimeout(n)
             \/ NobodyAvailable(n) \/ Inserted(n) \/ Raised(n) \/ HandleQuery(n, q) \/ MarkBusy(n)
             \/ ListTickets(n) \/ CloseTicket(n) \/ Closed(n) \/ HandleCommit(n)
             \/ Suspect(n, q) \/ MarkAlive(n, q)
      PROVE  issued' = issued
  BY <1>2 DEF RaiseTicket, Retry, Acquire, AcquireFails, QueryTimeout, NobodyAvailable, MarkBusy,
              Inserted, Raised, HandleQuery, ListTickets, CloseTicket, Closed, HandleCommit,
              Suspect, MarkAlive, countVars
<1>3. ASSUME UNCHANGED vars PROVE issued' = issued
  BY <1>3 DEF vars, countVars
<1>4. issued'[p] = issued[p] \/ issued'[p] = issued[p] + 1
  BY <1>1, <1>2, <1>3 DEF Next, Raise, Close
<1> QED
  BY <1>0, <1>4

LEMMA NumberedStep ==
    TypeOK /\ Targets /\ Numbered /\ Inserts /\ [Next]_vars => Numbered'
<1> SUFFICES ASSUME TypeOK, Targets, Numbered, Inserts, [Next]_vars,
                    NEW p \in Nodes, NEW t \in Ids, tickets'[p][t] # NoRow
             PROVE  p = Sucursal(t) /\ t[2] <= issued'[p]
  BY DEF Numbered
<1>1. issued[p] <= issued'[p] /\ issued'[p] \in Nat /\ issued[p] \in Nat /\ t[2] \in Nat
  BY IssuedGrows, SucursalType, BoundsAssumption DEF TypeOK
<1>2. CASE tickets[p][t] # NoRow
  <2>1. p = Sucursal(t) /\ t[2] <= issued[p]
    BY <1>2 DEF Numbered
  <2> QED
    BY <1>1, <2>1
<1>3. CASE tickets[p][t] = NoRow
  <2>1. PICK n \in Nodes : HandleCommit(n)
    BY <1>3, OthersKeepTables
  <2>2. PICK c \in commits :
          /\ c.to = n /\ c.what \in Ops
          /\ commitInsert(n, c.what) \/ commitClose(n, c.what) \/ commitBusy(n, c.what)
    BY <2>1, HandleEffect
  <2>3. commitInsert(n, c.what)
    BY <1>3, <2>2, CloseRows DEF commitBusy
  <2>4. p = n /\ t = c.what.id /\ Sucursal(t) = n
    <3>1. \A q \in Nodes, u \in Ids :
              ~(q = n /\ u = c.what.id /\ Sucursal(u) = n) => tickets'[q][u] = tickets[q][u]
      <4>1. \A q \in Nodes, u \in Ids : tickets'[q][u] =
                IF q = n /\ u = c.what.id /\ Sucursal(u) = n /\ tickets[q][u] = NoRow
                THEN [eng |-> c.what.eng, estado |-> "ABIERTO"] ELSE tickets[q][u]
        BY <2>2, <2>3, InsertRows
      <4> QED
        BY <4>1
    <3> QED
      BY <1>3, <3>1
  <2>5. pc[n] = "inserting" /\ ticket[n] = t
    BY <2>2, <2>3, <2>4 DEF Inserts, commitInsert
  <2>6. t = <<n, issued[n]>>
    BY <2>5 DEF Targets, Raising
  <2>7. t[2] = issued[p]
    BY <2>4, <2>6
  <2> QED
    BY <1>1, <2>4, <2>7
<1> QED
  BY <1>2, <1>3

LEMMA InsertsStep ==
    TypeOK /\ Numbered /\ Inserts /\ [Next]_vars => Inserts'
<1> SUFFICES ASSUME TypeOK, Numbered, Inserts, [Next]_vars,
                    NEW c \in commits', c.what.op = "INSERT_TICKET", c.to = Sucursal(c.what.id)
             PROVE  /\ pc'[c.to] = "inserting" /\ c.round = <<c.to, decided'[c.to]>>
                    /\ ticket'[c.to] = c.what.id /\ chosen'[c.to] = c.what.eng
                    /\ \A t : t = c.what.id => ~HasRow(t)'
  BY DEF Inserts, HasRow
<1>1. CASE c \in commits
  <2>1. /\ pc[c.to] = "inserting" /\ c.round = <<c.to, decided[c.to]>>
        /\ ticket[c.to] = c.what.id /\ chosen[c.to] = c.what.eng /\ ~HasRow(c.what.id)
    BY <1>1 DEF Inserts
  <2>2. c \in Commits /\ c.to \in Nodes /\ c.what \in Ops
    BY <1>1 DEF TypeOK, Commits
  <2>3. ~Inserted(c.to)
    BY <1>1, <2>1 DEF Inserted, Applied
  <2>4. ~InsertTicket(c.to) /\ ~MarkBusy(c.to)
    BY <2>1 DEF InsertTicket, MarkBusy
  <2>5. UNCHANGED <<pc[c.to], ticket[c.to], chosen[c.to], decided[c.to]>>
    BY <2>1, <2>2, <2>3, <2>4, OperatorMoves
  <2>6. ASSUME NEW t, t = c.what.id, HasRow(t)' PROVE FALSE
    <3>0. t \in Ids
      BY <2>2, <2>6 DEF Ops
    <3>1. PICK d \in commits : /\ d.to = Sucursal(t) /\ d.what.op = "INSERT_TICKET"
                               /\ d.what.id = t /\ commits' = commits \ {d}
      BY <2>1, <2>6, <3>0, RowComes
    <3>2. d.round = c.round /\ d.what.eng = c.what.eng /\ d.to = c.to
      BY <2>1, <2>6, <3>1 DEF Inserts
    <3>3. d \in Commits /\ d.what \in Ops
      BY DEF TypeOK, Commits
    <3>4. d.what = c.what
      BY <2>2, <2>6, <3>1, <3>2, <3>3 DEF Ops
    <3>5. d = c
      BY <2>2, <3>2, <3>3, <3>4 DEF Commits
    <3> QED
      BY <3>1, <3>5
  <2> QED
    BY <2>1, <2>5, <2>6
<1>2. CASE c \notin commits
  <2>1. PICK n \in Nodes :
          /\ c.round = <<n, decided'[n]>> /\ UNCHANGED <<tickets, disponible>>
          /\ pc'[n] = "inserting" /\ NewId(n) \in Ids
          /\ c.what = Op("INSERT_TICKET", ticket'[n], chosen'[n])
          /\ ticket'[n] = NewId(n)
    <3>1. \A t, e : /\ Op("UPDATE_INGENIERO_DISPONIBLE", t, e).op # "INSERT_TICKET"
                    /\ Op("CLOSE_TICKET", t, e).op # "INSERT_TICKET"
      BY DEF Op
    <3> QED
      BY <1>2, <3>1, CommitNew
  <2>2. c.what.id = NewId(n) /\ c.what.eng = chosen'[n]
    BY <2>1 DEF Op
  <2>3. c.to = n /\ ~HasRow(NewId(n))
    BY <2>1, <2>2, NewIdIsNew
  <2>4. ASSUME NEW t, t = c.what.id PROVE ~HasRow(t)'
    BY <2>1, <2>2, <2>3, <2>4, SameRows
  <2> QED
    BY <2>1, <2>2, <2>3, <2>4
<1> QED
  BY <1>1, <1>2

LEMMA OneRoundStep == TypeOK /\ OneRound /\ [Next]_vars => OneRound'
<1> SUFFICES ASSUME TypeOK, OneRound, [Next]_vars, Prompt,
                    NEW c \in commits', NEW d \in commits'
             PROVE  c.what = d.what
  BY DEF OneRound
<1>1. ASSUME NEW n \in Nodes, NEW w, Decide(n, w) PROVE c.what = w /\ d.what = w
  <2>1. commits = {}
    BY <1>1, NothingPending
  <2> QED
    BY <1>1, <2>1 DEF Decide
<1>2. CASE c \in commits /\ d \in commits
  BY <1>2 DEF OneRound
<1>3. CASE c \notin commits
  <2>1. PICK n \in Nodes : Decide(n, c.what)
    BY <1>3, CommitNew
  <2> QED
    BY <1>1, <2>1
<1>4. CASE d \notin commits
  <2>1. PICK n \in Nodes : Decide(n, d.what)
    BY <1>4, CommitNew
  <2> QED
    BY <1>1, <2>1
<1> QED
  BY <1>2, <1>3, <1>4

LEMMA EverybodyStep == TypeOK /\ Everybody /\ [Next]_vars => Everybody'
<1> SUFFICES ASSUME TypeOK, Everybody, [Next]_vars, orderly' PROVE \A n \in Nodes : alive'[n] = Nodes
  BY DEF Everybody
<1>0. \A n \in Nodes : alive[n] = Nodes
  BY OrderlyBefore DEF Everybody
<1>1. ASSUME NEW n \in Nodes, Raise(n) PROVE alive' = alive
  BY <1>1 DEF Raise, Retry, Acquire, AcquireFails, QueryTimeout, NobodyAvailable, InsertTicket,
              Inserted, MarkBusy, Raised, HandleQuery
<1>2. ASSUME NEW n \in Nodes, RaiseTicket(n) \/ ListTickets(n) \/ Close(n) \/ HandleCommit(n)
      PROVE  alive' = alive
  BY <1>2 DEF RaiseTicket, ListTickets, Close, CloseTicket, Closed, HandleCommit
<1>3. ASSUME NEW n \in Nodes, NEW p \in Nodes, Suspect(n, p) \/ MarkAlive(n, p) PROVE alive' = alive
  BY <1>0, <1>3 DEF Suspect, MarkAlive
<1>4. ASSUME UNCHANGED vars PROVE alive' = alive
  BY <1>4 DEF vars
<1> QED
  BY <1>0, <1>1, <1>2, <1>3, <1>4 DEF Next

\* What a raise inserts and who it is for, when the raise was going on already.
LEMMA StoredStays ==
    ASSUME TypeOK, Targets, [Next]_vars, NEW n \in Nodes, pc[n] \in Raising,
           HasRow(ticket[n]), EngineerOf(ticket[n]) = chosen[n],
           ticket'[n] = ticket[n], chosen'[n] = chosen[n]
    PROVE  \A t : t = ticket'[n] => HasRow(t)' /\ EngineerOf(t)' = chosen'[n]
<1>1. ticket[n] \in Ids
  BY DEF Targets
<1> QED
  BY <1>1, RowsStay

LEMMA AwaitedStep ==
    TypeOK /\ Targets /\ Inserts /\ Awaited /\ [Next]_vars => Awaited'
<1> SUFFICES ASSUME TypeOK, Targets, Inserts, Awaited, [Next]_vars,
                    NEW n \in Nodes, pc'[n] = "inserting"
             PROVE  \/ \A t : t = ticket'[n] => HasRow(t)' /\ EngineerOf(t)' = chosen'[n]
                    \/ \E c \in commits' :
                         /\ c.to = n /\ c.round = <<n, decided'[n]>>
                         /\ c.what = Op("INSERT_TICKET", ticket'[n], chosen'[n])
  <2> SUFFICES ASSUME TypeOK, Targets, Inserts, Awaited, [Next]_vars,
                      NEW n \in Nodes, pc'[n] = "inserting"
               PROVE  \/ HasRow(ticket[n])' /\ EngineerOf(ticket[n])' = chosen'[n]
                      \/ \E c \in commits' :
                           /\ c.to = n /\ c.round = <<n, decided'[n]>>
                           /\ c.what = Op("INSERT_TICKET", ticket'[n], chosen'[n])
    BY DEF Awaited
  <2>1. (\A t : t = ticket'[n] => HasRow(t)' /\ EngineerOf(t)' = chosen'[n])
          => HasRow(ticket[n])' /\ EngineerOf(ticket[n])' = chosen'[n]
    BY DEF HasRow, EngineerOf
  <2> QED
    BY <2>1
<1>1. CASE UNCHANGED <<pc[n], ticket[n], chosen[n], decided[n]>>
  <2>1. pc[n] = "inserting"
    BY <1>1
  <2>2. CASE HasRow(ticket[n]) /\ EngineerOf(ticket[n]) = chosen[n]
    BY <1>1, <2>1, <2>2, StoredStays DEF Raising
  <2>3. CASE \E c \in commits : /\ c.to = n /\ c.round = <<n, decided[n]>>
                                /\ c.what = Op("INSERT_TICKET", ticket[n], chosen[n])
    <3>1. PICK c \in commits : /\ c.to = n /\ c.round = <<n, decided[n]>>
                               /\ c.what = Op("INSERT_TICKET", ticket[n], chosen[n])
      BY <2>3
    <3>2. CASE c \in commits'
      BY <1>1, <3>1, <3>2
    <3>3. CASE c \notin commits'
      <4>1. /\ c.what.op = "INSERT_TICKET" /\ c.what.id = ticket[n] /\ c.what.eng = chosen[n]
        BY <3>1 DEF Op
      <4>2. Sucursal(ticket[n]) = n
        BY <2>1 DEF Targets, Raising, Sucursal
      <4>3. ~HasRow(c.what.id)
        BY <3>1, <4>1, <4>2 DEF Inserts
      <4>4. Open(c.what.id)' /\ EngineerOf(c.what.id)' = c.what.eng
        BY <3>1, <3>3, <4>1, <4>2, <4>3, CommitGone
      <4> QED
        BY <1>1, <3>1, <4>1, <4>4 DEF Open, HasRow, EngineerOf
    <3> QED
      BY <3>2, <3>3
  <2> QED
    BY <2>1, <2>2, <2>3 DEF Awaited
<1>2. ~Inserted(n) /\ ~MarkBusy(n)
  BY DEF TypeOK, Inserted, MarkBusy, Enter, Return
<1>3. CASE InsertTicket(n)
  <2>1. PICK e \in seen[n] : /\ Decide(n, Op("INSERT_TICKET", NewId(n), e))
                             /\ ticket' = [ticket EXCEPT ![n] = NewId(n)]
                             /\ chosen' = [chosen EXCEPT ![n] = e]
    BY <1>3, InsertEffect
  <2>2. ticket'[n] = NewId(n) /\ chosen'[n] = e
    BY <2>1 DEF TypeOK
  <2>3. decided'[n] = decided[n] + 1
    BY <2>1 DEF Decide, TypeOK
  <2>4. [to |-> n, round |-> <<n, decided'[n]>>,
         what |-> Op("INSERT_TICKET", NewId(n), e)] \in commits'
    <3> DEFINE w == Op("INSERT_TICKET", NewId(n), e)
    <3>1. commits' = commits \cup {[to |-> p, round |-> <<n, decided[n] + 1>>, what |-> w] :
                                     p \in alive[n] \cup {n}}
      BY <2>1 DEF Decide
    <3> HIDE DEF w
    <3>2. [to |-> n, round |-> <<n, decided[n] + 1>>, what |-> w] \in commits'
      BY <3>1
    <3> QED
      BY <2>3, <3>2 DEF w
  <2>5. \E c \in commits' : /\ c.to = n /\ c.round = <<n, decided'[n]>>
                             /\ c.what = Op("INSERT_TICKET", NewId(n), e)
    BY <2>4
  <2> QED
    BY <2>2, <2>5
<1> QED
  BY <1>1, <1>2, <1>3, OperatorMoves DEF Raising

LEMMA StoredAtHome ==
    ASSUME Targets, RaisedIsStored, NEW n \in Nodes, pc[n] \in {"busy", "marking"}
    PROVE  HasRow(ticket[n]) /\ EngineerOf(ticket[n]) = chosen[n]
<1>1. Sucursal(ticket[n]) = n
  BY DEF Targets, Raising, Sucursal
<1> QED
  BY <1>1 DEF RaisedIsStored, HasRow, EngineerOf

LEMMA RaisedIsStoredStep ==
    TypeOK /\ Targets /\ Awaited /\ RaisedIsStored /\ [Next]_vars => RaisedIsStored'
<1> SUFFICES ASSUME TypeOK, Targets, Awaited, RaisedIsStored, [Next]_vars,
                    NEW n \in Nodes, pc'[n] \in {"busy", "marking"}
             PROVE  \A t : t = ticket'[n] => tickets'[n][t] # NoRow /\ tickets'[n][t].eng = chosen'[n]
  BY DEF RaisedIsStored
<1> SUFFICES /\ pc[n] \in Raising /\ UNCHANGED <<ticket[n], chosen[n]>>
             /\ HasRow(ticket[n]) /\ EngineerOf(ticket[n]) = chosen[n]
  <2> SUFFICES ASSUME pc[n] \in Raising, UNCHANGED <<ticket[n], chosen[n]>>,
                      HasRow(ticket[n]), EngineerOf(ticket[n]) = chosen[n]
               PROVE  \A t : t = ticket'[n] =>
                        tickets'[n][t] # NoRow /\ tickets'[n][t].eng = chosen'[n]
    OBVIOUS
  <2>1. Sucursal(ticket[n]) = n
    BY DEF Targets, Sucursal
  <2>2. \A t : t = ticket'[n] => HasRow(t)' /\ EngineerOf(t)' = chosen'[n]
    BY StoredStays
  <2> QED
    BY <2>1, <2>2 DEF HasRow, EngineerOf
<1>1. pc[n] \in {"busy", "marking"} => HasRow(ticket[n]) /\ EngineerOf(ticket[n]) = chosen[n]
  BY StoredAtHome
<1>2. CASE UNCHANGED <<pc[n], ticket[n], chosen[n], decided[n]>>
  BY <1>1, <1>2 DEF Raising
<1>3. CASE Inserted(n)
  BY <1>3 DEF Inserted, Awaited, Applied, Raising
<1>4. CASE MarkBusy(n)
  <2>1. pc[n] = "busy" /\ UNCHANGED <<ticket, chosen>>
    BY <1>4 DEF TypeOK, MarkBusy, Return, Enter
  <2> QED
    BY <1>1, <2>1 DEF Raising
<1>5. ~InsertTicket(n)
  BY InsertEffect
<1> QED
  BY <1>2, <1>3, <1>4, <1>5, OperatorMoves DEF Raising

LEMMA PresentStep ==
    /\ TypeOK /\ Targets /\ Numbered /\ Present /\ Closes /\ [Next]_vars
    => Present'
<1> SUFFICES ASSUME TypeOK, Targets, Numbered, Present, Closes, [Next]_vars, Prompt, orderly',
                    NEW n \in Nodes, pc'[n] \in Raising,
                    NEW t, t = ticket'[n], HasRow(t)'
             PROVE  Open(t)'
  BY DEF Present, Safe, Open, HasRow
<1>0. Safe
  BY OrderlyBefore DEF Safe
\* Nobody closes the ticket of a raise that has not finished.
<1>1. CASE pc[n] \in Raising /\ ticket'[n] = ticket[n]
  <2>1. t \in Ids /\ Sucursal(t) = n
    BY <1>1 DEF Targets, Sucursal
  <2>2. CASE HasRow(t)
    <3>1. Open(t)
      BY <1>0, <1>1, <2>2 DEF Present
    <3>2. ASSUME ~Open(t)' PROVE FALSE
      <4>1. PICK c \in commits : c.what.op = "CLOSE_TICKET" /\ c.what.id = t
        BY <2>1, <3>1, <3>2, OpenGoes
      <4>2. ~RaisedBy(n, t)
        BY <1>0, <2>1, <4>1 DEF Closes
      <4> QED
        BY <1>1, <4>2 DEF RaisedBy
    <3> QED
      BY <3>2
  <2>3. CASE ~HasRow(t)
    BY <2>1, <2>3, RowComes
  <2> QED
    BY <2>2, <2>3
<1>2. CASE /\ NewId(n) \in Ids /\ ticket'[n] = NewId(n) /\ \E w : Decide(n, w)
  <2>1. t \in Ids /\ ~HasRow(t)
    BY <1>2, NewIdIsNew
  <2>2. commits = {}
    BY <1>2, NothingPending
  <2> QED
    BY <2>1, <2>2, RowComes
<1> QED
  BY <1>1, <1>2, RaisedBefore

LEMMA ClosesStep ==
    /\ TypeOK /\ Targets /\ Numbered /\ OneRound /\ Everybody /\ Closes
    /\ OrderlyAssignment /\ [Next]_vars
    => Closes'
<1> SUFFICES ASSUME TypeOK, Targets, Numbered, OneRound, Everybody, Closes, OrderlyAssignment,
                    [Next]_vars, NEW c \in commits', c.what.op = "CLOSE_TICKET",
                    NEW id, id = c.what.id, NEW e, e = c.what.eng
             PROVE  /\ HasRow(id)' /\ EngineerOf(id)' = e
                    /\ Prompt /\ orderly' =>
                         /\ ~(pc'[Sucursal(id)] \in Raising /\ ticket'[Sucursal(id)] = id)
                         /\ \A t \in Ids : Open(t)' /\ EngineerOf(t)' = e => t = id
                         /\ Open(id)' =>
                              \E d \in commits' : d.to = Sucursal(id) /\ d.what = c.what
                         /\ disponible'[e] = 0 =>
                              \E d \in commits' : d.to = Home[e] /\ d.what = c.what
  BY DEF Closes, Safe, RaisedBy, HasRow, EngineerOf, Open
\* The COMMIT was on its way.
<1>1. CASE c \in commits
  <2>1. id \in Ids /\ e \in Engineers
    BY <1>1 DEF TypeOK, Commits, Ops
  <2>2. Sucursal(id) \in Nodes
    BY <2>1, SucursalType
  <2>3. HasRow(id) /\ EngineerOf(id) = e
    BY <1>1 DEF Closes
  <2>4. HasRow(id)' /\ EngineerOf(id)' = e
    BY <2>1, <2>3, RowsStay
  <2> SUFFICES ASSUME Prompt, orderly'
               PROVE  /\ ~(pc'[Sucursal(id)] \in Raising /\ ticket'[Sucursal(id)] = id)
                      /\ \A t \in Ids : Open(t)' /\ EngineerOf(t)' = e => t = id
                      /\ Open(id)' =>
                           \E d \in commits' : d.to = Sucursal(id) /\ d.what = c.what
                      /\ disponible'[e] = 0 =>
                           \E d \in commits' : d.to = Home[e] /\ d.what = c.what
    BY <2>4
  <2>5. Safe
    BY OrderlyBefore DEF Safe
  <2>6. /\ ~RaisedBy(Sucursal(id), id)
        /\ \A t \in Ids : Open(t) /\ EngineerOf(t) = e => t = id
        /\ Open(id) => \E d \in commits : d.to = Sucursal(id) /\ d.what = c.what
        /\ disponible[e] = 0 => \E d \in commits : d.to = Home[e] /\ d.what = c.what
    BY <1>1, <2>5 DEF Closes
  <2>7. \A d \in commits : d.what.op = "CLOSE_TICKET"
    BY <1>1 DEF OneRound
  <2>8. ~(pc'[Sucursal(id)] \in Raising /\ ticket'[Sucursal(id)] = id)
    <3>1. ~\E w : Decide(Sucursal(id), w)
      BY <1>1, <2>2, NothingPending
    <3> QED
      BY <2>2, <2>6, <3>1, RaisedBefore DEF RaisedBy
  <2>9. ASSUME NEW t \in Ids, Open(t)', ~Open(t) PROVE FALSE
    <3>1. PICK d \in commits : d.what.op = "INSERT_TICKET"
      BY <2>9, OpenComes
    <3> QED
      BY <2>7, <3>1
  <2>10. ASSUME NEW t \in Ids, Open(t)', EngineerOf(t)' = e PROVE t = id
    <3>1. Open(t)
      BY <2>9, <2>10
    <3>2. EngineerOf(t) = e
      BY <2>10, <3>1, OpenHasRow, RowsStay
    <3> QED
      BY <2>6, <3>1, <3>2
  <2>11. ASSUME Open(id)'
         PROVE  \E d \in commits' : d.to = Sucursal(id) /\ d.what = c.what
    <3>1. Open(id)
      BY <2>1, <2>9, <2>11
    <3>2. PICK d \in commits : d.to = Sucursal(id) /\ d.what = c.what
      BY <2>6, <3>1
    <3>3. ASSUME d \notin commits' PROVE FALSE
      <4>1. ~Open(d.what.id)'
        BY <3>2, <3>3, CommitGone
      <4> QED
        BY <2>11, <3>2, <4>1 DEF Open
    <3> QED
      BY <3>2, <3>3
  <2>12. ASSUME disponible'[e] = 0
         PROVE  \E d \in commits' : d.to = Home[e] /\ d.what = c.what
    <3>1. disponible[e] = 0
      <4>1. ASSUME disponible[e] # 0 PROVE FALSE
        <5>1. PICK d \in commits : d.what.op = "UPDATE_INGENIERO_DISPONIBLE"
          BY <2>1, <2>12, <4>1, BusyComes
        <5> QED
          BY <2>7, <5>1
      <4> QED
        BY <4>1
    <3>2. PICK d \in commits : d.to = Home[e] /\ d.what = c.what
      BY <2>6, <3>1
    <3>3. ASSUME d \notin commits' PROVE FALSE
      <4>1. disponible'[d.what.eng] = 1
        BY <3>2, <3>3, CommitGone
      <4> QED
        BY <2>12, <3>2, <4>1
    <3> QED
      BY <3>2, <3>3
  <2> QED
    BY <2>8, <2>10, <2>11, <2>12
\* The COMMIT is that of a round which has just been decided.
<1>2. CASE c \notin commits
  <2>1. PICK n \in Nodes :
          /\ Decide(n, c.what) /\ UNCHANGED <<tickets, disponible>>
          /\ pc[n] = "listed" /\ c.what = Op("CLOSE_TICKET", ticket[n], chosen[n])
          /\ orderly' = (orderly /\ StillOpen(ticket[n]))
    <3>1. \A t, f : /\ Op("UPDATE_INGENIERO_DISPONIBLE", t, f).op # "CLOSE_TICKET"
                    /\ Op("INSERT_TICKET", t, f).op # "CLOSE_TICKET"
      BY DEF Op
    <3> QED
      BY <1>2, <3>1, CommitNew
  <2>2. id = ticket[n] /\ e = chosen[n]
    BY <2>1 DEF Op
  <2>3. /\ id \in Ids /\ e \in Engineers
        /\ HasRow(id) /\ EngineerOf(id) = e
    BY <2>1, <2>2 DEF Targets
  <2>4. \A t \in Ids : /\ (Open(t)' <=> Open(t)) /\ (HasRow(t)' <=> HasRow(t))
                       /\ EngineerOf(t)' = EngineerOf(t)
    BY <2>1, SameRows
  <2>5. Sucursal(id) \in Nodes /\ Home[e] \in Nodes
    BY <2>3, SucursalType, HomeAssumption
  <2> SUFFICES ASSUME Prompt, orderly'
               PROVE  /\ ~(pc'[Sucursal(id)] \in Raising /\ ticket'[Sucursal(id)] = id)
                      /\ \A t \in Ids : Open(t)' /\ EngineerOf(t)' = e => t = id
                      /\ \E d \in commits' : d.to = Sucursal(id) /\ d.what = c.what
                      /\ \E d \in commits' : d.to = Home[e] /\ d.what = c.what
    BY <2>3, <2>4
  <2>6. Safe /\ StillOpen(ticket[n])
    BY <2>1 DEF Safe
  <2>7. Open(id) /\ ~(pc[Sucursal(id)] \in Raising /\ ticket[Sucursal(id)] = id)
    BY <2>2, <2>6 DEF StillOpen, Open, Raising
  <2>8. ~(pc'[Sucursal(id)] \in Raising /\ ticket'[Sucursal(id)] = id)
    <3>1. ASSUME NewId(Sucursal(id)) \in Ids PROVE NewId(Sucursal(id)) # id
      BY <2>3, <2>5, <3>1, NewIdIsNew
    <3> QED
      BY <2>3, <2>5, <2>7, <3>1, RaisedBefore
  <2>9. \A t \in Ids : Open(t)' /\ EngineerOf(t)' = e => t = id
    BY <2>3, <2>4, <2>6, <2>7 DEF OrderlyAssignment, NoDoubleAssignment, Safe
  <2>10. \A p \in Nodes : \E d \in commits' : d.to = p /\ d.what = c.what
    <3>1. alive[n] = Nodes
      BY <2>6 DEF Everybody, Safe
    <3>2. \A p \in Nodes :
             [to |-> p, round |-> <<n, decided[n] + 1>>, what |-> c.what] \in commits'
      BY <2>1, <3>1 DEF Decide
    <3> QED
      BY <3>2
  <2> QED
    BY <2>5, <2>8, <2>9, <2>10
<1> QED
  BY <1>1, <1>2

LEMMA UpdatesStep ==
    /\ TypeOK /\ Targets /\ RaisedIsStored /\ Present /\ OneRound /\ Updates /\ [Next]_vars
    => Updates'
<1> SUFFICES ASSUME TypeOK, Targets, RaisedIsStored, Present, OneRound, Updates, [Next]_vars,
                    Prompt, orderly', NEW c \in commits', c.what.op = "UPDATE_INGENIERO_DISPONIBLE",
                    NEW id, id = c.what.id
             PROVE  Open(id)' /\ EngineerOf(id)' = c.what.eng
  BY DEF Updates, Safe, Open, EngineerOf
<1>0. Safe
  BY OrderlyBefore DEF Safe
<1>1. CASE c \in commits
  <2>1. id \in Ids
    BY <1>1 DEF TypeOK, Commits, Ops
  <2>2. Open(id) /\ EngineerOf(id) = c.what.eng
    BY <1>0, <1>1 DEF Updates
  <2>3. ASSUME ~Open(id)' PROVE FALSE
    <3>1. PICK d \in commits : d.what.op = "CLOSE_TICKET"
      BY <2>1, <2>2, <2>3, OpenGoes
    <3> QED
      BY <1>1, <3>1 DEF OneRound
  <2> QED
    BY <2>1, <2>2, <2>3, OpenHasRow, RowsStay
<1>2. CASE c \notin commits
  <2>1. PICK n \in Nodes :
          /\ UNCHANGED <<tickets, disponible>>
          /\ pc[n] = "busy"
          /\ c.what = Op("UPDATE_INGENIERO_DISPONIBLE", ticket[n], chosen[n])
    <3>1. \A t, f : /\ Op("CLOSE_TICKET", t, f).op # "UPDATE_INGENIERO_DISPONIBLE"
                    /\ Op("INSERT_TICKET", t, f).op # "UPDATE_INGENIERO_DISPONIBLE"
      BY DEF Op
    <3> QED
      BY <1>2, <3>1, CommitNew
  <2>2. id = ticket[n] /\ c.what.eng = chosen[n]
    BY <2>1 DEF Op
  <2>3. HasRow(id) /\ EngineerOf(id) = chosen[n]
    BY <2>1, <2>2, StoredAtHome
  <2>4. Open(id)
    BY <1>0, <2>1, <2>2, <2>3 DEF Present, Raising
  <2>5. id \in Ids
    BY <2>1, <2>2 DEF Targets, Raising
  <2> QED
    BY <2>1, <2>2, <2>3, <2>4, <2>5, SameRows
<1> QED
  BY <1>1, <1>2

\* Whoever stores a ticket holds the lock.
LEMMA ComesLocked ==
    ASSUME TypeOK, Locked, Inserts, [Next]_vars
    PROVE  \A t \in Ids : ~Open(t) /\ Open(t)' =>
             /\ UNCHANGED opVars
             /\ \E m \in Nodes : /\ m = Sucursal(t) /\ pc[m] = "inserting" /\ ticket[m] = t
                                 /\ chosen[m] = EngineerOf(t)' /\ lock = m
<1> SUFFICES ASSUME NEW t \in Ids, ~Open(t), Open(t)'
             PROVE  /\ UNCHANGED opVars
                    /\ \E m \in Nodes :
                         /\ m = Sucursal(t) /\ pc[m] = "inserting" /\ ticket[m] = t
                         /\ chosen[m] = EngineerOf(t)' /\ lock = m
  OBVIOUS
<1>1. PICK c \in commits : /\ c.to = Sucursal(t) /\ c.what.op = "INSERT_TICKET"
                           /\ c.what.id = t /\ c.what.eng = EngineerOf(t)'
  BY OpenComes
<1>2. UNCHANGED opVars
  BY OpenComes
<1>3. Sucursal(t) \in Nodes
  BY SucursalType
<1>4. pc[c.to] = "inserting" /\ ticket[c.to] = t /\ chosen[c.to] = EngineerOf(t)'
  BY <1>1 DEF Inserts
<1>5. lock = c.to
  BY <1>1, <1>3, <1>4 DEF Locked, Raising
<1> QED
  BY <1>1, <1>2, <1>3, <1>4, <1>5

LEMMA UniqueStep ==
    /\ TypeOK /\ Locked /\ Inserts /\ OrderlyAssignment /\ Reserved /\ [Next]_vars
    => OrderlyAssignment'
<1> SUFFICES ASSUME TypeOK, Locked, Inserts, OrderlyAssignment, Reserved, [Next]_vars,
                    Prompt, orderly'
             PROVE  \A t, u \in Ids : Open(t)' /\ Open(u)' /\ EngineerOf(t)' = EngineerOf(u)' => t = u
  BY DEF OrderlyAssignment, NoDoubleAssignment
<1>0. Safe
  BY OrderlyBefore DEF Safe
<1>1. \A t \in Ids : Open(t) => EngineerOf(t)' = EngineerOf(t)
  BY OpenHasRow, RowsStay
\* One of the two is new: whoever raises it has chosen an engineer without a ticket.
<1>2. ASSUME NEW t \in Ids, NEW u \in Ids, ~Open(t), Open(t)', Open(u)',
             EngineerOf(t)' = EngineerOf(u)'
      PROVE  t = u
  <2>1. PICK m \in Nodes : /\ pc[m] = "inserting" /\ ticket[m] = t
                           /\ chosen[m] = EngineerOf(t)' /\ lock = m
    BY <1>2, ComesLocked
  <2>2. CASE Open(u)
    BY <1>0, <1>1, <1>2, <2>1, <2>2 DEF Reserved
  <2>3. CASE ~Open(u)
    BY <1>2, <2>1, <2>3, ComesLocked
  <2> QED
    BY <2>2, <2>3
<1> SUFFICES ASSUME NEW t \in Ids, NEW u \in Ids, Open(t)', Open(u)',
                    EngineerOf(t)' = EngineerOf(u)'
             PROVE  t = u
  OBVIOUS
<1>3. CASE Open(t) /\ Open(u)
  BY <1>0, <1>1, <1>3 DEF OrderlyAssignment, NoDoubleAssignment, Safe
<1>4. CASE ~Open(t)
  BY <1>2, <1>4
<1>5. CASE ~Open(u)
  BY <1>2, <1>5
<1> QED
  BY <1>3, <1>4, <1>5

\* What ListAll has seen is emptied when it starts and grows by what it reads.
LEMMA ListMoves ==
    ASSUME TypeOK, Locked, [Next]_vars, NEW n \in Nodes, pc'[n] = "list"
    PROVE  \/ seen'[n] = {}
           \/ pc[n] = "list" /\ seen'[n] = seen[n]
           \/ /\ pc[n] = "list" /\ Settled
              /\ \E p \in Nodes : seen'[n] = seen[n] \cup available(p)
<1>1. ASSUME NEW m \in Nodes, NEW p \in Nodes, HandleQuery(m, p)
      PROVE  \/ pc[n] = "list" /\ seen'[n] = seen[n]
             \/ pc[n] = "list" /\ Settled /\ seen'[n] = seen[n] \cup available(p)
  BY <1>1 DEF HandleQuery, TypeOK, Locked
<1>2. ASSUME NEW m \in Nodes, Acquire(m)
      PROVE  seen'[n] = {} \/ (pc[n] = "list" /\ seen'[n] = seen[n])
  BY <1>2 DEF Acquire, Enter, TypeOK
<1>3. ASSUME NEW m \in Nodes, InsertTicket(m)
      PROVE  pc[n] = "list" /\ (seen'[n] = {} \/ seen'[n] = seen[n])
  <2>1. pc[n] = "list"
    BY <1>3, InsertEffect
  <2>2. seen' = [seen EXCEPT ![m] = {}]
    BY <1>3 DEF InsertTicket
  <2> QED
    BY <2>1, <2>2 DEF TypeOK
<1>4. ASSUME NEW m \in Nodes, NEW p \in Nodes,
             \/ RaiseTicket(m) \/ Retry(m) \/ QueryTimeout(m) \/ Inserted(m) \/ MarkBusy(m)
             \/ Raised(m) \/ ListTickets(m) \/ CloseTicket(m) \/ Closed(m)
             \/ HandleCommit(m) \/ Suspect(m, p) \/ MarkAlive(m, p)
      PROVE  pc[n] = "list" /\ seen'[n] = seen[n]
  BY <1>4 DEF RaiseTicket, Retry, QueryTimeout, Inserted, MarkBusy, Raised, ListTickets,
              CloseTicket, Closed, HandleCommit, Suspect, MarkAlive, Enter, Return, TypeOK, opVars
<1>5. ASSUME NEW m \in Nodes, AcquireFails(m) \/ NobodyAvailable(m)
      PROVE  pc[n] = "list" /\ seen'[n] = seen[n]
  BY <1>5 DEF AcquireFails, NobodyAvailable, GiveUp, Enter, TypeOK
<1>6. CASE UNCHANGED vars
  BY <1>6 DEF vars, opVars
<1> QED
  BY <1>1, <1>2, <1>3, <1>4, <1>5, <1>6 DEF Next, Raise, Close

LEMMA ReservedStep ==
    /\ TypeOK /\ Locked /\ Inserts /\ Marked /\ Reserved /\ [Next]_vars
    => Reserved'
<1> SUFFICES ASSUME TypeOK, Locked, Inserts, Marked, Reserved, [Next]_vars, Prompt, orderly',
                    NEW n \in Nodes, NEW t \in Ids, Open(t)'
             PROVE  /\ pc'[n] = "list" => EngineerOf(t)' \notin seen'[n]
                    /\ pc'[n] = "inserting" /\ EngineerOf(t)' = chosen'[n] => t = ticket'[n]
  BY DEF Reserved, Safe
<1>0. Safe
  BY OrderlyBefore DEF Safe
\* The ticket is new: whoever raises it holds the lock, and nobody else lists or inserts.
<1>1. CASE ~Open(t)
  <2>1. UNCHANGED opVars
    BY <1>1, ComesLocked
  <2>2. PICK m \in Nodes : pc[m] = "inserting" /\ ticket[m] = t /\ lock = m
    BY <1>1, ComesLocked
  <2>3. pc[n] \in {"list", "inserting"} => n = m
    BY <2>2 DEF Locked, Raising
  <2> QED
    BY <2>1, <2>2, <2>3 DEF opVars
<1>2. CASE Open(t)
  <2>0. EngineerOf(t)' = EngineerOf(t)
    BY <1>2, OpenHasRow, RowsStay
  <2>1. ASSUME pc'[n] = "list" PROVE EngineerOf(t) \notin seen'[n]
    <3>1. CASE seen'[n] = {}
      BY <3>1
    <3>2. CASE pc[n] = "list" /\ seen'[n] = seen[n]
      BY <1>0, <1>2, <3>2 DEF Reserved
    <3>3. CASE /\ pc[n] = "list" /\ Settled
               /\ \E p \in Nodes : seen'[n] = seen[n] \cup available(p)
      <4>1. EngineerOf(t) \notin seen[n]
        BY <1>0, <1>2, <3>3 DEF Reserved
      <4>2. commits = {}
        BY <3>3 DEF Settled
      <4>3. lock = n /\ Sucursal(t) \in Nodes
        BY <3>3, SucursalType DEF Locked
      <4>4. pc[Sucursal(t)] \notin {"inserting", "busy"}
        <5>1. pc[Sucursal(t)] \in {"inserting", "busy"} => Sucursal(t) = n
          BY <4>3 DEF Locked, Raising
        <5> QED
          BY <3>3, <5>1
      <4>5. disponible[EngineerOf(t)] = 0
        BY <1>0, <1>2, <4>2, <4>4 DEF Marked
      <4>6. \A p \in Nodes : EngineerOf(t) \notin available(p)
        BY <4>5 DEF available
      <4> QED
        BY <3>3, <4>1, <4>6
    <3> QED
      BY <2>1, <3>1, <3>2, <3>3, ListMoves
  <2>2. ASSUME pc'[n] = "inserting", EngineerOf(t) = chosen'[n] PROVE t = ticket'[n]
    <3>1. CASE UNCHANGED <<pc[n], ticket[n], chosen[n], decided[n]>>
      BY <1>0, <1>2, <2>2, <3>1 DEF Reserved
    <3>2. CASE InsertTicket(n)
      <4>1. PICK e \in seen[n] : chosen' = [chosen EXCEPT ![n] = e]
        BY <2>2, <3>2, InsertEffect
      <4>2. pc[n] = "list" /\ chosen'[n] = e
        BY <3>2, <4>1, InsertEffect DEF TypeOK
      <4>3. EngineerOf(t) \notin seen[n]
        BY <1>0, <1>2, <4>2 DEF Reserved
      <4> QED
        BY <2>2, <4>1, <4>2, <4>3
    <3>3. ~Inserted(n) /\ ~MarkBusy(n)
      BY <2>2 DEF TypeOK, Inserted, MarkBusy, Enter, Return
    <3> QED
      BY <2>2, <3>1, <3>2, <3>3, OperatorMoves DEF Raising
  <2> QED
    BY <2>0, <2>1, <2>2
<1> QED
  BY <1>1, <1>2

LEMMA MarkedStep ==
    /\ TypeOK /\ Locked /\ Targets /\ Inserts /\ RaisedIsStored /\ Everybody /\ Closes
    /\ Marked /\ [Next]_vars
    => Marked'
<1> SUFFICES ASSUME TypeOK, Locked, Targets, Inserts, RaisedIsStored, Everybody, Closes, Marked,
                    [Next]_vars, Prompt, orderly', NEW t \in Ids, Open(t)',
                    NEW e, e = EngineerOf(t)'
             PROVE  \/ disponible'[e] = 0
                    \/ pc'[Sucursal(t)] \in {"inserting", "busy"} /\ ticket'[Sucursal(t)] = t
                    \/ \E c \in commits' : /\ c.to = Home[e]
                                           /\ c.what = Op("UPDATE_INGENIERO_DISPONIBLE", t, e)
                    \/ \E c \in commits' : /\ c.to = Sucursal(t)
                                           /\ c.what.op = "CLOSE_TICKET" /\ c.what.id = t
  BY DEF Marked, Safe
<1>0. Safe
  BY OrderlyBefore DEF Safe
\* The ticket is new: the raise has still to mark its engineer.
<1>1. CASE ~Open(t)
  BY <1>1, ComesLocked DEF opVars
<1>2. CASE Open(t)
  <2>1. e = EngineerOf(t) /\ Sucursal(t) \in Nodes
    BY <1>2, OpenHasRow, RowsStay, SucursalType
  <2>2. e \in Engineers
    BY <1>2, <2>1 DEF Open, EngineerOf, TypeOK, Rows
  \* Its engineer becomes available: the COMMIT that closes it is still on its way.
  <2>3. CASE disponible[e] = 0
    <3> SUFFICES ASSUME disponible'[e] # 0
                 PROVE  \E c \in commits' : /\ c.to = Sucursal(t)
                                            /\ c.what.op = "CLOSE_TICKET" /\ c.what.id = t
      OBVIOUS
    <3>1. PICK c \in commits : c.what.eng = e /\ c.what.op = "CLOSE_TICKET"
      BY <2>2, <2>3, BusyGoes
    <3>2. t = c.what.id
      BY <1>0, <1>2, <2>1, <3>1 DEF Closes
    <3>3. PICK d \in commits : d.to = Sucursal(t) /\ d.what = c.what
      BY <1>0, <1>2, <3>1, <3>2 DEF Closes
    <3>4. ASSUME d \notin commits' PROVE FALSE
      <4>1. ~Open(d.what.id)'
        BY <3>1, <3>2, <3>3, <3>4, CommitGone
      <4> QED
        BY <3>2, <3>3, <4>1 DEF Open
    <3> QED
      BY <3>1, <3>2, <3>3, <3>4
  \* Its raise goes on: it marks the engineer.
  <2>4. CASE pc[Sucursal(t)] \in {"inserting", "busy"} /\ ticket[Sucursal(t)] = t
    <3> DEFINE m == Sucursal(t)
    <3>1. CASE UNCHANGED <<pc[m], ticket[m], chosen[m], decided[m]>>
      BY <2>4, <3>1
    <3>2. CASE Inserted(m)
      BY <2>1, <2>4, <3>2 DEF Inserted, Enter, TypeOK
    <3>3. CASE MarkBusy(m)
      <4>1. pc[m] = "busy" /\ Decide(m, Op("UPDATE_INGENIERO_DISPONIBLE", ticket[m], chosen[m]))
        BY <3>3 DEF MarkBusy
      <4>2. chosen[m] = e
        BY <2>1, <2>4, <4>1, StoredAtHome
      <4>3. Home[e] \in alive[m] \cup {m}
        BY <1>0, <2>1, <2>2, HomeAssumption DEF Everybody, Safe
      <4>4. [to |-> Home[e], round |-> <<m, decided[m] + 1>>,
             what |-> Op("UPDATE_INGENIERO_DISPONIBLE", t, e)] \in commits'
        BY <2>4, <4>1, <4>2, <4>3 DEF Decide
      <4> QED
        BY <4>4
    <3>4. ~InsertTicket(m)
      BY <2>4 DEF InsertTicket
    <3> QED
      BY <2>1, <2>4, <3>1, <3>2, <3>3, <3>4, OperatorMoves
  \* The COMMIT that marks the engineer is handled, or still on its way.
  <2>5. CASE \E c \in commits : /\ c.to = Home[e]
                                /\ c.what = Op("UPDATE_INGENIERO_DISPONIBLE", t, e)
    <3>1. PICK c \in commits : /\ c.to = Home[e]
                               /\ c.what = Op("UPDATE_INGENIERO_DISPONIBLE", t, e)
      BY <2>5
    <3>2. c.what.op = "UPDATE_INGENIERO_DISPONIBLE" /\ c.what.eng = e
      BY <3>1 DEF Op
    <3>3. c \notin commits' => disponible'[c.what.eng] = 0
      BY <3>1, <3>2, CommitGone
    <3> QED
      BY <3>1, <3>2, <3>3
  \* The COMMIT that closes the ticket would not have left it open.
  <2>6. CASE \E c \in commits : /\ c.to = Sucursal(t)
                                /\ c.what.op = "CLOSE_TICKET" /\ c.what.id = t
    <3>1. PICK c \in commits : c.to = Sucursal(t) /\ c.what.op = "CLOSE_TICKET" /\ c.what.id = t
      BY <2>6
    <3>2. c \notin commits' => ~Open(c.what.id)'
      BY <3>1, CommitGone
    <3> QED
      BY <3>1, <3>2 DEF Open
  <2> QED
    BY <1>0, <1>2, <2>1, <2>3, <2>4, <2>5, <2>6 DEF Marked
<1> QED
  BY <1>1, <1>2

LEMMA BackedStep ==
    /\ TypeOK /\ OneRound /\ Closes /\ Updates /\ Backed /\ [Next]_vars
    => Backed'
<1> SUFFICES ASSUME TypeOK, OneRound, Closes, Updates, Backed, [Next]_vars, Prompt, orderly',
                    NEW e \in Engineers, disponible'[e] = 0
             PROVE  \/ \E t \in Ids : Open(t)' /\ EngineerOf(t)' = e
                    \/ \E c \in commits' : /\ c.to = Home[e] /\ c.what.op = "CLOSE_TICKET"
                                           /\ c.what.eng = e
  BY DEF Backed, Safe
<1>0. Safe
  BY OrderlyBefore DEF Safe
\* An engineer who becomes unavailable has been marked for an open ticket.
<1>1. CASE disponible[e] # 0
  <2>1. PICK c \in commits : c.what.op = "UPDATE_INGENIERO_DISPONIBLE" /\ c.what.eng = e
    BY <1>1, BusyComes
  <2>2. c.what.id \in Ids /\ Open(c.what.id) /\ EngineerOf(c.what.id) = e
    BY <1>0, <2>1 DEF Updates, TypeOK, Commits, Ops
  <2>3. \A t \in Ids : Open(t) => Open(t)'
    BY <2>1, OpenGoes DEF OneRound
  <2> QED
    BY <2>2, <2>3, OpenHasRow, RowsStay
\* A COMMIT that makes the engineer available has not been handled.
<1>2. ASSUME NEW c \in commits, c.to = Home[e], c.what.op = "CLOSE_TICKET", c.what.eng = e
      PROVE  c \in commits'
  <2>1. ASSUME c \notin commits' PROVE FALSE
    BY <1>2, <2>1, CommitGone
  <2> QED
    BY <2>1
<1>3. CASE disponible[e] = 0
  <2>1. CASE \E c \in commits : c.to = Home[e] /\ c.what.op = "CLOSE_TICKET" /\ c.what.eng = e
    BY <1>2, <2>1
  <2>2. ASSUME NEW t \in Ids, Open(t), EngineerOf(t) = e, ~Open(t)'
        PROVE  \E c \in commits' : /\ c.to = Home[e] /\ c.what.op = "CLOSE_TICKET"
                                   /\ c.what.eng = e
    <3>1. PICK c \in commits : c.what.op = "CLOSE_TICKET" /\ c.what.id = t
      BY <2>2, OpenGoes
    <3>2. c.what.eng = e
      BY <2>2, <3>1 DEF Closes
    <3>3. PICK d \in commits : d.to = Home[e] /\ d.what = c.what
      BY <1>0, <1>3, <3>1, <3>2 DEF Closes
    <3> QED
      BY <1>2, <3>1, <3>2, <3>3
  <2>3. CASE \E t \in Ids : Open(t) /\ EngineerOf(t) = e
    BY <2>2, <2>3, OpenHasRow, RowsStay
  <2> QED
    BY <1>0, <1>3, <2>1, <2>3 DEF Backed
<1> QED
  BY <1>1, <1>3

-----------------------------------------------------------------------------
(* The theorems.                                                           *)

LEMMA InitIInv == Init => IInv
<1> SUFFICES ASSUME Init PROVE IInv
  OBVIOUS
<1>1. TypeOK
  BY TypeInit
<1>2. \A n \in Nodes : pc[n] = "idle" /\ asked[n] = {} /\ alive[n] = Nodes
  BY DEF Init
<1>3. \A p \in Nodes, t \in Ids : tickets[p][t] = NoRow
  BY DEF Init
<1>4. \A t \in Ids : ~HasRow(t) /\ ~Open(t)
  BY <1>3, SucursalType DEF HasRow, Open
<1>5. commits = {} /\ \A e \in Engineers : disponible[e] = 1
  BY DEF Init
<1>6. Locked /\ Targets /\ Awaited /\ RaisedIsStored /\ Present
  BY <1>2 DEF Locked, Targets, Awaited, RaisedIsStored, Present, Raising
<1>7. Numbered
  BY <1>3 DEF Numbered
<1>8. Inserts /\ OneRound /\ Closes /\ Updates
  BY <1>5 DEF Inserts, OneRound, Closes, Updates
<1>9. Everybody
  BY <1>2 DEF Everybody
<1>10. OrderlyAssignment /\ Reserved /\ Marked /\ Backed
  BY <1>4, <1>5 DEF OrderlyAssignment, NoDoubleAssignment, Reserved, Marked, Backed
<1> QED
  BY <1>1, <1>6, <1>7, <1>8, <1>9, <1>10 DEF IInv

LEMMA NextIInv == IInv /\ [Next]_vars => IInv'
BY TypeStep, LockedStep, TargetsStep, NumberedStep, InsertsStep, AwaitedStep,
   RaisedIsStoredStep, PresentStep, OneRoundStep, EverybodyStep, ClosesStep, UpdatesStep, UniqueStep, ReservedStep, MarkedStep, BackedStep
   DEF IInv

\* The invariant holds in every reachable state: the operations of the operators,
\* the lock, the rows of the tables and the COMMITs on their way fit together
\* however the nodes' steps are interleaved (raiseTicket, ticket_service.go:227).
THEOREM Invariance == Spec => []IInv
BY InitIInv, NextIInv, PTL DEF Spec

\* Every variable keeps its type; in particular an operation that names a ticket
\* and an engineer to propose has both.
THEOREM TypeCorrectness == Spec => []TypeOK
<1>1. IInv => TypeOK
  BY DEF IInv
<1> QED
  BY <1>1, Invariance, PTL

\* As long as COMMITs are prompt, nobody is suspected, no row is closed on a
\* stale list and no round that marks an engineer fails, no engineer has two
\* open tickets (dispatcher.go:26).
THEOREM AssignmentsAreExclusive == Spec => []OrderlyAssignment
<1>1. IInv => OrderlyAssignment
  BY DEF IInv
<1> QED
  BY <1>1, Invariance, PTL

\* Under the same premise, once nothing is under way an engineer is unavailable
\* exactly when one of the open tickets is theirs (ticket_service.go:290).
THEOREM AvailabilityIsTrue == Spec => []OrderlyAvailability
<1>1. IInv => OrderlyAvailability
  <2> SUFFICES ASSUME IInv, Prompt, orderly, commits = {},
                      \A n \in Nodes : pc[n] \in {"idle", "listed"}
               PROVE  /\ \A e \in Engineers :
                            disponible[e] = 0 => \E t \in Ids : Open(t) /\ EngineerOf(t) = e
                      /\ \A t \in Ids : Open(t) => disponible[EngineerOf(t)] = 0
    BY DEF OrderlyAvailability, Idle, BusyHaveTickets
  <2>1. Marked /\ Backed /\ Safe
    BY DEF IInv, Safe
  <2>2. \A t \in Ids : pc[Sucursal(t)] \notin {"inserting", "busy"}
    BY SucursalType
  <2> QED
    BY <2>1, <2>2 DEF Marked, Backed
<1> QED
  BY <1>1, Invariance, PTL

\* When a raise goes on to mark the engineer, its ticket is a row of its own
\* sucursal with that engineer, whatever fails elsewhere: doCommit runs the
\* proposer's handler before Propose returns (consensus.go:143).
THEOREM RaisesAreStored == Spec => []RaisedIsStored
<1>1. IInv => RaisedIsStored
  BY DEF IInv
<1> QED
  BY <1>1, Invariance, PTL
=============================================================================
