------------------------- MODULE DistributionProofs -------------------------
(***************************************************************************)
(* The theorems about Distribution, for any nodes, engineers and tickets,  *)
(* any finite set of jobs and any scenario: any number of requests, wrong  *)
(* suspicions, crashes, late answers, failed rounds and changes of master. *)
(***************************************************************************)
EXTENDS Distribution, FiniteSetTheorems, TLAPS

-----------------------------------------------------------------------------
(* Type correctness.                                                       *)

LEMMA SpendType ==
    ASSUME TypeOK, NEW kind \in Kinds, Spend(kind)
    PROVE  budget' \in [Kinds -> Nat]
BY DEF TypeOK, Spend

LEMMA InitTypes == Init => TypeOK
BY NodesAssumption, TicketsAssumption, BoundsAssumption DEF Init, TypeOK, Stages

LEMMA BeginTypes ==
    ASSUME TypeOK, NEW j \in Jobs, NEW n \in Nodes, NEW x \in Nodes \cup {Device},
           Begin(j, n, x)
    PROVE  /\ task' \in [Jobs -> Nodes \cup {Device}] /\ at' \in [Jobs -> Nodes]
           /\ pc' \in [Jobs -> Stages] /\ ask' \in [Jobs -> SUBSET Nodes]
           /\ complete' \in BOOLEAN /\ peak' \in Nat
           /\ UNCHANGED <<engs, count, rows>>
<1>1. IsFiniteSet(Placing)
  BY JobsAssumption, FS_Subset DEF Placing
<1>2. Cardinality(Placing) \in Nat
  BY <1>1, FS_CardinalityType
<1>3. peak' \in Nat
  BY <1>2 DEF TypeOK, Begin
<1> QED
  BY <1>3 DEF TypeOK, Begin, ListAll, Stages

LEMMA RequestTypes ==
    ASSUME TypeOK, NEW n \in Nodes, NEW x \in Nodes \cup {Device}, Request(n, x)
    PROVE  /\ task' \in [Jobs -> Nodes \cup {Device}] /\ at' \in [Jobs -> Nodes]
           /\ pc' \in [Jobs -> Stages] /\ ask' \in [Jobs -> SUBSET Nodes]
           /\ complete' \in BOOLEAN /\ peak' \in Nat
           /\ UNCHANGED <<engs, count, rows>>
           /\ msgs' \in SUBSET Messages
<1> PICK j \in Jobs :
      IF master[n] = n
      THEN Begin(j, n, x) /\ UNCHANGED msgs
      ELSE /\ task' = [task EXCEPT ![j] = x]
           /\ pc' = [pc EXCEPT ![j] = "asked"]
           /\ msgs' = msgs \cup
                {q \in {[type |-> IF x = Device THEN "ADD_DEVICE" ELSE "NODE_DEAD",
                         to |-> master[n], job |-> j]} : q.to \in up}
           /\ UNCHANGED <<at, ask, engs, count, rows, peak, complete>>
  BY DEF Request
<1>1. CASE master[n] = n
  BY <1>1, BeginTypes DEF TypeOK
<1>2. CASE master[n] # n
  <2>1. [type |-> IF x = Device THEN "ADD_DEVICE" ELSE "NODE_DEAD",
         to |-> master[n], job |-> j] \in Messages
    BY DEF TypeOK, Messages
  <2>2. msgs' \in SUBSET Messages
    BY <1>2, <2>1 DEF TypeOK
  <2> QED
    BY <1>2, <2>2 DEF TypeOK, Stages
<1> QED
  BY <1>1, <1>2

LEMMA InsertTypes ==
    ASSUME NEW S, NEW table \in [Nodes -> SUBSET S], NEW n \in Nodes, NEW row \in S
    PROVE  /\ Insert(table, n, row) \in [Nodes -> SUBSET S]
           /\ \A m \in Nodes : /\ table[m] \subseteq Insert(table, n, row)[m]
                               /\ m # n => Insert(table, n, row)[m] = table[m]
                               /\ Insert(table, n, row)[m] \subseteq table[m] \cup {row}
           /\ (\A r \in table[n] : r.id # row.id) => row \in Insert(table, n, row)[n]
BY DEF Insert

LEMMA CloseTypes ==
    ASSUME TypeOK, NEW n \in Nodes, NEW row \in TicketRows, CloseAt(n, row)
    PROVE  tickets' \in [Nodes -> SUBSET TicketRows] /\ free' \in SUBSET Engineers
<1>1. \A r \in TicketRows : [r EXCEPT !.open = FALSE] \in TicketRows
  BY DEF TicketRows
<1>2. {IF r.id = row.id THEN [r EXCEPT !.open = FALSE] ELSE r : r \in tickets[n]}
        \subseteq TicketRows
  BY <1>1 DEF TypeOK
<1>3. tickets' \in [Nodes -> SUBSET TicketRows]
  BY <1>2 DEF TypeOK, CloseAt
<1>4. row.eng \in Engineers
  BY DEF TicketRows
<1> QED
  BY <1>3, <1>4 DEF TypeOK, CloseAt

LEMMA AddDeviceTypes == ASSUME TypeOK, NEW n \in Nodes, AddDevice(n) PROVE TypeOK'
<1>1. budget' \in [Kinds -> Nat]
  BY SpendType DEF AddDevice, Kinds
<1>2. Request(n, Device) /\ UNCHANGED <<viewVars, tableVars, counter>>
  BY DEF AddDevice
<1> QED
  BY <1>1, <1>2, RequestTypes DEF TypeOK, viewVars, tableVars

LEMMA HandleRequestTypes == ASSUME TypeOK, NEW q \in msgs, HandleRequest(q) PROVE TypeOK'
<1>1. q.job \in Jobs /\ q.to \in Nodes /\ task[q.job] \in Nodes \cup {Device}
  BY DEF TypeOK, HandleRequest, Messages
<1>2. msgs' \in SUBSET Messages /\ UNCHANGED <<viewVars, tableVars, counter, budget>>
  BY DEF TypeOK, HandleRequest
<1>3. CASE UNCHANGED jobVars
  BY <1>2, <1>3 DEF TypeOK, viewVars, tableVars, jobVars
<1>4. CASE Begin(q.job, q.to, task[q.job])
  BY <1>1, <1>2, <1>4, BeginTypes DEF TypeOK, viewVars, tableVars
<1> QED
  BY <1>3, <1>4 DEF HandleRequest

LEMMA HandleQueryTypes ==
    ASSUME TypeOK, NEW j \in Jobs, NEW n \in Nodes, HandleQuery(j, n), IsFiniteSet(AllDevices)
    PROVE  TypeOK'
<1>1. \A e \in Engineers : Cardinality(DevicesOf(e)) \in Nat
  <2>1. \A e \in Engineers : DevicesOf(e) \subseteq AllDevices
    BY HomeAssumption DEF DevicesOf, AllDevices
  <2> QED
    BY <2>1, FS_Subset, FS_CardinalityType
<1>2. count' \in [Jobs -> [Engineers -> Nat]]
  <2>1. \A e \in Engineers : count[j][e] \in Nat
    BY DEF TypeOK
  <2>2. [e \in Engineers |->
         IF Home[e] = n /\ Table(j) = "DISPOSITIVOS" THEN Cardinality(DevicesOf(e)) ELSE count[j][e]]
            \in [Engineers -> Nat]
    BY <1>1, <2>1
  <2> QED
    BY <2>2 DEF TypeOK, HandleQuery
<1>3. engs' \in [Jobs -> SUBSET Engineers]
  BY DEF TypeOK, HandleQuery
<1>4. rows' \in [Jobs -> SUBSET TicketIds]
  BY DEF TypeOK, HandleQuery
<1>5. ask' \in [Jobs -> SUBSET Nodes]
  BY DEF TypeOK, HandleQuery
<1>6. UNCHANGED <<viewVars, tableVars, task, at, pc, peak, complete, counter, msgs, budget>>
  BY DEF HandleQuery
<1> QED
  BY <1>2, <1>3, <1>4, <1>5, <1>6 DEF TypeOK, viewVars, tableVars

LEMMA ListTypes ==
    ASSUME TypeOK, NEW j \in Jobs, QueryTimeout(j) \/ SecondList(j) PROVE TypeOK'
<1>1. budget' \in [Kinds -> Nat]
  BY SpendType DEF QueryTimeout, SecondList, Kinds, TypeOK
<1>2. CASE QueryTimeout(j)
  <2>1. ask' \in [Jobs -> SUBSET Nodes] /\ complete' \in BOOLEAN /\ pc' = pc
    BY <1>2 DEF TypeOK, QueryTimeout
  <2> QED
    BY <1>1, <1>2, <2>1 DEF TypeOK, QueryTimeout, viewVars, tableVars
<1>3. CASE SecondList(j)
  <2>1. ask' \in [Jobs -> SUBSET Nodes] /\ complete' \in BOOLEAN
    BY <1>3 DEF TypeOK, SecondList, ListAll
  <2>2. pc' \in [Jobs -> Stages]
    BY <1>3 DEF TypeOK, SecondList, Stages
  <2> QED
    BY <1>1, <1>3, <2>1, <2>2 DEF TypeOK, SecondList, viewVars, tableVars
<1> QED
  BY <1>2, <1>3

LEMMA DistributeTypes == ASSUME TypeOK, NEW j \in Jobs, distributeDevice(j) PROVE TypeOK'
<1> PICK e \in Fewest(j) :
      LET row == [id |-> <<Home[e], counter[at[j]] + 1>>, eng |-> e] IN
      /\ newID(at[j])
      /\ \/ Spend("quorum") /\ UNCHANGED <<devices, msgs>>
         \/ devices' = Insert(devices, Home[e], row) /\ UNCHANGED <<msgs, budget>>
         \/ /\ \/ msgs' = msgs \cup {[type |-> "INSERT_DISPOSITIVO", to |-> Home[e],
                                      job |-> j, row |-> row]}
               \/ UNCHANGED msgs
            /\ UNCHANGED <<devices, budget>>
      /\ \E s \in {"done", "stored", "sent"} : pc' = [pc EXCEPT ![j] = s]
  BY DEF distributeDevice
<1> DEFINE row == [id |-> <<Home[e], counter[at[j]] + 1>>, eng |-> e]
<1>1. e \in Engineers /\ Home[e] \in Nodes /\ at[j] \in Nodes /\ counter[at[j]] \in Nat
  BY HomeAssumption DEF TypeOK, Fewest
<1>2. row \in DeviceRows
  BY <1>1 DEF DeviceRows
<1>3. counter' \in [Nodes -> Nat] /\ pc' \in [Jobs -> Stages]
  BY <1>1 DEF TypeOK, newID, Stages
<1>4. devices' \in [Nodes -> SUBSET DeviceRows]
  <2>1. devices \in [Nodes -> SUBSET DeviceRows]
    BY DEF TypeOK
  <2>2. Insert(devices, Home[e], row) \in [Nodes -> SUBSET DeviceRows]
    BY <1>1, <1>2, <2>1, InsertTypes
  <2> QED
    BY <2>1, <2>2
<1>5. [type |-> "INSERT_DISPOSITIVO", to |-> Home[e], job |-> j, row |-> row] \in Messages
  BY <1>1, <1>2 DEF Messages
<1>6. msgs' \in SUBSET Messages
  BY <1>5 DEF TypeOK
<1>7. budget' \in [Kinds -> Nat]
  BY SpendType DEF TypeOK, Kinds
<1>8. UNCHANGED <<viewVars, tickets, free, task, at, ask, engs, count, rows, peak, complete>>
  BY DEF distributeDevice
<1> QED
  BY <1>3, <1>4, <1>6, <1>7, <1>8 DEF TypeOK, viewVars

LEMMA RedistributeTypes == ASSUME TypeOK, NEW j \in Jobs, RedistributeTickets(j) PROVE TypeOK'
<1>0. UNCHANGED <<viewVars, devices, free, task, at, ask, count, peak, complete, counter>>
  BY DEF RedistributeTickets
<1>1. CASE /\ pc' = [pc EXCEPT ![j] = "done"]
           /\ UNCHANGED <<engs, rows, tickets, msgs, budget>>
  BY <1>0, <1>1 DEF TypeOK, Stages, viewVars
<1>2. ASSUME NEW t \in rows[j], NEW e \in engs[j], NEW row,
             row = [id |-> t, eng |-> e, open |-> TRUE],
             rows' = [rows EXCEPT ![j] = @ \ {t}], UseEngineer(j, e),
             \/ Spend("quorum") /\ UNCHANGED <<tickets, msgs>>
             \/ /\ tickets' = IF Home[e] = at[j] THEN Insert(tickets, at[j], row) ELSE tickets
                /\ msgs' = msgs \cup
                     {[type |-> "REASSIGN_TICKET", to |-> n, row |-> row] :
                      n \in ({Home[e]} \cap alive[at[j]] \cap up) \ {at[j]}}
                /\ UNCHANGED budget,
             UNCHANGED pc
      PROVE  TypeOK'
  <2>1. t \in TicketIds /\ e \in Engineers /\ Home[e] \in Nodes /\ at[j] \in Nodes
    BY HomeAssumption DEF TypeOK
  <2>2. row \in TicketRows
    BY <1>2, <2>1 DEF TicketRows
  <2>3. tickets' \in [Nodes -> SUBSET TicketRows]
    <3>1. tickets \in [Nodes -> SUBSET TicketRows]
      BY DEF TypeOK
    <3>2. \A n \in Nodes, r \in TicketRows : Insert(tickets, n, r) \in [Nodes -> SUBSET TicketRows]
      BY <3>1, InsertTypes
    <3>3. tickets' = tickets \/ tickets' = Insert(tickets, at[j], row)
      BY <1>2
    <3> QED
      BY <2>1, <2>2, <3>1, <3>2, <3>3
  <2>4. \A n \in Nodes : [type |-> "REASSIGN_TICKET", to |-> n, row |-> row] \in Messages
    BY <2>2 DEF Messages
  <2>5. msgs' \in SUBSET Messages
    BY <1>2, <2>1, <2>4 DEF TypeOK
  <2>6. budget' \in [Kinds -> Nat]
    BY <1>2, SpendType DEF TypeOK, Kinds
  <2>7. rows' \in [Jobs -> SUBSET TicketIds] /\ engs' \in [Jobs -> SUBSET Engineers]
    BY <1>2 DEF TypeOK, UseEngineer
  <2> QED
    BY <1>0, <1>2, <2>3, <2>5, <2>6, <2>7 DEF TypeOK, viewVars
<1> QED
  BY <1>1, <1>2 DEF RedistributeTickets

LEMMA CloseTicketTypes == ASSUME TypeOK, NEW n \in Nodes, CloseTicket(n) PROVE TypeOK'
<1>0. PICK m \in Nodes : \E r \in tickets[m] :
      /\ Spend("close") /\ CloseAt(n, r)
      /\ msgs' = msgs \cup {[type |-> "CLOSE_TICKET", to |-> p, row |-> r] :
                            p \in (alive[n] \cap up) \ {n}}
  BY DEF CloseTicket
<1> PICK r \in tickets[m] :
      /\ Spend("close") /\ CloseAt(n, r)
      /\ msgs' = msgs \cup {[type |-> "CLOSE_TICKET", to |-> p, row |-> r] :
                            p \in (alive[n] \cap up) \ {n}}
  BY <1>0
<1>1. r \in TicketRows /\ alive[n] \subseteq Nodes
  BY DEF TypeOK
<1>2. \A p \in Nodes : [type |-> "CLOSE_TICKET", to |-> p, row |-> r] \in Messages
  BY <1>1 DEF Messages
<1>3. msgs' \in SUBSET Messages
  BY <1>1, <1>2 DEF TypeOK
<1>4. budget' \in [Kinds -> Nat]
  BY SpendType DEF Kinds
<1>5. UNCHANGED <<viewVars, jobVars, devices, counter>>
  BY DEF CloseTicket
<1> QED
  BY <1>1, <1>3, <1>4, <1>5, CloseTypes DEF TypeOK, viewVars, jobVars

LEMMA HandleCommitTypes == ASSUME TypeOK, NEW q \in msgs, HandleCommit(q) PROVE TypeOK'
<1>0. /\ UNCHANGED <<viewVars, task, at, ask, engs, count, rows, peak, complete, counter, budget>>
      /\ msgs' \in SUBSET Messages /\ q.to \in Nodes
  BY DEF TypeOK, HandleCommit, Messages
<1>1. CASE /\ q.type = "INSERT_DISPOSITIVO"
           /\ devices' = Insert(devices, q.to, q.row)
           /\ pc' = [pc EXCEPT ![q.job] = "stored"]
           /\ UNCHANGED <<tickets, free>>
  <2>1. q.row \in DeviceRows
    BY <1>1 DEF TypeOK, Messages
  <2>2. devices' \in [Nodes -> SUBSET DeviceRows]
    BY <1>0, <1>1, <2>1, InsertTypes DEF TypeOK
  <2> QED
    BY <1>0, <1>1, <2>2 DEF TypeOK, viewVars, Stages
<1>2. CASE /\ q.type = "REASSIGN_TICKET"
           /\ tickets' = Insert(tickets, q.to, q.row)
           /\ UNCHANGED <<devices, free, pc>>
  <2>1. q.row \in TicketRows
    BY <1>2 DEF TypeOK, Messages
  <2>2. tickets' \in [Nodes -> SUBSET TicketRows]
    BY <1>0, <1>2, <2>1, InsertTypes DEF TypeOK
  <2> QED
    BY <1>0, <1>2, <2>2 DEF TypeOK, viewVars
<1>3. CASE /\ q.type = "CLOSE_TICKET"
           /\ CloseAt(q.to, q.row)
           /\ UNCHANGED <<devices, pc>>
  <2>1. q.row \in TicketRows
    BY <1>3 DEF TypeOK, Messages
  <2> QED
    BY <1>0, <1>3, <2>1, CloseTypes DEF TypeOK, viewVars
<1> QED
  BY <1>1, <1>2, <1>3 DEF HandleCommit

LEMMA ViewTypes ==
    ASSUME TypeOK, NEW n \in Nodes, NEW d \in Nodes,
           declareDead(n, d) \/ React(n, d) \/ MarkAlive(n, d) \/ SetMasterID(n) \/ Crash(n)
    PROVE  TypeOK'
<1>1. CASE declareDead(n, d)
  <2>1. budget' \in [Kinds -> Nat]
    BY <1>1, SpendType DEF declareDead, Kinds, TypeOK
  <2>2. reacting' \in SUBSET (Nodes \X Nodes) /\ alive' \in [Nodes -> SUBSET Nodes]
    BY <1>1 DEF TypeOK, declareDead
  <2>3. declared' \in Nat
    BY <1>1 DEF TypeOK, declareDead
  <2>4. UNCHANGED <<up, master, jobVars, tableVars, counter, msgs>>
    BY <1>1 DEF declareDead
  <2> QED
    BY <2>1, <2>2, <2>3, <2>4 DEF TypeOK, jobVars, tableVars
<1>2. CASE React(n, d)
  <2>1. Request(n, d) /\ reacting' \subseteq reacting
    BY <1>2 DEF React
  <2>2. UNCHANGED <<up, alive, master, declared, tableVars, counter, budget>>
    BY <1>2 DEF React
  <2> QED
    BY <2>1, <2>2, RequestTypes DEF TypeOK, tableVars
<1>3. CASE MarkAlive(n, d)
  BY <1>3 DEF TypeOK, MarkAlive, jobVars, tableVars
<1>4. CASE SetMasterID(n)
  <2>1. budget' \in [Kinds -> Nat]
    BY <1>4, SpendType DEF SetMasterID, Kinds
  <2> QED
    BY <1>4, <2>1 DEF TypeOK, SetMasterID, jobVars, tableVars
<1>5. CASE Crash(n)
  <2>1. budget' \in [Kinds -> Nat]
    BY <1>5, SpendType DEF Crash, Kinds
  <2>2. pc' \in [Jobs -> Stages]
    <3>1. \A j \in Jobs : pc[j] \in Stages /\ "done" \in Stages
      BY DEF TypeOK, Stages
    <3> QED
      BY <1>5, <3>1 DEF Crash
  <2>3. /\ up' \subseteq up /\ reacting' \subseteq reacting /\ msgs' \subseteq msgs
        /\ UNCHANGED <<alive, master, declared, task, at, ask, engs, count, rows, peak, complete,
                       tableVars, counter>>
    BY <1>5 DEF Crash
  <2> QED
    BY <2>1, <2>2, <2>3 DEF TypeOK, tableVars
<1> QED
  BY <1>1, <1>2, <1>3, <1>4, <1>5

LEMMA TypeStep == TypeOK /\ IsFiniteSet(AllDevices) /\ [Next]_vars => TypeOK'
<1> SUFFICES ASSUME TypeOK, IsFiniteSet(AllDevices), [Next]_vars PROVE TypeOK'
  OBVIOUS
<1>1. CASE UNCHANGED vars
  BY <1>1 DEF TypeOK, vars, viewVars, jobVars, tableVars
<1> QED
  BY <1>1, AddDeviceTypes, HandleRequestTypes, HandleQueryTypes, ListTypes, DistributeTypes,
     RedistributeTypes, CloseTicketTypes, HandleCommitTypes, ViewTypes, NodesAssumption DEF Next

-----------------------------------------------------------------------------
(* How a job begins, and which messages a step takes and leaves.           *)

\* Job j begins on node n; the message that asked for it is taken.
Starts(j, n, x) ==
    /\ pc[j] = "idle" \/ (pc[j] = "asked" /\ x = task[j])
    /\ Begin(j, n, x)
    /\ Inserts' = Inserts
    /\ Requests' = {q \in Requests : q.job # j}

\* A job is asked for, by a message that may be lost.
Asks(j, x) ==
    /\ pc[j] = "idle"
    /\ task' = [task EXCEPT ![j] = x]
    /\ pc' = [pc EXCEPT ![j] = "asked"]
    /\ UNCHANGED <<at, ask, engs, count, rows, peak, complete>>
    /\ Inserts' = Inserts
    /\ \E q : q.job = j /\ Requests' \in {Requests, Requests \cup {q}}

Reassigns == {q \in msgs : q.type = "REASSIGN_TICKET"}

LEMMA RequestEffect ==
    ASSUME TypeOK, Asked, NEW n \in Nodes, NEW x, Request(n, x)
    PROVE  /\ \E j \in Jobs : pc[j] = "idle" /\ (Starts(j, n, x) \/ Asks(j, x))
           /\ Reassigns' = Reassigns
<1>1. PICK j \in Jobs :
      /\ pc[j] = "idle"
      /\ IF master[n] = n
         THEN Begin(j, n, x) /\ UNCHANGED msgs
         ELSE /\ task' = [task EXCEPT ![j] = x]
              /\ pc' = [pc EXCEPT ![j] = "asked"]
              /\ msgs' = msgs \cup
                   {q \in {[type |-> IF x = Device THEN "ADD_DEVICE" ELSE "NODE_DEAD",
                            to |-> master[n], job |-> j]} : q.to \in up}
              /\ UNCHANGED <<at, ask, engs, count, rows, peak, complete>>
  BY DEF Request
<1>2. \A q \in Requests : q.job # j
  BY <1>1 DEF Asked
<1>3. CASE master[n] = n
  <2>1. Inserts' = Inserts /\ Reassigns' = Reassigns /\ Requests' = Requests
    BY <1>1, <1>3 DEF Inserts, Reassigns, Requests
  <2> QED
    BY <1>1, <1>2, <1>3, <2>1 DEF Starts
<1>4. CASE master[n] # n
  <2>1. PICK q : /\ q = [type |-> IF x = Device THEN "ADD_DEVICE" ELSE "NODE_DEAD",
                         to |-> master[n], job |-> j]
                 /\ msgs' = msgs \/ msgs' = msgs \cup {q}
    BY <1>1, <1>4
  <2>2. q.job = j /\ q.type \in {"ADD_DEVICE", "NODE_DEAD"}
    BY <2>1
  <2>3. Inserts' = Inserts /\ Reassigns' = Reassigns
    BY <2>1, <2>2 DEF Inserts, Reassigns
  <2>4. Requests' \in {Requests, Requests \cup {q}}
    BY <2>1, <2>2 DEF Requests
  <2> QED
    BY <1>1, <1>4, <2>2, <2>3, <2>4 DEF Asks
<1> QED
  BY <1>3, <1>4

LEMMA HandleRequestEffect ==
    ASSUME TypeOK, Asked, NEW q \in msgs, HandleRequest(q)
    PROVE  /\ q.job \in Jobs /\ q.to \in Nodes
           /\ \/ Starts(q.job, q.to, task[q.job])
              \/ /\ UNCHANGED jobVars /\ Inserts' = Inserts
                 /\ Requests' = {p \in Requests : p.job # q.job}
           /\ Reassigns' = Reassigns
<1>1. q.type \in {"ADD_DEVICE", "NODE_DEAD"} /\ msgs' = msgs \ {q} /\ q \in Requests
  BY DEF HandleRequest, Requests
<1>2. q.job \in Jobs /\ q.to \in Nodes
  BY <1>1 DEF TypeOK, Messages
<1>3. Inserts' = Inserts /\ Reassigns' = Reassigns
  BY <1>1 DEF Inserts, Reassigns
<1>4. Requests' = Requests \ {q}
  BY <1>1 DEF Requests
<1>5. Requests' = {p \in Requests : p.job # q.job} /\ pc[q.job] = "asked"
  BY <1>1, <1>4 DEF Asked
<1> QED
  BY <1>2, <1>3, <1>5 DEF HandleRequest, Starts

\* What the other steps do to the messages.
LEMMA CloseEffect ==
    ASSUME NEW n \in Nodes, CloseTicket(n)
    PROVE  Requests' = Requests /\ Inserts' = Inserts /\ Reassigns' = Reassigns
<1>1. PICK m \in Nodes : \E r \in tickets[m] :
        msgs' = msgs \cup {[type |-> "CLOSE_TICKET", to |-> p, row |-> r] :
                            p \in (alive[n] \cap up) \ {n}}
  BY DEF CloseTicket
<1>2. \A q \in msgs' : q \in msgs \/ q.type = "CLOSE_TICKET"
  BY <1>1
<1>3. msgs \subseteq msgs'
  BY <1>1
<1> QED
  BY <1>2, <1>3 DEF Requests, Inserts, Reassigns

LEMMA RedistributeEffect ==
    ASSUME NEW j \in Jobs, RedistributeTickets(j)
    PROVE  Requests' = Requests /\ Inserts' = Inserts
<1>1. CASE UNCHANGED msgs
  BY <1>1 DEF Requests, Inserts
<1>2. ASSUME NEW t, NEW e,
             msgs' = msgs \cup
               {[type |-> "REASSIGN_TICKET", to |-> n, row |-> [id |-> t, eng |-> e, open |-> TRUE]] :
                      n \in ({Home[e]} \cap alive[at[j]] \cap up) \ {at[j]}}
      PROVE  Requests' = Requests /\ Inserts' = Inserts
  <2>1. \A q \in msgs' : q \in msgs \/ q.type = "REASSIGN_TICKET"
    BY <1>2
  <2>2. msgs \subseteq msgs'
    BY <1>2
  <2> QED
    BY <2>1, <2>2 DEF Requests, Inserts
<1>3. CASE engs[j] = {} \/ rows[j] = {}
  BY <1>1, <1>3 DEF RedistributeTickets
<1>4. CASE ~(engs[j] = {} \/ rows[j] = {})
  <2>1. PICK t \in rows[j], e \in engs[j] :
          \/ UNCHANGED msgs
          \/ msgs' = msgs \cup
               {[type |-> "REASSIGN_TICKET", to |-> n, row |-> [id |-> t, eng |-> e, open |-> TRUE]] :
                      n \in ({Home[e]} \cap alive[at[j]] \cap up) \ {at[j]}}
    BY <1>4 DEF RedistributeTickets
  <2> QED
    BY <1>1, <1>2, <2>1
<1> QED
  BY <1>3, <1>4

LEMMA CommitEffect ==
    ASSUME NEW q \in msgs, HandleCommit(q)
    PROVE  /\ Requests' = Requests /\ Inserts' = Inserts \ {q}
           /\ q \notin Reassigns => Reassigns' = Reassigns
           /\ q \in Inserts => q \notin Reassigns
           /\ q.type # "INSERT_DISPOSITIVO" => Inserts' = Inserts
BY DEF HandleCommit, Requests, Inserts, Reassigns

\* What distributeDevice does with the row of a new device.
LEMMA DistributeEffect ==
    ASSUME TypeOK, NEW j \in Jobs, distributeDevice(j)
    PROVE  \E e \in Fewest(j), row \in DeviceRows :
             /\ row.id[2] = counter[at[j]] + 1 /\ row.eng = e
             /\ \/ UNCHANGED <<devices, msgs>> /\ pc' = [pc EXCEPT ![j] = "done"]
                \/ /\ devices' = Insert(devices, Home[e], row)
                   /\ pc' = [pc EXCEPT ![j] = "stored"] /\ UNCHANGED msgs
                \/ /\ \E q : /\ q.type = "INSERT_DISPOSITIVO" /\ q.job = j /\ q.row = row
                             /\ msgs' = msgs \cup {q}
                   /\ pc' = [pc EXCEPT ![j] = "sent"] /\ UNCHANGED devices
<1>0. PICK e \in Fewest(j) : \E row :
      /\ row = [id |-> <<Home[e], counter[at[j]] + 1>>, eng |-> e]
      /\ \/ UNCHANGED <<devices, msgs>> /\ pc' = [pc EXCEPT ![j] = "done"]
         \/ /\ devices' = Insert(devices, Home[e], row)
            /\ pc' = [pc EXCEPT ![j] = "stored"] /\ UNCHANGED msgs
         \/ /\ msgs' = msgs \cup {[type |-> "INSERT_DISPOSITIVO", to |-> Home[e],
                                   job |-> j, row |-> row]}
            /\ pc' = [pc EXCEPT ![j] = "sent"] /\ UNCHANGED devices
  BY DEF distributeDevice
<1> PICK row :
      /\ row = [id |-> <<Home[e], counter[at[j]] + 1>>, eng |-> e]
      /\ \/ UNCHANGED <<devices, msgs>> /\ pc' = [pc EXCEPT ![j] = "done"]
         \/ /\ devices' = Insert(devices, Home[e], row)
            /\ pc' = [pc EXCEPT ![j] = "stored"] /\ UNCHANGED msgs
         \/ /\ msgs' = msgs \cup {[type |-> "INSERT_DISPOSITIVO", to |-> Home[e],
                                   job |-> j, row |-> row]}
            /\ pc' = [pc EXCEPT ![j] = "sent"] /\ UNCHANGED devices
  BY <1>0
<1>1. e \in Engineers /\ Home[e] \in Nodes /\ at[j] \in Nodes /\ counter[at[j]] \in Nat
  BY HomeAssumption DEF TypeOK, Fewest
<1>2. row \in DeviceRows /\ row.id[2] = counter[at[j]] + 1 /\ row.eng = e
  BY <1>1 DEF DeviceRows
<1>3. CASE UNCHANGED <<devices, msgs>> /\ pc' = [pc EXCEPT ![j] = "done"]
  BY <1>2, <1>3
<1>4. CASE /\ devices' = Insert(devices, Home[e], row)
           /\ pc' = [pc EXCEPT ![j] = "stored"] /\ UNCHANGED msgs
  BY <1>2, <1>4
<1>5. CASE /\ msgs' = msgs \cup {[type |-> "INSERT_DISPOSITIVO", to |-> Home[e],
                                   job |-> j, row |-> row]}
            /\ pc' = [pc EXCEPT ![j] = "sent"] /\ UNCHANGED devices
  <2>1. PICK q : q = [type |-> "INSERT_DISPOSITIVO", to |-> Home[e], job |-> j, row |-> row]
    OBVIOUS
  <2>2. q.type = "INSERT_DISPOSITIVO" /\ q.job = j /\ q.row = row /\ msgs' = msgs \cup {q}
    BY <1>5, <2>1
  <2> QED
    BY <1>2, <1>5, <2>2
<1> QED
  BY <1>3, <1>4, <1>5

-----------------------------------------------------------------------------
(* Jobs and their messages.                                                *)

\* What a step may do to a job in each stage and to its messages.
LEMMA AskedKept ==
    ASSUME TypeOK, Asked, Requests' \subseteq Requests, Inserts' \subseteq Inserts,
           \A q \in Requests' : pc'[q.job] = pc[q.job],
           \A q \in Inserts' : pc'[q.job] = pc[q.job] /\ task'[q.job] = task[q.job],
           \A j \in Jobs : pc'[j] = "idle" => pc[j] = "idle" /\ task'[j] = task[j]
    PROVE  Asked'
BY DEF Asked

LEMMA MsgJobs ==
    ASSUME TypeOK, NEW q \in Requests \cup Inserts
    PROVE  q.job \in Jobs
BY DEF TypeOK, Messages, Requests, Inserts

LEMMA StartsAsked ==
    ASSUME TypeOK, Asked, NEW j \in Jobs, NEW n, NEW x, Starts(j, n, x)
    PROVE  Asked'
<1>1. /\ task' = [task EXCEPT ![j] = x] /\ pc' = [pc EXCEPT ![j] = "first"]
      /\ Inserts' = Inserts /\ Requests' = {q \in Requests : q.job # j}
      /\ pc[j] \in {"idle", "asked"}
  BY DEF Starts, Begin
<1>2. \A q \in Inserts : q.job # j
  BY <1>1 DEF Asked
<1>3. /\ \A i \in Jobs : i # j => pc'[i] = pc[i] /\ task'[i] = task[i]
      /\ pc'[j] = "first"
  BY <1>1 DEF TypeOK
<1>4. \A q \in Requests' : q.job \in Jobs /\ q.job # j
  BY <1>1, MsgJobs
<1>5. \A q \in Inserts' : q.job \in Jobs /\ q.job # j
  BY <1>1, <1>2, MsgJobs
<1> QED
  BY <1>1, <1>3, <1>4, <1>5, AskedKept

LEMMA AsksAsked ==
    ASSUME TypeOK, Asked, NEW j \in Jobs, NEW x, Asks(j, x)
    PROVE  Asked'
<1>1. PICK q0 : q0.job = j /\ Requests' \in {Requests, Requests \cup {q0}}
  BY DEF Asks
<1>2. /\ \A i \in Jobs : i # j => pc'[i] = pc[i] /\ task'[i] = task[i]
      /\ pc'[j] = "asked" /\ pc[j] = "idle" /\ Inserts' = Inserts
  BY DEF Asks, TypeOK
<1>3. \A q \in Requests \cup Inserts : q.job \in Jobs /\ q.job # j
  BY <1>2, MsgJobs DEF Asked
<1> QED
  BY <1>1, <1>2, <1>3 DEF Asked

LEMMA DistributeAsked ==
    ASSUME TypeOK, Asked, NEW j \in Jobs, distributeDevice(j)
    PROVE  Asked'
<1>1. pc[j] = "second" /\ task[j] = Device /\ task' = task
  BY DEF distributeDevice
<1>2. \A q \in Requests \cup Inserts : q.job \in Jobs /\ q.job # j
  BY <1>1, MsgJobs DEF Asked
<1>3. CASE UNCHANGED msgs /\ \E s \in {"done", "stored"} : pc' = [pc EXCEPT ![j] = s]
  <2>1. Requests' = Requests /\ Inserts' = Inserts
    BY <1>3 DEF Requests, Inserts
  <2>2. (\A i \in Jobs : i # j => pc'[i] = pc[i]) /\ pc'[j] # "idle"
    BY <1>3 DEF TypeOK
  <2> QED
    BY <1>1, <1>2, <2>1, <2>2, AskedKept
<1>4. ASSUME NEW q0, q0.type = "INSERT_DISPOSITIVO", q0.job = j, msgs' = msgs \cup {q0},
             pc' = [pc EXCEPT ![j] = "sent"]
      PROVE  Asked'
  <2>1. Requests' = Requests /\ Inserts' = Inserts \cup {q0}
    BY <1>4 DEF Requests, Inserts
  <2>2. (\A i \in Jobs : i # j => pc'[i] = pc[i]) /\ pc'[j] = "sent"
    BY <1>4 DEF TypeOK
  <2> QED
    BY <1>1, <1>2, <1>4, <2>1, <2>2 DEF Asked
<1> QED
  BY <1>3, <1>4, DistributeEffect

LEMMA CommitAsked ==
    ASSUME TypeOK, Asked, NEW q \in msgs, HandleCommit(q)
    PROVE  Asked'
<1>1. task' = task
  BY DEF HandleCommit
<1>2. CASE q.type # "INSERT_DISPOSITIVO"
  BY <1>1, <1>2, CommitEffect, AskedKept DEF HandleCommit
<1>3. CASE q.type = "INSERT_DISPOSITIVO"
  <2>1. q \in Inserts /\ pc' = [pc EXCEPT ![q.job] = "stored"] /\ q.job \in Jobs
    BY <1>3, MsgJobs DEF HandleCommit, Inserts
  <2>2. \A p \in Requests' \cup Inserts' : p.job \in Jobs /\ p.job # q.job
    BY <2>1, CommitEffect, MsgJobs DEF Asked
  <2>3. (\A i \in Jobs : i # q.job => pc'[i] = pc[i]) /\ pc'[q.job] # "idle"
    BY <2>1 DEF TypeOK
  <2> QED
    BY <1>1, <2>2, <2>3, CommitEffect, AskedKept
<1> QED
  BY <1>2, <1>3

LEMMA CrashAsked ==
    ASSUME TypeOK, Asked, NEW n \in Nodes, Crash(n)
    PROVE  /\ Asked' /\ Requests' \subseteq Requests
           /\ Inserts' = {q \in Inserts : pc'[q.job] = "sent"}
           /\ Reassigns' \subseteq Reassigns
<1>1. msgs' = {q \in msgs : q.to # n} /\ task' = task
  BY DEF Crash
<1>2. \A j \in Jobs : pc'[j] =
         IF \/ at[j] = n /\ pc[j] \in {"first", "second"}
            \/ \E q \in msgs : q.to = n /\ q.type = "INSERT_DISPOSITIVO" /\ q.job = j
         THEN "done" ELSE pc[j]
  BY DEF Crash
<1>3. /\ Requests' = {q \in Requests : q.to # n} /\ Inserts' = {q \in Inserts : q.to # n}
      /\ Reassigns' \subseteq Reassigns
  BY <1>1 DEF Requests, Inserts, Reassigns
<1>4. \A q \in Requests' : pc'[q.job] = pc[q.job]
  <2> SUFFICES ASSUME NEW q \in Requests' PROVE pc'[q.job] = pc[q.job]
    OBVIOUS
  <2>1. q \in Requests /\ q.job \in Jobs /\ pc[q.job] = "asked"
    BY <1>3, MsgJobs DEF Asked
  <2>2. \A p \in msgs : p.type = "INSERT_DISPOSITIVO" => p.job # q.job
    BY <2>1 DEF Asked, Inserts
  <2> QED
    BY <1>2, <2>1, <2>2
<1>5. \A q \in Inserts : pc'[q.job] = IF q.to = n THEN "done" ELSE pc[q.job]
  <2> SUFFICES ASSUME NEW q \in Inserts
               PROVE  pc'[q.job] = IF q.to = n THEN "done" ELSE pc[q.job]
    OBVIOUS
  <2>1. q \in msgs /\ q.type = "INSERT_DISPOSITIVO" /\ q.job \in Jobs /\ pc[q.job] = "sent"
    BY MsgJobs DEF Asked, Inserts
  <2>2. \A p \in msgs : p.type = "INSERT_DISPOSITIVO" /\ p.job = q.job => p = q
    BY DEF Asked, Inserts
  <2> QED
    BY <1>2, <2>1, <2>2
<1>6. \A j \in Jobs : pc'[j] = "idle" => pc[j] = "idle"
  BY <1>2
<1>7. \A q \in Inserts : pc[q.job] = "sent"
  BY DEF Asked
<1>8. Inserts' = {q \in Inserts : pc'[q.job] = "sent"}
  BY <1>3, <1>5, <1>7
<1> QED
  BY <1>1, <1>3, <1>4, <1>5, <1>6, <1>8, AskedKept

LEMMA AskedStep == TypeOK /\ Asked /\ [Next]_vars => Asked'
<1> SUFFICES ASSUME TypeOK, Asked, [Next]_vars PROVE Asked'
  OBVIOUS
<1>1. ASSUME NEW n \in Nodes, NEW x, Request(n, x) PROVE Asked'
  BY <1>1, RequestEffect, StartsAsked, AsksAsked
<1>2. ASSUME NEW q \in msgs, HandleRequest(q) PROVE Asked'
  <2>1. CASE Starts(q.job, q.to, task[q.job])
    BY <1>2, <2>1, HandleRequestEffect, StartsAsked
  <2>2. CASE UNCHANGED jobVars /\ Inserts' = Inserts
             /\ Requests' = {p \in Requests : p.job # q.job}
    BY <2>2, AskedKept DEF jobVars
  <2> QED
    BY <1>2, <2>1, <2>2, HandleRequestEffect
<1>3. CASE UNCHANGED <<task, pc, msgs>>
  BY <1>3, AskedKept DEF Requests, Inserts
<1>4. ASSUME NEW j \in Jobs, SecondList(j) PROVE Asked'
  <2>1. pc[j] = "first" /\ UNCHANGED <<task, msgs>>
    BY <1>4 DEF SecondList
  <2>2. (\A i \in Jobs : i # j => pc'[i] = pc[i]) /\ pc'[j] # "idle"
    BY <1>4 DEF SecondList, TypeOK
  <2>3. \A q \in Requests \cup Inserts : q.job \in Jobs /\ q.job # j
    BY <2>1, MsgJobs DEF Asked
  <2>4. Requests' = Requests /\ Inserts' = Inserts
    BY <2>1 DEF Requests, Inserts
  <2> QED
    BY <2>1, <2>2, <2>3, <2>4, AskedKept
<1>5. ASSUME NEW j \in Jobs, RedistributeTickets(j) PROVE Asked'
  <2>1. pc[j] = "second" /\ UNCHANGED task
    BY <1>5 DEF RedistributeTickets
  <2>2. (\A i \in Jobs : i # j => pc'[i] = pc[i]) /\ pc'[j] # "idle"
    BY <1>5 DEF RedistributeTickets, TypeOK
  <2>3. \A q \in Requests \cup Inserts : q.job \in Jobs /\ q.job # j
    BY <2>1, MsgJobs DEF Asked
  <2> QED
    BY <1>5, <2>1, <2>2, <2>3, RedistributeEffect, AskedKept
<1>6. ASSUME NEW n \in Nodes, CloseTicket(n) PROVE Asked'
  BY <1>6, CloseEffect, AskedKept DEF CloseTicket, jobVars
<1>7. ASSUME NEW n \in Nodes, NEW d \in Nodes,
             declareDead(n, d) \/ MarkAlive(n, d) \/ SetMasterID(n) \/ UNCHANGED vars
      PROVE  UNCHANGED <<task, pc, msgs>>
  BY <1>7 DEF declareDead, MarkAlive, SetMasterID, vars, jobVars
<1>8. ASSUME NEW j \in Jobs, NEW n \in Nodes, HandleQuery(j, n) \/ QueryTimeout(j)
      PROVE  UNCHANGED <<task, pc, msgs>>
  BY <1>8 DEF HandleQuery, QueryTimeout
<1> QED
  BY <1>1, <1>2, <1>3, <1>4, <1>5, <1>6, <1>7, <1>8, DistributeAsked, CommitAsked, CrashAsked,
     NodesAssumption DEF Next, AddDevice, React

-----------------------------------------------------------------------------
(* No device is dropped.                                                   *)

LEMMA OneMore ==
    ASSUME NEW S, IsFiniteSet(S), NEW x
    PROVE  /\ IsFiniteSet(S \cup {x}) /\ Cardinality(S) \in Nat
           /\ Cardinality(S \cup {x}) = IF x \in S THEN Cardinality(S) ELSE Cardinality(S) + 1
BY FS_AddElement, FS_CardinalityType

LEMMA NotMore ==
    ASSUME NEW S, IsFiniteSet(S), NEW T, T \subseteq S
    PROVE  /\ IsFiniteSet(T) /\ Cardinality(T) \in Nat /\ Cardinality(S) \in Nat
           /\ Cardinality(T) <= Cardinality(S)
BY FS_Subset, FS_CardinalityType

LEMMA Numbers ==
    ASSUME TypeOK
    PROVE  /\ \A q \in Inserts : /\ q.row \in DeviceRows /\ q.row.id[2] \in Nat /\ q.to \in Nodes
                                 /\ q.job \in Jobs /\ at[q.job] \in Nodes /\ q.row.eng \in Engineers
           /\ \A r \in AllDevices : r \in DeviceRows /\ r.id[2] \in Nat
           /\ \A n \in Nodes : counter[n] \in Nat
<1>1. \A r \in DeviceRows : r.id[2] \in Nat /\ r.eng \in Engineers
  BY DEF DeviceRows
<1>2. \A q \in Inserts : q.row \in DeviceRows /\ q.job \in Jobs /\ q.to \in Nodes
  BY DEF TypeOK, Messages, Inserts
<1>3. \A r \in AllDevices : r \in DeviceRows
  BY DEF TypeOK, AllDevices
<1> QED
  BY <1>1, <1>2, <1>3 DEF TypeOK

LEMMA NumberedKept ==
    ASSUME TypeOK, Numbered, devices' = devices, Inserts' \subseteq Inserts, Stored' = Stored,
           \A q \in Inserts' : at'[q.job] = at[q.job],
           \A j \in Stored : at'[j] = at[j],
           \A n \in Nodes : counter'[n] \in Nat /\ counter[n] <= counter'[n]
    PROVE  Numbered'
<1>1. AllDevices' = AllDevices
  BY DEF AllDevices
<1>2. \A q \in Inserts' : q.row.id[2] <= counter'[at'[q.job]]
  BY Numbers DEF Numbered
<1>3. \A p, q \in Inserts' : at'[p.job] = at'[q.job] /\ p.row.id[2] = q.row.id[2] => p = q
  BY DEF Numbered
<1>4. ASSUME NEW n \in Nodes, \A j \in Stored' : at'[j] = n
      PROVE  /\ \A r \in AllDevices' :
                  /\ r.id[2] <= counter'[n]
                  /\ \A q \in Inserts' : at'[q.job] = n => q.row.id[2] # r.id[2]
             /\ Cardinality(AllDevices') = Cardinality(Stored')
  <2>1. \A j \in Stored : at[j] = n
    BY <1>4
  <2>2. /\ \A r \in AllDevices :
              /\ r.id[2] <= counter[n]
              /\ \A q \in Inserts : at[q.job] = n => q.row.id[2] # r.id[2]
        /\ Cardinality(AllDevices) = Cardinality(Stored)
    BY <2>1 DEF Numbered
  <2>3. \A r \in AllDevices : r.id[2] <= counter'[n]
    BY <2>2, Numbers
  <2> QED
    BY <1>1, <2>2, <2>3
<1> QED
  BY <1>1, <1>2, <1>3, <1>4 DEF Numbered

\* A device is stored, with a number that its node has not given to another.
LEMMA NumberedInsert ==
    ASSUME TypeOK, Numbered, NEW j \in Jobs, NEW row \in DeviceRows, NEW m \in Nodes,
           devices' = Insert(devices, m, row), Inserts' \subseteq Inserts,
           j \notin Stored, Stored' = Stored \cup {j}, at' = at,
           \A n \in Nodes : counter'[n] \in Nat /\ counter[n] <= counter'[n],
           row.id[2] <= counter'[at[j]],
           (\A i \in Stored : at[i] = at[j]) => \A r \in AllDevices : r.id[2] # row.id[2],
           \A q \in Inserts' : at[q.job] = at[j] => q.row.id[2] # row.id[2]
    PROVE  Numbered'
<1>0. /\ \A n \in Nodes : /\ devices[n] \subseteq devices'[n] /\ devices'[n] \subseteq devices[n] \cup {row}
      /\ (\A r \in devices[m] : r.id # row.id) => row \in devices'[m]
  <2>1. devices \in [Nodes -> SUBSET DeviceRows]
    BY DEF TypeOK
  <2> QED
    BY <2>1, InsertTypes
<1>1. AllDevices' \subseteq AllDevices \cup {row} /\ AllDevices \subseteq AllDevices'
  BY <1>0 DEF AllDevices
<1>2. IsFiniteSet(AllDevices')
  BY <1>1, OneMore, NotMore DEF Numbered
<1>3. \A q \in Inserts' : q.row.id[2] <= counter'[at'[q.job]]
  BY Numbers DEF Numbered
<1>4. \A p, q \in Inserts' : at'[p.job] = at'[q.job] /\ p.row.id[2] = q.row.id[2] => p = q
  BY DEF Numbered
<1>5. ASSUME NEW n \in Nodes, \A i \in Stored' : at'[i] = n
      PROVE  /\ \A r \in AllDevices' :
                  /\ r.id[2] <= counter'[n]
                  /\ \A q \in Inserts' : at'[q.job] = n => q.row.id[2] # r.id[2]
             /\ Cardinality(AllDevices') = Cardinality(Stored')
  <2>1. at[j] = n /\ \A i \in Stored : at[i] = n
    BY <1>5
  <2>2. /\ \A r \in AllDevices :
              /\ r.id[2] <= counter[n]
              /\ \A q \in Inserts : at[q.job] = n => q.row.id[2] # r.id[2]
        /\ Cardinality(AllDevices) = Cardinality(Stored)
    BY <2>1 DEF Numbered
  <2>3. \A r \in AllDevices : r.id[2] # row.id[2]
    BY <2>1
  <2>4. row \notin AllDevices /\ row \in AllDevices'
    BY <1>0, <2>3 DEF AllDevices
  <2>5. AllDevices' = AllDevices \cup {row}
    BY <1>1, <2>4
  <2>6. Cardinality(AllDevices') = Cardinality(AllDevices) + 1
    BY <2>4, <2>5, OneMore DEF Numbered
  <2>7. Cardinality(Stored') = Cardinality(Stored) + 1
    BY JobsAssumption, FS_Subset, OneMore DEF Stored
  <2>8. \A r \in AllDevices : r.id[2] <= counter'[n]
    BY <2>2, Numbers
  <2> QED
    BY <2>1, <2>2, <2>5, <2>6, <2>7, <2>8
<1> QED
  BY <1>2, <1>3, <1>4, <1>5 DEF Numbered

LEMMA DistributeNumbered ==
    ASSUME TypeOK, Asked, Numbered, NEW j \in Jobs, distributeDevice(j)
    PROVE  Numbered'
<1>1. PICK e \in Fewest(j), row \in DeviceRows :
        /\ row.id[2] = counter[at[j]] + 1 /\ row.eng = e
        /\ \/ UNCHANGED <<devices, msgs>> /\ pc' = [pc EXCEPT ![j] = "done"]
           \/ /\ devices' = Insert(devices, Home[e], row)
              /\ pc' = [pc EXCEPT ![j] = "stored"] /\ UNCHANGED msgs
           \/ /\ \E q : /\ q.type = "INSERT_DISPOSITIVO" /\ q.job = j /\ q.row = row
                        /\ msgs' = msgs \cup {q}
              /\ pc' = [pc EXCEPT ![j] = "sent"] /\ UNCHANGED devices
  BY DistributeEffect
<1>2. /\ pc[j] = "second" /\ task[j] = Device /\ UNCHANGED <<task, at>>
      /\ counter' = [counter EXCEPT ![at[j]] = @ + 1]
      /\ at[j] \in Nodes /\ Home[e] \in Nodes
  BY HomeAssumption DEF distributeDevice, newID, TypeOK, Fewest
<1>3. /\ \A n \in Nodes : counter'[n] \in Nat /\ counter[n] <= counter'[n]
      /\ counter'[at[j]] = counter[at[j]] + 1
  BY <1>2 DEF TypeOK
<1>4. \A q \in Inserts : q.job \in Jobs /\ q.job # j
  BY <1>2, Numbers DEF Asked
<1>5. \A q \in Inserts : at[q.job] = at[j] => q.row.id[2] # row.id[2]
  BY <1>1, <1>2, Numbers DEF Numbered
<1>6. (\A i \in Stored : at[i] = at[j]) => \A r \in AllDevices : r.id[2] # row.id[2]
  BY <1>1, <1>2, Numbers DEF Numbered
<1>7. \A i \in Jobs : i # j => pc'[i] = pc[i]
  BY <1>1 DEF TypeOK
<1>8. CASE UNCHANGED <<devices, msgs>> /\ pc' = [pc EXCEPT ![j] = "done"]
  <2>1. Stored' = Stored /\ Inserts' = Inserts
    BY <1>2, <1>7, <1>8 DEF Stored, Inserts, TypeOK
  <2> QED
    BY <1>2, <1>3, <1>8, <2>1, NumberedKept
<1>9. CASE /\ devices' = Insert(devices, Home[e], row)
           /\ pc' = [pc EXCEPT ![j] = "stored"] /\ UNCHANGED msgs
  <2>1. Stored' = Stored \cup {j} /\ j \notin Stored /\ Inserts' = Inserts
    BY <1>2, <1>7, <1>9 DEF Stored, Inserts, TypeOK
  <2>2. row.id[2] <= counter'[at[j]]
    BY <1>1, <1>2, <1>3
  <2> QED
    BY <1>2, <1>3, <1>5, <1>6, <1>9, <2>1, <2>2, NumberedInsert
<1>10. ASSUME NEW q0, q0.type = "INSERT_DISPOSITIVO", q0.job = j, q0.row = row,
              msgs' = msgs \cup {q0}, pc' = [pc EXCEPT ![j] = "sent"], UNCHANGED devices
       PROVE  Numbered'
  <2>1. Stored' = Stored /\ Inserts' = Inserts \cup {q0} /\ AllDevices' = AllDevices
    BY <1>2, <1>7, <1>10 DEF Stored, Inserts, TypeOK, AllDevices
  <2>2. \A q \in Inserts' : q.row.id[2] <= counter'[at'[q.job]]
    BY <1>1, <1>2, <1>3, <1>10, <2>1, Numbers DEF Numbered
  <2>3. \A p, q \in Inserts' : at'[p.job] = at'[q.job] /\ p.row.id[2] = q.row.id[2] => p = q
    BY <1>2, <1>5, <1>10, <2>1 DEF Numbered
  <2>4. ASSUME NEW n \in Nodes, \A i \in Stored' : at'[i] = n
        PROVE  /\ \A r \in AllDevices' :
                    /\ r.id[2] <= counter'[n]
                    /\ \A q \in Inserts' : at'[q.job] = n => q.row.id[2] # r.id[2]
               /\ Cardinality(AllDevices') = Cardinality(Stored')
    <3>1. \A i \in Stored : at[i] = n
      BY <1>2, <2>1, <2>4
    <3>2. /\ \A r \in AllDevices :
              /\ r.id[2] <= counter[n]
              /\ \A q \in Inserts : at[q.job] = n => q.row.id[2] # r.id[2]
          /\ Cardinality(AllDevices) = Cardinality(Stored)
      BY <3>1 DEF Numbered
    <3>3. \A r \in AllDevices : r.id[2] <= counter'[n]
      BY <1>3, <3>2, Numbers
    <3>4. at[j] = n => \A r \in AllDevices : row.id[2] # r.id[2]
      BY <1>6, <3>1
    <3> QED
      BY <1>2, <1>10, <2>1, <3>2, <3>3, <3>4
  <2> QED
    BY <2>1, <2>2, <2>3, <2>4 DEF Numbered
<1> QED
  BY <1>1, <1>8, <1>9, <1>10

LEMMA CommitNumbered ==
    ASSUME TypeOK, Asked, Numbered, NEW q \in msgs, HandleCommit(q)
    PROVE  Numbered'
<1>1. UNCHANGED <<task, at, counter>> /\ \A n \in Nodes : counter[n] \in Nat
  BY DEF HandleCommit, TypeOK
<1>2. CASE q.type # "INSERT_DISPOSITIVO"
  <2>1. devices' = devices /\ Stored' = Stored
    BY <1>1, <1>2 DEF HandleCommit, Stored
  <2> QED
    BY <1>1, <1>2, <2>1, CommitEffect, NumberedKept
<1>3. CASE q.type = "INSERT_DISPOSITIVO"
  <2>1. /\ q \in Inserts /\ pc' = [pc EXCEPT ![q.job] = "stored"]
        /\ devices' = Insert(devices, q.to, q.row)
    BY <1>3 DEF HandleCommit, Inserts
  <2>2. pc[q.job] = "sent" /\ task[q.job] = Device /\ Inserts' = Inserts \ {q}
    BY <2>1, CommitEffect DEF Asked
  <2>3. Stored' = Stored \cup {q.job} /\ q.job \notin Stored
    BY <1>1, <2>1, <2>2, Numbers DEF Stored, TypeOK
  <2>4. /\ q.row.id[2] <= counter'[at[q.job]]
        /\ (\A i \in Stored : at[i] = at[q.job]) => \A r \in AllDevices : r.id[2] # q.row.id[2]
        /\ \A p \in Inserts' : at[p.job] = at[q.job] => p.row.id[2] # q.row.id[2]
    BY <1>1, <2>1, <2>2, Numbers DEF Numbered
  <2>5. /\ q.row \in DeviceRows /\ q.to \in Nodes /\ q.job \in Jobs
        /\ Inserts' \subseteq Inserts
        /\ \A n \in Nodes : counter'[n] \in Nat /\ counter[n] <= counter'[n]
    BY <1>1, <2>1, <2>2, Numbers
  <2> QED
    BY <1>1, <2>1, <2>3, <2>4, <2>5, NumberedInsert
<1> QED
  BY <1>2, <1>3

LEMMA StartsFrame ==
    ASSUME TypeOK, Asked, NEW j \in Jobs, NEW n, NEW x, Starts(j, n, x)
    PROVE  /\ \A i \in Jobs : i # j => /\ task'[i] = task[i] /\ pc'[i] = pc[i]
                                       /\ ask'[i] = ask[i] /\ at'[i] = at[i]
           /\ task'[j] = x /\ pc'[j] = "first" /\ ask'[j] = alive[n]
           /\ pc[j] \in {"idle", "asked"} /\ (pc[j] = "asked" => task[j] = x)
           /\ Inserts' = Inserts /\ UNCHANGED <<engs, count, rows>>
           /\ \A q \in Inserts : q.job \in Jobs /\ q.job # j
<1>1. /\ task' = [task EXCEPT ![j] = x] /\ pc' = [pc EXCEPT ![j] = "first"]
      /\ at' = [at EXCEPT ![j] = n] /\ ask' = [ask EXCEPT ![j] = alive[n]]
      /\ UNCHANGED <<engs, count, rows>> /\ Inserts' = Inserts
      /\ pc[j] \in {"idle", "asked"} /\ (pc[j] = "asked" => task[j] = x)
  BY DEF Starts, Begin, ListAll
<1>2. \A q \in Inserts : q.job \in Jobs /\ q.job # j
  BY <1>1, Numbers DEF Asked
<1> QED
  BY <1>1, <1>2 DEF TypeOK

LEMMA AsksFrame ==
    ASSUME TypeOK, Asked, NEW j \in Jobs, NEW x, Asks(j, x)
    PROVE  /\ \A i \in Jobs : i # j => task'[i] = task[i] /\ pc'[i] = pc[i]
           /\ task'[j] = x /\ pc'[j] = "asked" /\ pc[j] = "idle" /\ task[j] = Device
           /\ Inserts' = Inserts
           /\ \A q \in Inserts : q.job \in Jobs /\ q.job # j
BY Numbers DEF Asks, Asked, TypeOK

LEMMA NumberedStep == TypeOK /\ Asked /\ Numbered /\ [Next]_vars => Numbered'
<1> SUFFICES ASSUME TypeOK, Asked, Numbered, [Next]_vars PROVE Numbered'
  OBVIOUS
<1>0. \A n \in Nodes : counter[n] \in Nat /\ counter[n] <= counter[n]
  BY DEF TypeOK
<1>1. ASSUME NEW j \in Jobs, NEW n, NEW x, Starts(j, n, x), UNCHANGED <<devices, counter>>
      PROVE  Numbered'
  <2>1. Stored' = Stored /\ j \notin Stored
    BY <1>1, StartsFrame DEF Stored
  <2>2. /\ Inserts' = Inserts /\ \A q \in Inserts : at'[q.job] = at[q.job]
        /\ \A i \in Stored : at'[i] = at[i]
    BY <1>1, <2>1, StartsFrame DEF Stored
  <2> QED
    BY <1>0, <1>1, <2>1, <2>2, NumberedKept
<1>2. ASSUME NEW j \in Jobs, NEW x, Asks(j, x), UNCHANGED <<devices, counter>>
      PROVE  Numbered'
  <2>1. Stored' = Stored /\ at' = at
    BY <1>2, AsksFrame DEF Stored, Asks
  <2> QED
    BY <1>0, <1>2, <2>1, AsksFrame, NumberedKept
<1>3. ASSUME NEW n \in Nodes, NEW x, Request(n, x), UNCHANGED <<devices, counter>>
      PROVE  Numbered'
  BY <1>1, <1>2, <1>3, RequestEffect
<1>4. CASE UNCHANGED <<devices, counter, at>> /\ Inserts' \subseteq Inserts /\ Stored' = Stored
  BY <1>0, <1>4, NumberedKept
<1>5. ASSUME NEW q \in msgs, HandleRequest(q) PROVE Numbered'
  <2>1. UNCHANGED <<devices, counter>>
    BY <1>5 DEF HandleRequest, tableVars
  <2>2. CASE Starts(q.job, q.to, task[q.job])
    BY <1>1, <1>5, <2>1, <2>2, HandleRequestEffect
  <2>3. CASE UNCHANGED jobVars /\ Inserts' = Inserts
    BY <1>4, <2>1, <2>3 DEF jobVars, Stored
  <2> QED
    BY <1>5, <2>2, <2>3, HandleRequestEffect
<1>6. ASSUME NEW j \in Jobs, SecondList(j) \/ RedistributeTickets(j)
      PROVE  UNCHANGED <<devices, counter, at>> /\ Inserts' \subseteq Inserts /\ Stored' = Stored
  <2>1. UNCHANGED <<devices, counter, at, task>>
    BY <1>6 DEF SecondList, RedistributeTickets, tableVars
  <2>2. Inserts' = Inserts
    BY <1>6, RedistributeEffect DEF SecondList, Inserts
  <2>3. /\ \A i \in Jobs : i # j => pc'[i] = pc[i]
        /\ pc[j] # "stored" /\ pc'[j] # "stored"
    BY <1>6 DEF SecondList, RedistributeTickets, TypeOK
  <2>4. Stored' = Stored
    BY <2>1, <2>3 DEF Stored
  <2> QED
    BY <2>1, <2>2, <2>4
<1>7. ASSUME NEW n \in Nodes, NEW d \in Nodes,
             \/ \E j \in Jobs : HandleQuery(j, n) \/ QueryTimeout(j)
             \/ CloseTicket(n) \/ declareDead(n, d)
             \/ MarkAlive(n, d) \/ SetMasterID(n) \/ UNCHANGED vars
      PROVE  UNCHANGED <<devices, counter, at>> /\ Inserts' \subseteq Inserts /\ Stored' = Stored
  <2>1. UNCHANGED <<devices, counter, at, pc, task>>
    BY <1>7 DEF HandleQuery, QueryTimeout, CloseTicket, declareDead, MarkAlive, SetMasterID, vars,
                jobVars, tableVars
  <2>2. Inserts' = Inserts
    BY <1>7, CloseEffect DEF HandleQuery, QueryTimeout, declareDead, MarkAlive, SetMasterID, vars,
                             Inserts
  <2> QED
    BY <2>1, <2>2 DEF Stored
<1>8. ASSUME NEW n \in Nodes, Crash(n)
      PROVE  UNCHANGED <<devices, counter, at>> /\ Inserts' \subseteq Inserts /\ Stored' = Stored
  <2>1. UNCHANGED <<devices, counter, at, task>> /\ Inserts' \subseteq Inserts
    BY <1>8, CrashAsked DEF Crash, tableVars
  <2>2. \A i \in Jobs : pc'[i] = "stored" <=> pc[i] = "stored"
    <3>1. \A q \in msgs : q.type = "INSERT_DISPOSITIVO" => pc[q.job] = "sent"
      BY DEF Asked, Inserts
    <3> QED
      BY <1>8, <3>1 DEF Crash
  <2> QED
    BY <2>1, <2>2 DEF Stored
<1>9. ASSUME NEW n \in Nodes, NEW d \in Nodes, AddDevice(n) \/ React(n, d)
      PROVE  UNCHANGED <<devices, counter>> /\ \E x : Request(n, x)
  BY <1>9 DEF AddDevice, React, tableVars
<1> QED
  BY <1>3, <1>4, <1>5, <1>6, <1>7, <1>8, <1>9, DistributeNumbered, CommitNumbered,
     NodesAssumption DEF Next

-----------------------------------------------------------------------------
(* Loads, and what is known of them.                                       *)

LEMMA DevicesGrow == TypeOK /\ [Next]_vars => \A n \in Nodes : devices[n] \subseteq devices'[n]
<1> SUFFICES ASSUME TypeOK, [Next]_vars PROVE \A n \in Nodes : devices[n] \subseteq devices'[n]
  OBVIOUS
<1>0. devices \in [Nodes -> SUBSET DeviceRows]
  BY DEF TypeOK
<1>1. ASSUME NEW m \in Nodes, NEW row \in DeviceRows, devices' = Insert(devices, m, row)
      PROVE  \A n \in Nodes : devices[n] \subseteq devices'[n]
  BY <1>0, <1>1, InsertTypes
<1>2. ASSUME NEW j \in Jobs, distributeDevice(j)
      PROVE  \A n \in Nodes : devices[n] \subseteq devices'[n]
  <2>1. \A e \in Fewest(j) : Home[e] \in Nodes
    BY HomeAssumption DEF Fewest, TypeOK
  <2> QED
    BY <1>1, <1>2, <2>1, DistributeEffect
<1>3. ASSUME NEW q \in msgs, HandleCommit(q)
      PROVE  \A n \in Nodes : devices[n] \subseteq devices'[n]
  <2>1. CASE devices' = devices
    BY <2>1
  <2>2. CASE q.type = "INSERT_DISPOSITIVO" /\ devices' = Insert(devices, q.to, q.row)
    BY <1>1, <2>2, Numbers DEF Inserts
  <2> QED
    BY <1>3, <2>1, <2>2 DEF HandleCommit
<1>4. CASE UNCHANGED devices
  BY <1>4
<1> QED
  BY <1>2, <1>3, <1>4 DEF Next, AddDevice, HandleRequest, HandleQuery, QueryTimeout, SecondList,
     RedistributeTickets, CloseTicket, declareDead, React, MarkAlive, SetMasterID, Crash, tableVars,
     vars

LEMMA Loads ==
    ASSUME TypeOK, Numbered, Numbered', [Next]_vars
    PROVE  \A e \in Engineers : Load(e) \in Nat /\ Load(e)' \in Nat /\ Load(e) <= Load(e)'
<1> SUFFICES ASSUME NEW e \in Engineers
             PROVE  Load(e) \in Nat /\ Load(e)' \in Nat /\ Load(e) <= Load(e)'
  OBVIOUS
<1>1. Home[e] \in Nodes
  BY HomeAssumption
<1>2. DevicesOf(e) \subseteq DevicesOf(e)' /\ DevicesOf(e)' \subseteq AllDevices'
  BY <1>1, DevicesGrow DEF DevicesOf, AllDevices
<1>3. IsFiniteSet(AllDevices')
  BY DEF Numbered
<1>4. IsFiniteSet(DevicesOf(e)')
  BY <1>2, <1>3, NotMore
<1> QED
  BY <1>2, <1>4, NotMore DEF Load

\* What Listed says of one job.
ListedFor(j) ==
    \A e \in Engineers : task[j] = Device =>
        /\ pc[j] = "first" => e \in engs[j] \/ Home[e] \in ask[j]
        /\ pc[j] = "second" => /\ e \in engs[j]
                               /\ count[j][e] <= Load(e) \/ Home[e] \in ask[j]

LEMMA ListedKept ==
    ASSUME TypeOK, Numbered, Numbered', [Next]_vars, Listed, complete' => complete,
           Inserts' \subseteq Inserts, \A q \in Inserts' : count'[q.job] = count[q.job],
           complete' =>
             \A i \in Jobs : task'[i] = Device /\ pc'[i] \in {"first", "second"} =>
               \/ /\ task[i] = Device /\ pc'[i] = pc[i] /\ ask'[i] = ask[i]
                  /\ engs'[i] = engs[i] /\ count'[i] = count[i]
               \/ ListedFor(i)'
    PROVE  Listed'
<1> SUFFICES ASSUME complete' PROVE Listed'
  BY DEF Listed
<1>1. \A i \in Jobs, e \in Engineers : count[i][e] \in Nat
  BY DEF TypeOK
<1>2. \A q \in Inserts : q.row.eng \in Engineers /\ q.job \in Jobs
  BY Numbers
<1>3. ASSUME NEW i \in Jobs PROVE ListedFor(i)'
  <2>1. ListedFor(i)
    BY DEF Listed, ListedFor
  <2> QED
    BY <1>1, <2>1, Loads DEF ListedFor
<1>4. ASSUME NEW q \in Inserts', NEW f \in Engineers
      PROVE  count'[q.job][q.row.eng] <= Load(f)'
  BY <1>1, <1>2, Loads DEF Listed
<1> QED
  BY <1>3, <1>4 DEF Listed, ListedFor

LEMMA StartsListed ==
    ASSUME TypeOK, Asked, Numbered, Numbered', [Next]_vars, Listed,
           NEW j \in Jobs, NEW n \in Nodes, NEW x, Starts(j, n, x)
    PROVE  Listed'
<1>1. complete' = (complete /\ (x = Device => alive[n] = Nodes))
  BY DEF Starts, Begin, ListAll
<1>2. complete' => ListedFor(j)'
  <2>1. task'[j] = x /\ pc'[j] = "first" /\ ask'[j] = alive[n]
    BY StartsFrame
  <2>2. complete' /\ task'[j] = Device => \A e \in Engineers : Home[e] \in ask'[j]
    BY <1>1, <2>1, HomeAssumption
  <2> QED
    BY <2>1, <2>2 DEF ListedFor
<1> QED
  BY <1>1, <1>2, StartsFrame, ListedKept

LEMMA HandleQueryListed ==
    ASSUME TypeOK, Asked, Numbered, Numbered', [Next]_vars, Listed,
           NEW j \in Jobs, NEW n \in Nodes, HandleQuery(j, n)
    PROVE  Listed'
<1>1. /\ pc[j] \in {"first", "second"} /\ UNCHANGED <<task, pc, complete, devices>>
      /\ Inserts' = Inserts
  BY DEF HandleQuery, tableVars, Inserts
<1>2. /\ \A i \in Jobs : i # j => /\ ask'[i] = ask[i] /\ engs'[i] = engs[i]
                                  /\ count'[i] = count[i]
      /\ ask'[j] = ask[j] \ {n}
      /\ engs[j] \subseteq engs'[j]
      /\ pc[j] = "first" /\ task[j] = Device => \A e \in Engineers : Home[e] = n => e \in engs'[j]
      /\ \A e \in Engineers : count'[j][e] =
           IF Home[e] = n /\ pc[j] = "second" /\ task[j] = Device THEN Load(e) ELSE count[j][e]
  BY <1>1 DEF HandleQuery, TypeOK, Table, Load
<1>3. \A q \in Inserts : q.job \in Jobs /\ q.job # j
  BY <1>1, Numbers DEF Asked
<1>4. complete => ListedFor(j)
  BY DEF Listed, ListedFor
<1>5. \A e \in Engineers : Load(e)' = Load(e) /\ Load(e) \in Nat
  BY <1>1, Loads DEF Load, DevicesOf
<1>6. complete' => ListedFor(j)'
  BY <1>1, <1>2, <1>4, <1>5 DEF ListedFor
<1> QED
  BY <1>1, <1>2, <1>3, <1>6, ListedKept

LEMMA SecondListListed ==
    ASSUME TypeOK, Asked, Numbered, Numbered', [Next]_vars, Listed,
           NEW j \in Jobs, SecondList(j)
    PROVE  Listed'
<1>1. /\ pc[j] = "first" /\ ask[j] = {} /\ UNCHANGED <<task, engs, count>>
      /\ Inserts' = Inserts
      /\ complete' => complete
      /\ \A i \in Jobs : i # j => pc'[i] = pc[i] /\ ask'[i] = ask[i]
      /\ \/ pc'[j] = "done"
         \/ pc'[j] = "second" /\ (complete' /\ task[j] = Device => ask'[j] = Nodes)
  BY DEF SecondList, ListAll, Inserts, TypeOK
<1>2. complete => ListedFor(j)
  BY DEF Listed, ListedFor
<1>3. complete' => ListedFor(j)'
  BY <1>1, <1>2, HomeAssumption DEF ListedFor
<1> QED
  BY <1>1, <1>3, ListedKept

LEMMA DistributeListed ==
    ASSUME TypeOK, Asked, Numbered, Numbered', [Next]_vars, Listed,
           NEW j \in Jobs, distributeDevice(j)
    PROVE  /\ Listed'
           /\ complete => \A e \in Fewest(j), f \in Engineers :
                            count[j][e] <= count[j][f] /\ count[j][e] <= Load(f)
<1>1. /\ pc[j] = "second" /\ ask[j] = {} /\ task[j] = Device
      /\ UNCHANGED <<task, ask, engs, count, complete>>
  BY DEF distributeDevice
<1>2. ASSUME complete, NEW e \in Fewest(j), NEW f \in Engineers
      PROVE  count[j][e] <= count[j][f] /\ count[j][e] <= Load(f)
  <2>1. f \in engs[j] /\ count[j][f] <= Load(f) /\ e \in Engineers
    BY <1>1, <1>2 DEF Listed, Fewest, TypeOK
  <2>2. count[j][e] \in Nat /\ count[j][f] \in Nat /\ Load(f) \in Nat
    BY <2>1, Loads DEF TypeOK
  <2> QED
    BY <2>1, <2>2 DEF Fewest
<1>3. PICK e \in Fewest(j), row \in DeviceRows :
        /\ row.eng = e
        /\ \/ UNCHANGED msgs /\ \E s \in {"done", "stored"} : pc' = [pc EXCEPT ![j] = s]
           \/ /\ \E q : /\ q.type = "INSERT_DISPOSITIVO" /\ q.job = j /\ q.row = row
                        /\ msgs' = msgs \cup {q}
              /\ pc' = [pc EXCEPT ![j] = "sent"]
  BY DistributeEffect
<1>4. (\A i \in Jobs : i # j => pc'[i] = pc[i]) /\ pc'[j] \notin {"first", "second"}
  BY <1>3 DEF TypeOK
<1>5. ASSUME UNCHANGED msgs PROVE Listed'
  <2>1. Inserts' = Inserts
    BY <1>5 DEF Inserts
  <2>2. \A i \in Jobs : pc'[i] \in {"first", "second"} => pc'[i] = pc[i]
    BY <1>4
  <2>3. \A i \in Jobs : ask'[i] = ask[i] /\ task'[i] = task[i] /\ engs'[i] = engs[i]
                        /\ count'[i] = count[i]
    BY <1>1
  <2>4. \A i \in Jobs : task'[i] = Device /\ pc'[i] \in {"first", "second"} =>
               /\ task[i] = Device /\ pc'[i] = pc[i] /\ ask'[i] = ask[i]
               /\ engs'[i] = engs[i] /\ count'[i] = count[i]
    BY <2>2, <2>3
  <2>5. \A q \in Inserts' : count'[q.job] = count[q.job]
    BY <1>1
  <2>6. complete' => complete
    BY <1>1
  <2> QED
    BY <2>1, <2>4, <2>5, <2>6, ListedKept
<1>6. ASSUME NEW q0, q0.type = "INSERT_DISPOSITIVO", q0.job = j, q0.row = row,
             msgs' = msgs \cup {q0}
      PROVE  Listed'
  <2> SUFFICES ASSUME complete' PROVE Listed'
    BY DEF Listed
  <2>1. Inserts' = Inserts \cup {q0}
    BY <1>6 DEF Inserts
  <2>2. ASSUME NEW q \in Inserts', NEW f \in Engineers
        PROVE  count'[q.job][q.row.eng] <= Load(f)'
    <3>1. count[q.job][q.row.eng] <= Load(f)
      BY <1>1, <1>2, <1>3, <1>6, <2>1 DEF Listed
    <3>2. count[q.job][q.row.eng] \in Nat
      BY <1>3, <1>6, <2>1, Numbers DEF TypeOK, Fewest
    <3> QED
      BY <1>1, <3>1, <3>2, Loads
  <2>3. ASSUME NEW i \in Jobs PROVE ListedFor(i)'
    <3>1. ListedFor(i)
      BY <1>1 DEF Listed, ListedFor
    <3>2. \A f \in Engineers : count[i][f] \in Nat
      BY DEF TypeOK
    <3> QED
      BY <1>1, <1>4, <3>1, <3>2, Loads DEF ListedFor
  <2> QED
    BY <2>2, <2>3 DEF Listed, ListedFor
<1> QED
  BY <1>2, <1>3, <1>5, <1>6

LEMMA ListedStep ==
    ASSUME TypeOK, Asked, Numbered, Numbered', Listed, [Next]_vars
    PROVE  Listed'
<1>0. \A q \in Inserts : q.job \in Jobs /\ pc[q.job] = "sent"
  BY Numbers DEF Asked
<1>1. ASSUME NEW n \in Nodes, NEW x, Request(n, x) PROVE Listed'
  <2>1. ASSUME NEW j \in Jobs, Asks(j, x) PROVE Listed'
    <3>1. UNCHANGED <<ask, engs, count, complete>>
      BY <2>1 DEF Asks
    <3>2. \A i \in Jobs : pc'[i] \in {"first", "second"} => pc'[i] = pc[i] /\ task'[i] = task[i]
      BY <2>1, AsksFrame
    <3> QED
      BY <2>1, <3>1, <3>2, AsksFrame, ListedKept
  <2> QED
    BY <1>1, <2>1, RequestEffect, StartsListed
<1>2. ASSUME NEW q \in msgs, HandleRequest(q) PROVE Listed'
  <2>1. CASE UNCHANGED jobVars /\ Inserts' = Inserts
    BY <2>1, ListedKept DEF jobVars
  <2> QED
    BY <1>2, <2>1, HandleRequestEffect, StartsListed
<1>3. CASE UNCHANGED jobVars /\ Inserts' = Inserts
  BY <1>3, ListedKept DEF jobVars
<1>4. ASSUME NEW j \in Jobs, QueryTimeout(j) PROVE Listed'
  <2>1. /\ UNCHANGED <<task, pc, engs, count, msgs>> /\ complete' = (complete /\ task[j] # Device)
        /\ \A i \in Jobs : i # j => ask'[i] = ask[i]
    BY <1>4 DEF QueryTimeout, TypeOK
  <2>2. Inserts' = Inserts
    BY <2>1 DEF Inserts
  <2> QED
    BY <2>1, <2>2, ListedKept
<1>5. ASSUME NEW j \in Jobs, RedistributeTickets(j) PROVE Listed'
  <2>1. /\ task[j] # Device /\ UNCHANGED <<task, ask, count, complete>>
    BY <1>5 DEF RedistributeTickets
  <2>2. \A i \in Jobs : i # j => pc'[i] = pc[i] /\ engs'[i] = engs[i]
    BY <1>5 DEF RedistributeTickets, UseEngineer, TypeOK
  <2> QED
    BY <1>5, <2>1, <2>2, RedistributeEffect, ListedKept
<1>6. ASSUME NEW q \in msgs, HandleCommit(q) PROVE Listed'
  <2>1. UNCHANGED <<task, ask, engs, count, complete>> /\ Inserts' \subseteq Inserts
    BY <1>6, CommitEffect DEF HandleCommit
  <2>2. \A i \in Jobs : pc'[i] \in {"first", "second"} => pc'[i] = pc[i]
    BY <1>6 DEF HandleCommit, TypeOK
  <2> QED
    BY <2>1, <2>2, ListedKept
<1>7. ASSUME NEW n \in Nodes, Crash(n) PROVE Listed'
  <2>1. UNCHANGED <<task, ask, engs, count, complete>> /\ Inserts' \subseteq Inserts
    BY <1>7, CrashAsked DEF Crash
  <2>2. \A i \in Jobs : pc'[i] \in {"first", "second"} => pc'[i] = pc[i]
    BY <1>7 DEF Crash
  <2> QED
    BY <2>1, <2>2, ListedKept
<1>8. ASSUME NEW n \in Nodes, NEW d \in Nodes,
             \/ CloseTicket(n) \/ declareDead(n, d) \/ MarkAlive(n, d) \/ SetMasterID(n)
             \/ UNCHANGED vars
      PROVE  UNCHANGED jobVars /\ Inserts' = Inserts
  BY <1>8, CloseEffect DEF CloseTicket, declareDead, MarkAlive, SetMasterID, vars, Inserts
<1> QED
  BY <1>1, <1>2, <1>3, <1>4, <1>5, <1>6, <1>7, <1>8, HandleQueryListed, SecondListListed,
     DistributeListed, NodesAssumption DEF Next, AddDevice, React

-----------------------------------------------------------------------------
(* Devices are spread evenly.                                              *)

LEMMA PlacingTypes ==
    /\ IsFiniteSet(Placing) /\ Cardinality(Placing) \in Nat
    /\ IsFiniteSet(Placing') /\ Cardinality(Placing') \in Nat
BY JobsAssumption, FS_Subset, FS_CardinalityType DEF Placing

LEMMA LowTypes ==
    ASSUME NEW e, NEW v
    PROVE  /\ Low(e, v) \subseteq Placing /\ IsFiniteSet(Low(e, v))
           /\ Cardinality(Low(e, v)) \in Nat
           /\ Cardinality(Low(e, v)') \in Nat
           /\ Cardinality(Low(e, v)') <= Cardinality(Placing')
<1>1. Low(e, v) \subseteq Placing /\ Low(e, v)' \subseteq Placing'
  BY DEF Low
<1> QED
  BY <1>1, PlacingTypes, NotMore

\* Only the jobs change.  Whoever counts now counts no less than the load.
LEMMA EvenKept ==
    ASSUME TypeOK, Numbered, Numbered', [Next]_vars, Even, devices' = devices,
           complete' => complete,
           peak' \in Nat, peak <= peak', Cardinality(Placing') <= peak',
           complete' => \A e \in Engineers, v \in Nat :
                          Load(e) <= v \/ Low(e, v)' \subseteq Low(e, v)
    PROVE  Even'
<1> SUFFICES ASSUME complete', NEW e \in Engineers, NEW f \in Engineers, NEW v \in Nat,
                    Load(f)' <= v
             PROVE  Load(e)' + Cardinality(Low(e, v)') <= v + peak'
  BY DEF Even
<1>1. Load(e)' = Load(e) /\ Load(f)' = Load(f) /\ Load(e) \in Nat
  BY Loads DEF Load, DevicesOf
<1>2. /\ IsFiniteSet(Low(e, v)) /\ Cardinality(Low(e, v)') \in Nat
      /\ Cardinality(Low(e, v)') <= Cardinality(Placing') /\ Cardinality(Placing') \in Nat
      /\ peak \in Nat
  BY LowTypes, PlacingTypes DEF TypeOK
<1>3. CASE Load(e) <= v
  BY <1>1, <1>2, <1>3
<1>4. CASE Low(e, v)' \subseteq Low(e, v)
  <2>1. Cardinality(Low(e, v)') <= Cardinality(Low(e, v)) /\ Cardinality(Low(e, v)) \in Nat
    BY <1>2, <1>4, NotMore
  <2>2. Load(e) + Cardinality(Low(e, v)) <= v + peak
    BY <1>1 DEF Even
  <2> QED
    BY <1>1, <1>2, <2>1, <2>2
<1> QED
  BY <1>3, <1>4

LEMMA EvenFrame ==
    ASSUME TypeOK, Numbered, Numbered', [Next]_vars, Even, devices' = devices,
           complete' => complete, peak' = peak, Inserts' \subseteq Inserts,
           \A i \in Jobs : task'[i] = Device /\ pc'[i] \in {"first", "second", "sent"} =>
             task[i] = Device /\ pc[i] \in {"first", "second", "sent"} /\ count'[i] = count[i],
           complete' => \A i \in Jobs : task'[i] = Device /\ pc'[i] = "second" =>
             ask'[i] = Nodes \/ (pc[i] = "second" /\ ask[i] \subseteq ask'[i])
    PROVE  Even'
<1>1. Placing' \subseteq Placing
  BY DEF Placing
<1>2. Cardinality(Placing') <= Cardinality(Placing) /\ Cardinality(Placing') \in Nat
  BY <1>1, PlacingTypes, NotMore
<1>3. peak' \in Nat /\ peak <= peak' /\ Cardinality(Placing') <= peak'
  BY <1>2, PlacingTypes DEF Even, TypeOK
<1>4. ASSUME complete', NEW e \in Engineers, NEW v \in Nat
      PROVE  Low(e, v)' \subseteq Low(e, v)
  <2> SUFFICES ASSUME NEW i \in Low(e, v)' PROVE i \in Low(e, v)
    OBVIOUS
  <2>1. /\ i \in Placing' /\ i \in Jobs /\ count'[i][e] <= v
        /\ \/ pc'[i] = "second" /\ Home[e] \notin ask'[i]
           \/ \E q \in Inserts' : q.job = i /\ q.row.eng = e
    BY DEF Low, Placing
  <2>2. task'[i] = Device /\ pc'[i] \in {"first", "second", "sent"} /\ Home[e] \in Nodes
    BY <2>1, HomeAssumption DEF Placing
  <2> QED
    BY <1>1, <1>4, <2>1, <2>2 DEF Low
<1> QED
  BY <1>3, <1>4, EvenKept

LEMMA StartsEven ==
    ASSUME TypeOK, Asked, Numbered, Numbered', [Next]_vars, Even,
           NEW j \in Jobs, NEW n \in Nodes, NEW x, Starts(j, n, x), devices' = devices
    PROVE  Even'
<1>1. /\ peak' = IF x = Device /\ Cardinality(Placing) >= peak THEN Cardinality(Placing) + 1
                                                              ELSE peak
      /\ complete' => complete
  BY DEF Starts, Begin, ListAll
<1>2. Placing' \subseteq Placing \cup (IF x = Device THEN {j} ELSE {})
  BY StartsFrame DEF Placing
<1>3. /\ IsFiniteSet(Placing) /\ Cardinality(Placing) \in Nat /\ peak \in Nat
      /\ Cardinality(Placing) <= peak
  BY PlacingTypes DEF Even, TypeOK
<1>4. peak' \in Nat /\ peak <= peak' /\ Cardinality(Placing') <= peak'
  <2>1. CASE x # Device
    BY <1>1, <1>2, <1>3, <2>1, NotMore
  <2>2. CASE x = Device
    <3>1. /\ IsFiniteSet(Placing \cup {j})
          /\ Cardinality(Placing \cup {j}) <= Cardinality(Placing) + 1
      BY <1>3, OneMore
    <3>2. /\ Cardinality(Placing') <= Cardinality(Placing \cup {j})
          /\ Cardinality(Placing') \in Nat /\ Cardinality(Placing \cup {j}) \in Nat
      BY <1>2, <2>2, <3>1, NotMore
    <3> QED
      BY <1>1, <1>3, <2>2, <3>1, <3>2
  <2> QED
    BY <2>1, <2>2
<1>5. ASSUME NEW e \in Engineers, NEW v \in Nat
      PROVE  Low(e, v)' \subseteq Low(e, v)
  <2> SUFFICES ASSUME NEW i \in Low(e, v)' PROVE i \in Low(e, v)
    OBVIOUS
  <2>1. /\ i \in Jobs /\ i \in Placing' /\ count'[i][e] <= v
        /\ \/ pc'[i] = "second" /\ Home[e] \notin ask'[i]
           \/ \E q \in Inserts : q.job = i /\ q.row.eng = e
    BY StartsFrame DEF Low, Placing
  <2>2. i # j
    BY <2>1, StartsFrame
  <2> QED
    BY <2>1, <2>2, StartsFrame DEF Low, Placing
<1> QED
  BY <1>1, <1>4, <1>5, EvenKept

LEMMA HandleQueryEven ==
    ASSUME TypeOK, Asked, Numbered, Numbered', [Next]_vars, Even,
           NEW j \in Jobs, NEW n \in Nodes, HandleQuery(j, n)
    PROVE  Even'
<1>1. /\ pc[j] \in {"first", "second"}
      /\ UNCHANGED <<task, pc, complete, devices, peak, msgs>>
  BY DEF HandleQuery, tableVars
<1>2. /\ \A i \in Jobs : i # j => ask'[i] = ask[i] /\ count'[i] = count[i]
      /\ ask'[j] = ask[j] \ {n}
      /\ \A e \in Engineers : count'[j][e] =
           IF Home[e] = n /\ pc[j] = "second" /\ task[j] = Device THEN Load(e) ELSE count[j][e]
  BY <1>1 DEF HandleQuery, TypeOK, Table, Load
<1>3. Inserts' = Inserts /\ Placing' = Placing
  BY <1>1 DEF Inserts, Placing
<1>4. \A q \in Inserts : q.job \in Jobs /\ q.job # j
  BY <1>1, Numbers DEF Asked
<1>5. ASSUME NEW e \in Engineers, NEW v \in Nat, ~(Load(e) <= v)
      PROVE  Low(e, v)' \subseteq Low(e, v)
  <2> SUFFICES ASSUME NEW i \in Low(e, v)' PROVE i \in Low(e, v)
    OBVIOUS
  <2>1. /\ i \in Placing /\ i \in Jobs /\ count'[i][e] <= v /\ task[i] = Device
        /\ \/ pc[i] = "second" /\ Home[e] \notin ask'[i]
           \/ \E q \in Inserts : q.job = i /\ q.row.eng = e
    BY <1>1, <1>3 DEF Low, Placing
  <2>2. CASE i # j
    BY <1>2, <2>1, <2>2 DEF Low
  <2>3. CASE i = j
    <3>1. pc[j] = "second" /\ Home[e] \notin ask'[j] /\ task[j] = Device
      BY <1>4, <2>1, <2>3
    <3>2. Home[e] # n
      BY <1>2, <1>5, <2>1, <2>3, <3>1
    <3> QED
      BY <1>2, <2>1, <2>3, <3>1, <3>2 DEF Low
  <2> QED
    BY <2>2, <2>3
<1>6. peak' \in Nat /\ peak <= peak' /\ Cardinality(Placing') <= peak'
  BY <1>1, <1>3 DEF Even, TypeOK
<1> QED
  BY <1>1, <1>5, <1>6, EvenKept

\* A device is stored: its engineer has one more, and one job less will give it one.
LEMMA EvenInsert ==
    ASSUME TypeOK, Numbered, Numbered', [Next]_vars, Even,
           NEW j \in Jobs, NEW row \in DeviceRows, NEW m \in Nodes,
           devices' = Insert(devices, m, row), pc' = [pc EXCEPT ![j] = "stored"],
           UNCHANGED <<task, ask, count, peak, complete>>,
           Inserts' \subseteq Inserts, \A q \in Inserts' : q.job # j,
           complete => \A f \in Engineers : count[j][row.eng] <= Load(f),
           \A v \in Nat : count[j][row.eng] <= v => j \in Low(row.eng, v)
    PROVE  Even'
<1>0. /\ \A n \in Nodes : /\ devices[n] \subseteq devices'[n]
                          /\ devices'[n] \subseteq devices[n] \cup {row}
      /\ row.eng \in Engineers /\ \A e \in Engineers : Home[e] \in Nodes
  <2>1. devices \in [Nodes -> SUBSET DeviceRows]
    BY DEF TypeOK
  <2>2. \A n \in Nodes : /\ devices[n] \subseteq devices'[n]
                         /\ devices'[n] \subseteq devices[n] \cup {row}
    <3>1. \A n \in Nodes : /\ devices[n] \subseteq Insert(devices, m, row)[n]
                           /\ Insert(devices, m, row)[n] \subseteq devices[n] \cup {row}
      BY <2>1, InsertTypes
    <3> QED
      BY <3>1
  <2>3. row.eng \in Engineers
    BY DEF DeviceRows
  <2> QED
    BY <2>2, <2>3, HomeAssumption
<1>1. /\ \A i \in Jobs : i # j => pc'[i] = pc[i]
      /\ pc'[j] = "stored"
  BY DEF TypeOK
<1>2. Placing' \subseteq Placing
  BY <1>1 DEF Placing
<1>3. /\ Cardinality(Placing') <= Cardinality(Placing) /\ Cardinality(Placing) <= peak
      /\ peak \in Nat /\ Cardinality(Placing) \in Nat /\ Cardinality(Placing') \in Nat
  BY <1>2, PlacingTypes, NotMore DEF Even, TypeOK
<1>4. ASSUME complete', NEW e \in Engineers, NEW f \in Engineers, NEW v \in Nat, Load(f)' <= v
      PROVE  Load(e)' + Cardinality(Low(e, v)') <= v + peak'
  <2>1. Load(f) <= v
    BY <1>4, Loads
  <2>2. Load(e) + Cardinality(Low(e, v)) <= v + peak
    BY <1>4, <2>1 DEF Even
  <2>3. Low(e, v)' \subseteq Low(e, v) \ {j}
    <3>1. ASSUME NEW i \in Low(e, v)' PROVE i # j /\ i \in Low(e, v)
      <4>1. /\ i \in Placing' /\ i \in Jobs /\ count[i][e] <= v
            /\ \/ pc'[i] = "second" /\ Home[e] \notin ask[i]
               \/ \E q \in Inserts' : q.job = i /\ q.row.eng = e
        BY DEF Low, Placing
      <4>2. i # j
        BY <1>1, <4>1
      <4> QED
        BY <1>1, <1>2, <4>1, <4>2 DEF Low
    <3> QED
      BY <3>1
  <2>4. /\ IsFiniteSet(Low(e, v)) /\ Cardinality(Low(e, v)) \in Nat
        /\ Cardinality(Low(e, v)') \in Nat
    BY LowTypes
  <2>5. Load(e) \in Nat /\ Load(e)' \in Nat
    BY Loads
  <2>6. CASE e # row.eng
    <3>1. DevicesOf(e)' = DevicesOf(e)
      BY <1>0, <2>6 DEF DevicesOf
    <3>2. Load(e)' = Load(e)
      BY <3>1 DEF Load
    <3>3. Cardinality(Low(e, v)') <= Cardinality(Low(e, v))
      BY <2>3, <2>4, NotMore
    <3> QED
      BY <1>3, <2>2, <2>4, <2>5, <3>2, <3>3
  <2>7. CASE e = row.eng
    <3>1. count[j][e] \in Nat /\ count[j][e] <= Load(f) /\ Load(f) \in Nat
      BY <1>4, <2>7, Loads DEF TypeOK
    <3>2. j \in Low(e, v)
      BY <2>1, <2>7, <3>1
    <3>3. Cardinality(Low(e, v) \ {j}) = Cardinality(Low(e, v)) - 1
      BY <2>4, <3>2, FS_RemoveElement
    <3>4. Cardinality(Low(e, v)') <= Cardinality(Low(e, v)) - 1
      <4>1. IsFiniteSet(Low(e, v) \ {j})
        BY <2>4, NotMore
      <4> QED
        BY <2>3, <3>3, <4>1, NotMore
    <3>5. Load(e)' <= Load(e) + 1
      <4>1. DevicesOf(e)' \subseteq DevicesOf(e) \cup {row} /\ DevicesOf(e) \subseteq AllDevices
        BY <1>0 DEF DevicesOf, AllDevices
      <4>2. IsFiniteSet(DevicesOf(e))
        BY <4>1, NotMore DEF Numbered
      <4>3. /\ IsFiniteSet(DevicesOf(e) \cup {row})
            /\ Cardinality(DevicesOf(e) \cup {row}) <= Cardinality(DevicesOf(e)) + 1
            /\ Cardinality(DevicesOf(e) \cup {row}) \in Nat
        <5>1. /\ IsFiniteSet(DevicesOf(e) \cup {row}) /\ Cardinality(DevicesOf(e)) \in Nat
              /\ Cardinality(DevicesOf(e) \cup {row}) =
                   IF row \in DevicesOf(e) THEN Cardinality(DevicesOf(e))
                   ELSE Cardinality(DevicesOf(e)) + 1
          BY <4>2, OneMore
        <5> QED
          BY <5>1
      <4>4. Cardinality(DevicesOf(e)') <= Cardinality(DevicesOf(e) \cup {row})
        BY <4>1, <4>3, NotMore
      <4> QED
        BY <2>5, <4>3, <4>4 DEF Load
    <3> QED
      BY <1>3, <2>2, <2>4, <2>5, <3>4, <3>5
  <2> QED
    BY <2>6, <2>7
<1> QED
  BY <1>3, <1>4 DEF Even

LEMMA DistributeEven ==
    ASSUME TypeOK, Asked, Numbered, Numbered', [Next]_vars, Listed, Even,
           NEW j \in Jobs, distributeDevice(j)
    PROVE  Even'
<1>1. /\ pc[j] = "second" /\ ask[j] = {} /\ task[j] = Device /\ j \in Placing
      /\ UNCHANGED <<task, ask, engs, count, complete, peak>>
  BY DEF distributeDevice, Placing
<1>2. PICK e \in Fewest(j), row \in DeviceRows :
        /\ row.eng = e
        /\ \/ UNCHANGED <<devices, msgs>> /\ pc' = [pc EXCEPT ![j] = "done"]
           \/ /\ devices' = Insert(devices, Home[e], row)
              /\ pc' = [pc EXCEPT ![j] = "stored"] /\ UNCHANGED msgs
           \/ /\ \E q : /\ q.type = "INSERT_DISPOSITIVO" /\ q.job = j /\ q.row = row
                        /\ msgs' = msgs \cup {q}
              /\ pc' = [pc EXCEPT ![j] = "sent"] /\ UNCHANGED devices
  BY DistributeEffect
<1>3. \A q \in Inserts : q.job \in Jobs /\ q.job # j
  BY <1>1, Numbers DEF Asked
<1>4. e \in Engineers /\ Home[e] \in Nodes
  BY HomeAssumption DEF Fewest, TypeOK
<1>5. CASE UNCHANGED <<devices, msgs>> /\ pc' = [pc EXCEPT ![j] = "done"]
  <2>1. (\A i \in Jobs : i # j => pc'[i] = pc[i]) /\ pc'[j] = "done"
    BY <1>5 DEF TypeOK
  <2>2. Inserts' \subseteq Inserts
    BY <1>5 DEF Inserts
  <2> QED
    BY <1>1, <1>5, <2>1, <2>2, EvenFrame
<1>6. CASE /\ devices' = Insert(devices, Home[e], row)
           /\ pc' = [pc EXCEPT ![j] = "stored"] /\ UNCHANGED msgs
  <2>1. Inserts' \subseteq Inserts /\ \A q \in Inserts' : q.job # j
    BY <1>3, <1>6 DEF Inserts
  <2>2. complete => \A f \in Engineers : count[j][row.eng] <= Load(f)
    BY <1>2, DistributeListed
  <2>3. \A v \in Nat : count[j][row.eng] <= v => j \in Low(row.eng, v)
    BY <1>1 DEF Low
  <2> QED
    BY <1>1, <1>4, <1>6, <2>1, <2>2, <2>3, EvenInsert
<1>7. ASSUME NEW q0, q0.type = "INSERT_DISPOSITIVO", q0.job = j, q0.row = row,
             msgs' = msgs \cup {q0}, pc' = [pc EXCEPT ![j] = "sent"], UNCHANGED devices
      PROVE  Even'
  <2>1. Inserts' = Inserts \cup {q0}
    BY <1>7 DEF Inserts
  <2>2. (\A i \in Jobs : i # j => pc'[i] = pc[i]) /\ pc'[j] = "sent"
    BY <1>7 DEF TypeOK
  <2>3. Placing' = Placing
    BY <1>1, <2>2 DEF Placing
  <2>4. ASSUME NEW f \in Engineers, NEW v \in Nat
        PROVE  Low(f, v)' \subseteq Low(f, v)
    <3> SUFFICES ASSUME NEW i \in Low(f, v)' PROVE i \in Low(f, v)
      OBVIOUS
    <3>1. /\ i \in Placing /\ i \in Jobs /\ count[i][f] <= v
          /\ \/ pc'[i] = "second" /\ Home[f] \notin ask[i]
             \/ \E q \in Inserts' : q.job = i /\ q.row.eng = f
      BY <1>1, <2>3 DEF Low, Placing
    <3>2. CASE i = j
      BY <1>1, <3>1, <3>2 DEF Low
    <3>3. CASE i # j
      BY <1>7, <2>1, <2>2, <3>1, <3>3 DEF Low
    <3> QED
      BY <3>2, <3>3
  <2>5. peak' \in Nat /\ peak <= peak' /\ Cardinality(Placing') <= peak'
    BY <1>1, <2>3 DEF Even, TypeOK
  <2> QED
    BY <1>1, <1>7, <2>4, <2>5, EvenKept
<1> QED
  BY <1>2, <1>5, <1>6, <1>7

LEMMA CommitEven ==
    ASSUME TypeOK, Asked, Numbered, Numbered', [Next]_vars, Listed, Even,
           NEW q \in msgs, HandleCommit(q)
    PROVE  Even'
<1>1. UNCHANGED <<task, ask, count, complete, peak>> /\ Inserts' = Inserts \ {q}
  BY CommitEffect DEF HandleCommit
<1>2. CASE q.type # "INSERT_DISPOSITIVO"
  <2>1. UNCHANGED <<pc, devices>>
    BY <1>2 DEF HandleCommit
  <2> QED
    BY <1>1, <2>1, EvenFrame
<1>3. CASE q.type = "INSERT_DISPOSITIVO"
  <2>1. /\ q \in Inserts /\ pc' = [pc EXCEPT ![q.job] = "stored"]
        /\ devices' = Insert(devices, q.to, q.row)
    BY <1>3 DEF HandleCommit, Inserts
  <2>2. /\ q.row \in DeviceRows /\ q.to \in Nodes /\ q.job \in Jobs
        /\ pc[q.job] = "sent" /\ task[q.job] = Device /\ q.job \in Placing
        /\ \A p \in Inserts' : p.job # q.job
    BY <1>1, <2>1, Numbers DEF Asked, Placing
  <2>3. complete => \A f \in Engineers : count[q.job][q.row.eng] <= Load(f)
    BY <2>1 DEF Listed
  <2>4. \A v \in Nat : count[q.job][q.row.eng] <= v => q.job \in Low(q.row.eng, v)
    BY <2>1, <2>2 DEF Low
  <2>5. Inserts' \subseteq Inserts
    BY <1>1
  <2> QED
    BY <1>1, <2>1, <2>2, <2>3, <2>4, <2>5, EvenInsert
<1> QED
  BY <1>2, <1>3

LEMMA EvenStep ==
    ASSUME TypeOK, Asked, Numbered, Numbered', Listed, Even, [Next]_vars
    PROVE  Even'
<1>1. ASSUME NEW n \in Nodes, NEW x, Request(n, x), devices' = devices PROVE Even'
  <2>1. ASSUME NEW j \in Jobs, Asks(j, x) PROVE Even'
    <3>1. UNCHANGED <<ask, count, complete, peak>> /\ Inserts' \subseteq Inserts
      BY <2>1 DEF Asks
    <3>2. \A i \in Jobs : pc'[i] \in {"first", "second", "sent"} =>
            pc'[i] = pc[i] /\ task'[i] = task[i]
      BY <2>1, AsksFrame
    <3> QED
      BY <1>1, <3>1, <3>2, EvenFrame
  <2> QED
    BY <1>1, <2>1, RequestEffect, StartsEven
<1>2. CASE UNCHANGED jobVars /\ Inserts' = Inserts /\ devices' = devices
  BY <1>2, EvenFrame DEF jobVars
<1>3. ASSUME NEW q \in msgs, HandleRequest(q) PROVE Even'
  <2>1. devices' = devices
    BY <1>3 DEF HandleRequest, tableVars
  <2> QED
    BY <1>2, <1>3, <2>1, HandleRequestEffect, StartsEven
<1>4. ASSUME NEW j \in Jobs, QueryTimeout(j) PROVE Even'
  <2>1. /\ UNCHANGED <<task, pc, count, msgs, devices, peak>>
        /\ complete' = (complete /\ task[j] # Device)
        /\ \A i \in Jobs : i # j => ask'[i] = ask[i]
    BY <1>4 DEF QueryTimeout, TypeOK, tableVars
  <2>2. Inserts' \subseteq Inserts
    BY <2>1 DEF Inserts
  <2> QED
    BY <2>1, <2>2, EvenFrame
<1>5. ASSUME NEW j \in Jobs, SecondList(j) PROVE Even'
  <2>1. /\ UNCHANGED <<task, count, msgs, devices, peak>> /\ pc[j] = "first"
        /\ complete' => complete
        /\ \A i \in Jobs : i # j => ask'[i] = ask[i] /\ pc'[i] = pc[i]
        /\ \/ pc'[j] = "done"
           \/ pc'[j] = "second" /\ (complete' /\ task[j] = Device => ask'[j] = Nodes)
    BY <1>5 DEF SecondList, ListAll, TypeOK, tableVars
  <2>2. Inserts' \subseteq Inserts
    BY <2>1 DEF Inserts
  <2> QED
    BY <2>1, <2>2, EvenFrame
<1>6. ASSUME NEW j \in Jobs, RedistributeTickets(j) PROVE Even'
  <2>1. /\ task[j] # Device /\ UNCHANGED <<task, ask, count, complete, devices, peak>>
    BY <1>6 DEF RedistributeTickets
  <2>2. \A i \in Jobs : i # j => pc'[i] = pc[i]
    BY <1>6 DEF RedistributeTickets, TypeOK
  <2>3. Inserts' \subseteq Inserts
    BY <1>6, RedistributeEffect
  <2> QED
    BY <2>1, <2>2, <2>3, EvenFrame
<1>7. ASSUME NEW n \in Nodes, Crash(n) PROVE Even'
  <2>1. UNCHANGED <<task, ask, count, complete, devices, peak>> /\ Inserts' \subseteq Inserts
    BY <1>7, CrashAsked DEF Crash, tableVars
  <2>2. \A i \in Jobs : pc'[i] \in {"first", "second", "sent"} => pc'[i] = pc[i]
    BY <1>7 DEF Crash
  <2> QED
    BY <2>1, <2>2, EvenFrame
<1>8. ASSUME NEW n \in Nodes, NEW d \in Nodes,
             \/ CloseTicket(n) \/ declareDead(n, d) \/ MarkAlive(n, d) \/ SetMasterID(n)
             \/ UNCHANGED vars
      PROVE  UNCHANGED jobVars /\ Inserts' = Inserts /\ devices' = devices
  BY <1>8, CloseEffect DEF CloseTicket, declareDead, MarkAlive, SetMasterID, vars, Inserts,
     tableVars
<1>9. ASSUME NEW n \in Nodes, NEW d \in Nodes, AddDevice(n) \/ React(n, d)
      PROVE  devices' = devices /\ \E x : Request(n, x)
  BY <1>9 DEF AddDevice, React, tableVars
<1> QED
  BY <1>1, <1>2, <1>3, <1>4, <1>5, <1>6, <1>7, <1>8, <1>9, HandleQueryEven, DistributeEven,
     CommitEven, NodesAssumption DEF Next

-----------------------------------------------------------------------------
(* The notices of a death.                                                 *)

LEMMA RequestTasks ==
    ASSUME TypeOK, Asked, NEW n \in Nodes, NEW x, Request(n, x)
    PROVE  \E j \in Jobs : task'[j] = x /\ \A i \in Jobs : i # j => task'[i] = task[i]
<1>1. PICK j \in Jobs : Starts(j, n, x) \/ Asks(j, x)
  BY RequestEffect
<1> QED
  BY <1>1, StartsFrame, AsksFrame

LEMMA NoticesStep ==
    ASSUME TypeOK, Asked, Notices, [Next]_vars
    PROVE  Notices'
<1>1. /\ IsFiniteSet(Redistributing) /\ IsFiniteSet(Redistributing')
      /\ Cardinality(Redistributing) \in Nat /\ Cardinality(Redistributing') \in Nat
      /\ IsFiniteSet(reacting) /\ Cardinality(reacting) \in Nat /\ declared \in Nat
  <2>1. Redistributing \subseteq Jobs /\ Redistributing' \subseteq Jobs
    BY DEF Redistributing
  <2> QED
    BY <2>1, JobsAssumption, NotMore, FS_CardinalityType DEF Notices, TypeOK
<1>2. ASSUME Redistributing' \subseteq Redistributing, reacting' \subseteq reacting,
             declared' = declared
      PROVE  Notices'
  <2>1. /\ Cardinality(Redistributing') <= Cardinality(Redistributing)
        /\ IsFiniteSet(reacting') /\ Cardinality(reacting') <= Cardinality(reacting)
        /\ Cardinality(reacting') \in Nat
    BY <1>1, <1>2, NotMore
  <2> QED
    BY <1>1, <1>2, <2>1 DEF Notices
<1>3. ASSUME UNCHANGED <<task, reacting, declared>> PROVE Notices'
  BY <1>2, <1>3 DEF Redistributing
<1>4. ASSUME NEW n \in Nodes, AddDevice(n) PROVE Notices'
  <2>1. Request(n, Device) /\ UNCHANGED <<reacting, declared>>
    BY <1>4 DEF AddDevice, viewVars
  <2>2. PICK j \in Jobs : /\ task'[j] = Device
                          /\ \A i \in Jobs : i # j => task'[i] = task[i]
    BY <2>1, RequestTasks
  <2>3. Redistributing' \subseteq Redistributing
    BY <2>2 DEF Redistributing
  <2> QED
    BY <1>2, <2>1, <2>3
<1>5. ASSUME NEW n \in Nodes, NEW d \in Nodes, React(n, d) PROVE Notices'
  <2>1. /\ Request(n, d) /\ <<n, d>> \in reacting /\ reacting' = reacting \ {<<n, d>>}
        /\ declared' = declared
    BY <1>5 DEF React
  <2>2. PICK j \in Jobs : /\ task'[j] = d
                          /\ \A i \in Jobs : i # j => task'[i] = task[i]
    BY <2>1, RequestTasks
  <2>3. Redistributing' \subseteq Redistributing \cup {j}
    BY <2>2 DEF Redistributing
  <2>4. Cardinality(Redistributing') <= Cardinality(Redistributing) + 1
    <3>1. /\ IsFiniteSet(Redistributing \cup {j})
          /\ Cardinality(Redistributing \cup {j}) =
               IF j \in Redistributing THEN Cardinality(Redistributing)
               ELSE Cardinality(Redistributing) + 1
      BY <1>1, OneMore
    <3>2. Cardinality(Redistributing') <= Cardinality(Redistributing \cup {j})
      BY <2>3, <3>1, NotMore
    <3> QED
      BY <1>1, <3>1, <3>2
  <2>5. /\ IsFiniteSet(reacting \ {<<n, d>>})
        /\ Cardinality(reacting \ {<<n, d>>}) = Cardinality(reacting) - 1
    BY <1>1, <2>1, FS_RemoveElement
  <2>6. IsFiniteSet(reacting') /\ Cardinality(reacting') = Cardinality(reacting) - 1
    BY <2>1, <2>5
  <2>7. Cardinality(Redistributing) + Cardinality(reacting) <= declared
    BY DEF Notices
  <2>8. Cardinality(Redistributing') + Cardinality(reacting') <= declared'
    BY <1>1, <2>1, <2>4, <2>6, <2>7
  <2> QED
    BY <2>6, <2>8 DEF Notices
<1>6. ASSUME NEW n \in Nodes, NEW d \in Nodes, declareDead(n, d) PROVE Notices'
  <2>1. /\ reacting' \in {reacting, reacting \cup {<<n, d>>}}
        /\ declared' = declared + 1 /\ UNCHANGED task
    BY <1>6 DEF declareDead, jobVars
  <2>2. IsFiniteSet(reacting') /\ Cardinality(reacting') <= Cardinality(reacting) + 1
        /\ Cardinality(reacting') \in Nat
    <3>1. /\ IsFiniteSet(reacting \cup {<<n, d>>})
          /\ Cardinality(reacting \cup {<<n, d>>}) =
               IF <<n, d>> \in reacting THEN Cardinality(reacting) ELSE Cardinality(reacting) + 1
      BY <1>1, OneMore
    <3>2. CASE reacting' = reacting
      BY <1>1, <3>2
    <3>3. CASE reacting' = reacting \cup {<<n, d>>}
      BY <1>1, <3>1, <3>3
    <3> QED
      BY <2>1, <3>2, <3>3
  <2>3. Redistributing' = Redistributing
    BY <2>1 DEF Redistributing
  <2>4. Cardinality(Redistributing') = Cardinality(Redistributing)
    BY <2>3
  <2>5. Cardinality(Redistributing) + Cardinality(reacting) <= declared
    BY DEF Notices
  <2>6. Cardinality(Redistributing') + Cardinality(reacting') <= declared'
    BY <1>1, <2>1, <2>2, <2>4, <2>5
  <2> QED
    BY <2>2, <2>6 DEF Notices
<1>7. ASSUME NEW q \in msgs, HandleRequest(q) PROVE Notices'
  <2>1. UNCHANGED <<reacting, declared>>
    BY <1>7 DEF HandleRequest, viewVars
  <2>2. \A i \in Jobs : task'[i] = task[i]
    BY <1>7, HandleRequestEffect, StartsFrame DEF jobVars
  <2>3. Redistributing' = Redistributing
    BY <2>2 DEF Redistributing
  <2> QED
    BY <1>2, <2>1, <2>3
<1>8. ASSUME NEW n \in Nodes, Crash(n) PROVE Notices'
  <2>1. UNCHANGED <<task, declared>> /\ reacting' \subseteq reacting
    BY <1>8 DEF Crash
  <2>2. Redistributing' = Redistributing
    BY <2>1 DEF Redistributing
  <2> QED
    BY <1>2, <2>1, <2>2
<1>9. ASSUME NEW n \in Nodes, NEW d \in Nodes,
             CloseTicket(n) \/ SetMasterID(n) \/ MarkAlive(n, d) \/ UNCHANGED vars
      PROVE  UNCHANGED <<task, reacting, declared>>
  BY <1>9 DEF CloseTicket, SetMasterID, MarkAlive, vars, viewVars, jobVars
<1>10. ASSUME NEW j \in Jobs, NEW n \in Nodes,
              \/ QueryTimeout(j) \/ SecondList(j) \/ distributeDevice(j)
              \/ RedistributeTickets(j) \/ HandleQuery(j, n)
       PROVE  UNCHANGED <<task, reacting, declared>>
  BY <1>10 DEF QueryTimeout, SecondList, distributeDevice, RedistributeTickets, HandleQuery,
     viewVars
<1>11. ASSUME NEW q \in msgs, HandleCommit(q) PROVE UNCHANGED <<task, reacting, declared>>
  BY <1>11 DEF HandleCommit, viewVars
<1> QED
  BY <1>3, <1>4, <1>5, <1>6, <1>7, <1>8, <1>9, <1>10, <1>11, NodesAssumption DEF Next

-----------------------------------------------------------------------------
(* The copies of tickets.                                                  *)

LEMMA CountedKept ==
    ASSUME NEW A, NEW B, NEW C, NEW D, IsFiniteSet(A), IsFiniteSet(D), B \subseteq A,
           C \subseteq D, Cardinality(A) <= Cardinality(C)
    PROVE  Cardinality(B) <= Cardinality(D)
<1>1. Cardinality(B) <= Cardinality(A) /\ Cardinality(B) \in Nat /\ Cardinality(A) \in Nat
  BY NotMore
<1>2. Cardinality(C) <= Cardinality(D) /\ Cardinality(C) \in Nat /\ Cardinality(D) \in Nat
  BY NotMore
<1> QED
  BY <1>1, <1>2

\* One more is counted, and there is one more to count it by.
LEMMA CountedOne ==
    ASSUME NEW A, NEW B, NEW C, NEW D, IsFiniteSet(A), IsFiniteSet(D), NEW x,
           B \subseteq A \cup {x}, C \subseteq D, NEW y \in D \ C,
           Cardinality(A) <= Cardinality(C)
    PROVE  Cardinality(B) <= Cardinality(D)
<1>1. /\ IsFiniteSet(A \cup {x}) /\ Cardinality(A) \in Nat
      /\ Cardinality(A \cup {x}) = IF x \in A THEN Cardinality(A) ELSE Cardinality(A) + 1
  BY OneMore
<1>2. Cardinality(B) <= Cardinality(A \cup {x}) /\ Cardinality(B) \in Nat
  BY <1>1, NotMore
<1>3. IsFiniteSet(D \ {y}) /\ Cardinality(D \ {y}) = Cardinality(D) - 1
  BY FS_RemoveElement
<1>4. C \subseteq D \ {y}
  OBVIOUS
<1>5. Cardinality(C) <= Cardinality(D \ {y}) /\ Cardinality(C) \in Nat
  BY <1>3, <1>4, NotMore
<1>6. Cardinality(D) \in Nat
  BY FS_CardinalityType
<1> QED
  BY <1>1, <1>2, <1>3, <1>5, <1>6

\* The redistributions that have struck off a ticket, or an engineer.
StruckTicket(t) == {j \in Deciding : t \notin rows[j]}

StruckEngineer(e) == {j \in Deciding : ask[j] = {} /\ e \notin engs[j]}

\* A job that decides goes on deciding, and what it has struck off stays so.
Decided ==
    \A j \in Deciding :
        /\ j \in Deciding' /\ rows'[j] \subseteq rows[j]
        /\ ask[j] = {} => ask'[j] = {} /\ engs'[j] \subseteq engs[j]

LEMMA DecidedStruck ==
    ASSUME Decided
    PROVE  /\ \A t \in TicketIds : /\ StruckTicket(t) \subseteq StruckTicket(t)'
                                   /\ IsFiniteSet(StruckTicket(t)')
           /\ \A e \in Engineers : /\ StruckEngineer(e) \subseteq StruckEngineer(e)'
                                   /\ IsFiniteSet(StruckEngineer(e)')
<1>1. /\ \A t \in TicketIds : StruckTicket(t) \subseteq StruckTicket(t)'
      /\ \A e \in Engineers : StruckEngineer(e) \subseteq StruckEngineer(e)'
  BY DEF Decided, StruckTicket, StruckEngineer
<1>2. /\ \A t \in TicketIds : StruckTicket(t)' \subseteq Jobs
      /\ \A e \in Engineers : StruckEngineer(e)' \subseteq Jobs
  BY DEF StruckTicket, StruckEngineer, Deciding, Redistributing
<1> QED
  BY <1>1, <1>2, JobsAssumption, FS_Subset

LEMMA StruckKept ==
    ASSUME Struck, Decided, Spread' \subseteq Spread
    PROVE  Struck'
<1>1. IsFiniteSet(Spread) /\ IsFiniteSet(Spread')
  BY NotMore DEF Struck
<1>2. ASSUME NEW t \in TicketIds
      PROVE  Cardinality({c \in Spread' : c.id = t}) <= Cardinality(StruckTicket(t)')
  <2>1. Cardinality({c \in Spread : c.id = t}) <= Cardinality(StruckTicket(t))
    BY DEF Struck, StruckTicket
  <2>2. {c \in Spread' : c.id = t} \subseteq {c \in Spread : c.id = t}
    OBVIOUS
  <2>3. IsFiniteSet({c \in Spread : c.id = t})
    BY <1>1, FS_Subset
  <2> QED
    BY <2>1, <2>2, <2>3, DecidedStruck, CountedKept
<1>3. ASSUME NEW e \in Engineers
      PROVE  Cardinality({c \in Spread' : c.eng = e}) <= Cardinality(StruckEngineer(e)')
  <2>1. Cardinality({c \in Spread : c.eng = e}) <= Cardinality(StruckEngineer(e))
    BY DEF Struck, StruckEngineer
  <2>2. {c \in Spread' : c.eng = e} \subseteq {c \in Spread : c.eng = e}
    OBVIOUS
  <2>3. IsFiniteSet({c \in Spread : c.eng = e})
    BY <1>1, FS_Subset
  <2> QED
    BY <2>1, <2>2, <2>3, DecidedStruck, CountedKept
<1> QED
  BY <1>1, <1>2, <1>3 DEF Struck, StruckTicket, StruckEngineer

LEMMA StruckOne ==
    ASSUME Struck, Decided, NEW x, Spread' \subseteq Spread \cup {x},
           NEW j, j \in StruckTicket(x.id)' \ StruckTicket(x.id),
           j \in StruckEngineer(x.eng)' \ StruckEngineer(x.eng)
    PROVE  Struck'
<1>1. IsFiniteSet(Spread) /\ IsFiniteSet(Spread')
  <2>1. IsFiniteSet(Spread \cup {x})
    BY OneMore DEF Struck
  <2> QED
    BY <2>1, NotMore DEF Struck
<1>2. ASSUME NEW t \in TicketIds
      PROVE  Cardinality({c \in Spread' : c.id = t}) <= Cardinality(StruckTicket(t)')
  <2>1. Cardinality({c \in Spread : c.id = t}) <= Cardinality(StruckTicket(t))
    BY DEF Struck, StruckTicket
  <2>2. {c \in Spread' : c.id = t} \subseteq {c \in Spread : c.id = t} \cup {x}
    OBVIOUS
  <2>3. IsFiniteSet({c \in Spread : c.id = t})
    BY <1>1, FS_Subset
  <2>4. CASE t = x.id
    <3>1. j \in StruckTicket(t)' \ StruckTicket(t)
      BY <2>4
    <3> QED
      BY <2>1, <2>2, <2>3, <3>1, DecidedStruck, CountedOne
  <2>5. CASE t # x.id
    <3>1. {c \in Spread' : c.id = t} \subseteq {c \in Spread : c.id = t}
      BY <2>5
    <3> QED
      BY <2>1, <2>3, <3>1, DecidedStruck, CountedKept
  <2> QED
    BY <2>4, <2>5
<1>3. ASSUME NEW e \in Engineers
      PROVE  Cardinality({c \in Spread' : c.eng = e}) <= Cardinality(StruckEngineer(e)')
  <2>1. Cardinality({c \in Spread : c.eng = e}) <= Cardinality(StruckEngineer(e))
    BY DEF Struck, StruckEngineer
  <2>2. {c \in Spread' : c.eng = e} \subseteq {c \in Spread : c.eng = e} \cup {x}
    OBVIOUS
  <2>3. IsFiniteSet({c \in Spread : c.eng = e})
    BY <1>1, FS_Subset
  <2>4. CASE e = x.eng
    <3>1. j \in StruckEngineer(e)' \ StruckEngineer(e)
      BY <2>4
    <3> QED
      BY <2>1, <2>2, <2>3, <3>1, DecidedStruck, CountedOne
  <2>5. CASE e # x.eng
    <3>1. {c \in Spread' : c.eng = e} \subseteq {c \in Spread : c.eng = e}
      BY <2>5
    <3> QED
      BY <2>1, <2>3, <3>1, DecidedStruck, CountedKept
  <2> QED
    BY <2>4, <2>5
<1> QED
  BY <1>1, <1>2, <1>3 DEF Struck, StruckTicket, StruckEngineer

\* Each row that a step writes is there, was on its way, or is in S.
LEMMA SpreadWithin ==
    ASSUME NEW S,
           \A n \in Nodes : \A r \in tickets'[n] :
             \/ \E s \in tickets[n] : s.id = r.id /\ s.eng = r.eng
             \/ [at |-> n, id |-> r.id, eng |-> r.eng] \in Spread \cup S,
           \A q \in Reassigns' :
             q \in Reassigns \/ [at |-> q.to, id |-> q.row.id, eng |-> q.row.eng] \in S
    PROVE  Spread' \subseteq Spread \cup S
<1>1. ASSUME NEW c \in Copies' PROVE c \in Spread \cup S
  <2>0. PICK n \in Nodes : \E r \in tickets'[n] :
          /\ \A i \in InitTickets[n] : i.id # r.id
          /\ c = [at |-> n, id |-> r.id, eng |-> r.eng]
    BY DEF Copies
  <2>1. PICK r \in tickets'[n] : /\ \A i \in InitTickets[n] : i.id # r.id
                                /\ c = [at |-> n, id |-> r.id, eng |-> r.eng]
    BY <2>0
  <2>2. ASSUME NEW s \in tickets[n], s.id = r.id, s.eng = r.eng PROVE c \in Copies
    BY <2>1, <2>2 DEF Copies
  <2> QED
    BY <2>1, <2>2 DEF Spread
<1>2. ASSUME NEW q \in Reassigns'
      PROVE  [at |-> q.to, id |-> q.row.id, eng |-> q.row.eng] \in Spread \cup S
  BY DEF Spread, Reassigns
<1> QED
  BY <1>1, <1>2 DEF Spread, Reassigns

LEMMA SpreadFrame ==
    ASSUME tickets' = tickets, Reassigns' \subseteq Reassigns
    PROVE  Spread' \subseteq Spread
<1>1. Spread' \subseteq Spread \cup {}
  BY SpreadWithin
<1> QED
  BY <1>1

LEMMA CloseSpread ==
    ASSUME TypeOK, NEW n \in Nodes, NEW row, CloseAt(n, row), Reassigns' \subseteq Reassigns
    PROVE  Spread' \subseteq Spread
<1>1. ASSUME NEW m \in Nodes, NEW r \in tickets'[m]
      PROVE  \E s \in tickets[m] : s.id = r.id /\ s.eng = r.eng
  <2>1. tickets'[m] = IF m = n
          THEN {IF s.id = row.id THEN [s EXCEPT !.open = FALSE] ELSE s : s \in tickets[n]}
          ELSE tickets[m]
    BY DEF CloseAt, TypeOK
  <2>2. PICK s \in tickets[m] : r = s \/ r = [s EXCEPT !.open = FALSE]
    BY <2>1
  <2>3. s \in TicketRows
    BY DEF TypeOK
  <2> QED
    BY <2>2, <2>3 DEF TicketRows
<1>2. Spread' \subseteq Spread \cup {}
  BY <1>1, SpreadWithin
<1> QED
  BY <1>2

LEMMA InsertSpread ==
    ASSUME TypeOK, NEW n \in Nodes, NEW row \in TicketRows, tickets' = Insert(tickets, n, row),
           NEW m \in Nodes, NEW r \in tickets'[m]
    PROVE  r \in tickets[m] \/ (m = n /\ r = row)
<1>1. tickets \in [Nodes -> SUBSET TicketRows]
  BY DEF TypeOK
<1>2. \A k \in Nodes : /\ k # n => Insert(tickets, n, row)[k] = tickets[k]
                       /\ Insert(tickets, n, row)[k] \subseteq tickets[k] \cup {row}
  BY <1>1 DEF Insert
<1> QED
  BY <1>2

\* A redistribution gives one ticket to one engineer, or is over.
LEMMA RedistributeStruck ==
    ASSUME TypeOK, Struck, NEW j \in Jobs, RedistributeTickets(j)
    PROVE  Struck'
<1>1. /\ pc[j] = "second" /\ ask[j] = {} /\ task[j] # Device /\ UNCHANGED <<task, ask>>
      /\ j \in Deciding
  BY DEF RedistributeTickets, Deciding, Redistributing
<1>2. CASE engs[j] = {} \/ rows[j] = {}
  <2>1. pc' = [pc EXCEPT ![j] = "done"] /\ UNCHANGED <<engs, rows, tickets, msgs>>
    BY <1>2 DEF RedistributeTickets
  <2>2. \A i \in Jobs : pc'[i] = pc[i] \/ pc'[i] = "done"
    BY <2>1 DEF TypeOK
  <2>3. Decided
    BY <1>1, <2>1, <2>2 DEF Decided, Deciding, Redistributing
  <2>4. Spread' \subseteq Spread
    BY <2>1, SpreadFrame DEF Reassigns
  <2> QED
    BY <2>3, <2>4, StruckKept
<1>3. CASE ~(engs[j] = {} \/ rows[j] = {})
  <2>0. PICK t \in rows[j], e \in engs[j] :
          LET row == [id |-> t, eng |-> e, open |-> TRUE] IN
          /\ rows' = [rows EXCEPT ![j] = @ \ {t}]
          /\ UseEngineer(j, e)
          /\ \/ Spend("quorum") /\ UNCHANGED <<tickets, msgs>>
             \/ /\ tickets' = IF Home[e] = at[j] THEN Insert(tickets, at[j], row) ELSE tickets
                /\ msgs' = msgs \cup
                     {[type |-> "REASSIGN_TICKET", to |-> n, row |-> row] :
                      n \in ({Home[e]} \cap alive[at[j]] \cap up) \ {at[j]}}
                /\ UNCHANGED budget
          /\ UNCHANGED pc
    BY <1>3 DEF RedistributeTickets
  <2> DEFINE row == [id |-> t, eng |-> e, open |-> TRUE]
  <2>1. /\ rows' = [rows EXCEPT ![j] = @ \ {t}]
        /\ UseEngineer(j, e) /\ UNCHANGED pc
        /\ \/ UNCHANGED <<tickets, msgs>>
           \/ /\ tickets' = IF Home[e] = at[j] THEN Insert(tickets, at[j], row) ELSE tickets
              /\ msgs' = msgs \cup
                   {[type |-> "REASSIGN_TICKET", to |-> n, row |-> row] :
                    n \in ({Home[e]} \cap alive[at[j]] \cap up) \ {at[j]}}
    BY <2>0
  <2>2. t \in TicketIds /\ e \in Engineers /\ at[j] \in Nodes /\ row \in TicketRows
        /\ row.id = t /\ row.eng = e
    BY <2>1 DEF TypeOK, TicketRows
  <2>3. /\ \A i \in Jobs : rows'[i] \subseteq rows[i] /\ engs'[i] \subseteq engs[i]
        /\ t \notin rows'[j] /\ e \notin engs'[j]
    BY <2>1 DEF TypeOK, UseEngineer
  <2>4. Deciding' = Deciding /\ Deciding \subseteq Jobs
    BY <1>1, <2>1 DEF Deciding, Redistributing
  <2>5. Decided
    BY <1>1, <2>3, <2>4 DEF Decided
  <2> DEFINE x == [at |-> Home[e], id |-> t, eng |-> e]
  <2>6. /\ j \in StruckTicket(x.id)' \ StruckTicket(x.id)
        /\ j \in StruckEngineer(x.eng)' \ StruckEngineer(x.eng)
    BY <1>1, <2>1, <2>3, <2>4 DEF StruckTicket, StruckEngineer
  <2>7. CASE UNCHANGED <<tickets, msgs>>
    <3>1. Spread' \subseteq Spread
      BY <2>7, SpreadFrame DEF Reassigns
    <3> QED
      BY <2>5, <3>1, StruckKept
  <2>8. CASE /\ tickets' = IF Home[e] = at[j] THEN Insert(tickets, at[j], row) ELSE tickets
             /\ msgs' = msgs \cup
                  {[type |-> "REASSIGN_TICKET", to |-> n, row |-> row] :
                   n \in ({Home[e]} \cap alive[at[j]] \cap up) \ {at[j]}}
    <3>1. ASSUME NEW n \in Nodes, NEW r \in tickets'[n]
          PROVE  r \in tickets[n] \/ [at |-> n, id |-> r.id, eng |-> r.eng] = x
      <4>1. CASE tickets' = tickets
        BY <4>1
      <4>2. CASE Home[e] = at[j] /\ tickets' = Insert(tickets, at[j], row)
        <5>1. r \in tickets[n] \/ (n = at[j] /\ r = row)
          BY <2>2, <4>2, InsertSpread
        <5> QED
          BY <2>2, <4>2, <5>1
      <4> QED
        BY <2>8, <4>1, <4>2
    <3>2. ASSUME NEW q \in Reassigns'
          PROVE  q \in Reassigns \/ [at |-> q.to, id |-> q.row.id, eng |-> q.row.eng] = x
      <4>1. \/ q \in msgs
            \/ q = [type |-> "REASSIGN_TICKET", to |-> Home[e], row |-> row]
        BY <2>8 DEF Reassigns
      <4> QED
        BY <2>2, <4>1 DEF Reassigns
    <3>3. Spread' \subseteq Spread \cup {x}
      BY <3>1, <3>2, SpreadWithin
    <3> QED
      BY <2>5, <2>6, <3>3, StruckOne
  <2> QED
    BY <2>1, <2>7, <2>8
<1> QED
  BY <1>2, <1>3

LEMMA CommitStruck ==
    ASSUME TypeOK, Asked, Struck, NEW q \in msgs, HandleCommit(q)
    PROVE  Struck'
<1>1. UNCHANGED <<task, ask, engs, rows>>
  BY DEF HandleCommit
<1>2. Decided
  <2>1. \A i \in Deciding : pc'[i] = pc[i]
    <3>1. CASE q.type = "INSERT_DISPOSITIVO"
      <4>1. q \in Inserts /\ pc' = [pc EXCEPT ![q.job] = "stored"]
        BY <3>1 DEF HandleCommit, Inserts
      <4>2. task[q.job] = Device
        BY <4>1 DEF Asked
      <4> QED
        BY <4>1, <4>2 DEF TypeOK, Deciding, Redistributing
    <3>2. CASE q.type # "INSERT_DISPOSITIVO"
      BY <3>2 DEF HandleCommit
    <3> QED
      BY <3>1, <3>2
  <2> QED
    BY <1>1, <2>1 DEF Decided, Deciding, Redistributing
<1>3. CASE q.type = "INSERT_DISPOSITIVO"
  <2>1. tickets' = tickets /\ Reassigns' \subseteq Reassigns
    BY <1>3 DEF HandleCommit, Reassigns
  <2> QED
    BY <1>2, <2>1, SpreadFrame, StruckKept
<1>4. CASE q.type = "REASSIGN_TICKET"
  <2>1. /\ tickets' = Insert(tickets, q.to, q.row) /\ Reassigns' \subseteq Reassigns
        /\ q.to \in Nodes /\ q.row \in TicketRows
    BY <1>4 DEF HandleCommit, Reassigns, TypeOK, Messages
  <2>2. [at |-> q.to, id |-> q.row.id, eng |-> q.row.eng] \in Spread
    BY <1>4 DEF Spread
  <2>3. ASSUME NEW n \in Nodes, NEW r \in tickets'[n]
        PROVE  r \in tickets[n] \/ [at |-> n, id |-> r.id, eng |-> r.eng] \in Spread
    BY <2>1, <2>2, InsertSpread
  <2>4. Spread' \subseteq Spread \cup {}
    BY <2>1, <2>3, SpreadWithin
  <2> QED
    BY <1>2, <2>4, StruckKept
<1>5. CASE q.type = "CLOSE_TICKET"
  <2>1. /\ CloseAt(q.to, q.row) /\ Reassigns' \subseteq Reassigns /\ q.to \in Nodes
    BY <1>5 DEF HandleCommit, Reassigns, TypeOK, Messages
  <2> QED
    BY <1>2, <2>1, CloseSpread, StruckKept
<1> QED
  BY <1>3, <1>4, <1>5 DEF HandleCommit

LEMMA DecidedFrame ==
    ASSUME \A i \in Deciding :
             /\ task'[i] = task[i] /\ pc'[i] \in {pc[i], "done"} /\ rows'[i] = rows[i]
             /\ ask[i] = {} => ask'[i] = {} /\ engs'[i] = engs[i]
    PROVE  Decided
BY DEF Decided, Deciding, Redistributing

LEMMA StruckStep ==
    ASSUME TypeOK, Asked, Struck, [Next]_vars
    PROVE  Struck'
<1>1. ASSUME NEW n \in Nodes, NEW x, Request(n, x), tickets' = tickets PROVE Struck'
  <2>1. PICK j \in Jobs : pc[j] = "idle" /\ (Starts(j, n, x) \/ Asks(j, x))
    BY <1>1, RequestEffect
  <2>2. j \notin Deciding /\ Deciding \subseteq Jobs
    BY <2>1 DEF Deciding, Redistributing
  <2>3. Decided
    <3>1. CASE Starts(j, n, x)
      BY <2>2, <3>1, StartsFrame, DecidedFrame
    <3>2. CASE Asks(j, x)
      <4>1. UNCHANGED <<ask, engs, rows>>
        BY <3>2 DEF Asks
      <4> QED
        BY <2>2, <3>2, <4>1, AsksFrame, DecidedFrame
    <3> QED
      BY <2>1, <3>1, <3>2
  <2>4. Reassigns' \subseteq Reassigns
    BY <1>1, RequestEffect
  <2> QED
    BY <1>1, <2>3, <2>4, SpreadFrame, StruckKept
<1>2. ASSUME NEW n \in Nodes, AddDevice(n) \/ \E d \in Nodes : React(n, d) PROVE Struck'
  BY <1>1, <1>2 DEF AddDevice, React, tableVars
<1>3. ASSUME NEW q \in msgs, HandleRequest(q) PROVE Struck'
  <2>1. tickets' = tickets /\ Reassigns' \subseteq Reassigns
    BY <1>3, HandleRequestEffect DEF HandleRequest, tableVars
  <2>2. Decided
    <3>1. CASE UNCHANGED jobVars
      BY <3>1, DecidedFrame DEF jobVars
    <3>2. CASE Starts(q.job, q.to, task[q.job]) /\ q.job \in Jobs
      <4>1. q.job \notin Deciding /\ Deciding \subseteq Jobs
        BY <3>2, StartsFrame DEF Deciding, Redistributing
      <4> QED
        BY <3>2, <4>1, StartsFrame, DecidedFrame
    <3> QED
      BY <1>3, <3>1, <3>2, HandleRequestEffect
  <2> QED
    BY <2>1, <2>2, SpreadFrame, StruckKept
<1>4. ASSUME NEW j \in Jobs, NEW n \in Nodes, HandleQuery(j, n) PROVE Struck'
  <2>1. /\ UNCHANGED <<task, pc, tickets, msgs>> /\ pc[j] \in {"first", "second"} /\ ask[j] # {}
        /\ \A i \in Jobs : i # j => /\ ask'[i] = ask[i] /\ engs'[i] = engs[i]
                                    /\ rows'[i] = rows[i]
    BY <1>4 DEF HandleQuery, TypeOK, tableVars
  <2>2. j \in Deciding => rows'[j] = rows[j]
    <3>1. j \in Deciding => Table(j) # "TICKETS"
      BY <2>1 DEF Deciding, Redistributing, Table
    <3> QED
      BY <1>4, <3>1 DEF HandleQuery, TypeOK
  <2>3. Decided
    BY <2>1, <2>2, DecidedFrame DEF Deciding, Redistributing
  <2>4. Spread' \subseteq Spread
    BY <2>1, SpreadFrame DEF Reassigns
  <2> QED
    BY <2>3, <2>4, StruckKept
<1>5. ASSUME NEW j \in Jobs, QueryTimeout(j) \/ SecondList(j) PROVE Struck'
  <2>1. /\ UNCHANGED <<task, engs, rows, tickets, msgs>>
        /\ \A i \in Jobs : i # j => ask'[i] = ask[i] /\ pc'[i] = pc[i]
        /\ pc[j] = "first" \/ (pc'[j] = pc[j] /\ ask'[j] = {})
    BY <1>5 DEF QueryTimeout, SecondList, ListAll, TypeOK, tableVars
  <2>2. Decided
    BY <2>1, DecidedFrame DEF Deciding, Redistributing
  <2>3. Spread' \subseteq Spread
    BY <2>1, SpreadFrame DEF Reassigns
  <2> QED
    BY <2>2, <2>3, StruckKept
<1>6. ASSUME NEW j \in Jobs, distributeDevice(j) PROVE Struck'
  <2>1. UNCHANGED <<task, ask, engs, rows, tickets>> /\ task[j] = Device
    BY <1>6 DEF distributeDevice
  <2>2. /\ \A i \in Jobs : i # j => pc'[i] = pc[i]
        /\ Reassigns' \subseteq Reassigns
    <3>1. \E s : pc' = [pc EXCEPT ![j] = s]
      BY <1>6, DistributeEffect
    <3>2. \A q \in msgs' : q \in msgs \/ q.type = "INSERT_DISPOSITIVO"
      BY <1>6, DistributeEffect
    <3> QED
      BY <3>1, <3>2 DEF Reassigns, TypeOK
  <2>3. Decided
    BY <2>1, <2>2, DecidedFrame DEF Deciding, Redistributing
  <2> QED
    BY <2>1, <2>2, <2>3, SpreadFrame, StruckKept
<1>7. ASSUME NEW n \in Nodes, CloseTicket(n) PROVE Struck'
  <2>1. UNCHANGED jobVars /\ Reassigns' \subseteq Reassigns /\ \E row : CloseAt(n, row)
    BY <1>7, CloseEffect DEF CloseTicket
  <2>2. Decided
    BY <2>1, DecidedFrame DEF jobVars
  <2> QED
    BY <2>1, <2>2, CloseSpread, StruckKept
<1>8. ASSUME NEW n \in Nodes, Crash(n) PROVE Struck'
  <2>1. UNCHANGED <<task, ask, engs, rows, tickets>> /\ Reassigns' \subseteq Reassigns
    BY <1>8, CrashAsked DEF Crash, tableVars
  <2>2. \A i \in Jobs : pc'[i] \in {pc[i], "done"}
    BY <1>8 DEF Crash
  <2>3. Decided
    BY <2>1, <2>2, DecidedFrame DEF Deciding, Redistributing
  <2> QED
    BY <2>1, <2>3, SpreadFrame, StruckKept
<1>9. ASSUME UNCHANGED <<task, pc, ask, engs, rows, tickets, msgs>> PROVE Struck'
  <2>1. Decided
    BY <1>9, DecidedFrame
  <2>2. Spread' \subseteq Spread
    BY <1>9, SpreadFrame DEF Reassigns
  <2> QED
    BY <2>1, <2>2, StruckKept
<1>10. ASSUME NEW n \in Nodes, NEW d \in Nodes,
              declareDead(n, d) \/ MarkAlive(n, d) \/ SetMasterID(n) \/ UNCHANGED vars
       PROVE  UNCHANGED <<task, pc, ask, engs, rows, tickets, msgs>>
  BY <1>10 DEF declareDead, MarkAlive, SetMasterID, vars, jobVars, tableVars
<1> QED
  BY <1>2, <1>3, <1>4, <1>5, <1>6, <1>7, <1>8, <1>9, <1>10, RedistributeStruck, CommitStruck,
     NodesAssumption DEF Next

-----------------------------------------------------------------------------
(* The theorems.                                                           *)

LEMMA InitIInv == Init => IInv
<1> SUFFICES ASSUME Init PROVE IInv
  OBVIOUS
<1>1. TypeOK
  BY InitTypes
<1>2. Requests = {} /\ Inserts = {}
  BY DEF Init, Requests, Inserts
<1>3. \A j \in Jobs : pc[j] = "idle" /\ task[j] = Device
  BY DEF Init
<1>4. AllDevices = {} /\ Stored = {} /\ Redistributing = {} /\ Placing = {}
  BY <1>3 DEF Init, AllDevices, Stored, Redistributing, Placing
<1>5. IsFiniteSet({}) /\ Cardinality({}) = 0
  BY FS_EmptySet
<1>6. Asked
  BY <1>2, <1>3 DEF Asked
<1>7. Numbered
  BY <1>2, <1>4, <1>5 DEF Numbered
<1>8. Listed
  BY <1>2, <1>3 DEF Listed
<1>9. Even
  <2>1. ASSUME NEW e \in Engineers, NEW f \in Engineers, NEW v \in Nat
        PROVE  Load(e) + Cardinality(Low(e, v)) <= v + peak
    <3>1. DevicesOf(e) = {}
      BY HomeAssumption DEF Init, DevicesOf
    <3>2. Low(e, v) = {}
      BY <1>4 DEF Low
    <3>3. Load(e) = 0 /\ Cardinality(Low(e, v)) = 0
      BY <1>5, <3>1, <3>2 DEF Load
    <3> QED
      BY <3>3 DEF Init
  <2>2. Cardinality(Placing) <= peak
    BY <1>4, <1>5 DEF Init
  <2> QED
    BY <2>1, <2>2 DEF Even
<1>10. Notices
  <2>1. IsFiniteSet(reacting) /\ Cardinality(reacting) = 0 /\ declared = 0
    BY <1>5 DEF Init
  <2>2. Cardinality(Redistributing) = 0
    BY <1>4, <1>5
  <2> QED
    BY <2>1, <2>2 DEF Notices
<1>11. Struck
  <2>1. Copies = {}
    <3> SUFFICES ASSUME NEW c \in Copies PROVE FALSE
      OBVIOUS
    <3>1. PICK n \in Nodes : \E r \in tickets[n] : \A i \in InitTickets[n] : i.id # r.id
      BY DEF Copies
    <3> QED
      BY <3>1 DEF Init
  <2>2. Spread = {}
    BY <2>1 DEF Spread, Init
  <2>3. Deciding = {}
    BY <1>4 DEF Deciding
  <2>4. ASSUME NEW t PROVE Cardinality({c \in Spread : c.id = t})
                             <= Cardinality({j \in Deciding : t \notin rows[j]})
    <3>1. {c \in Spread : c.id = t} = {} /\ {j \in Deciding : t \notin rows[j]} = {}
      BY <2>2, <2>3
    <3> QED
      BY <1>5, <3>1
  <2>5. ASSUME NEW e PROVE Cardinality({c \in Spread : c.eng = e})
                             <= Cardinality({j \in Deciding : ask[j] = {} /\ e \notin engs[j]})
    <3> DEFINE C == {c \in Spread : c.eng = e}
               D == {j \in Deciding : ask[j] = {} /\ e \notin engs[j]}
    <3>1. C = {} /\ D = {}
      BY <2>2, <2>3
    <3> HIDE DEF C, D
    <3>2. Cardinality(C) = 0 /\ Cardinality(D) = 0
      BY <1>5, <3>1
    <3>3. Cardinality(C) <= Cardinality(D)
      BY <3>2
    <3> QED
      BY <3>3 DEF C, D
  <2> QED
    BY <1>5, <2>2, <2>4, <2>5 DEF Struck
<1> QED
  BY <1>1, <1>6, <1>7, <1>8, <1>9, <1>10, <1>11 DEF IInv

LEMMA NextIInv == IInv /\ [Next]_vars => IInv'
<1> SUFFICES ASSUME IInv, [Next]_vars PROVE IInv'
  OBVIOUS
<1>1. TypeOK /\ Asked /\ Numbered /\ Listed /\ Even /\ Notices /\ Struck
  BY DEF IInv
<1>2. TypeOK'
  BY <1>1, TypeStep DEF Numbered
<1>3. Asked' /\ Numbered'
  BY <1>1, AskedStep, NumberedStep
<1>4. Listed' /\ Even'
  BY <1>1, <1>3, ListedStep, EvenStep
<1>5. Notices' /\ Struck'
  BY <1>1, NoticesStep, StruckStep
<1> QED
  BY <1>2, <1>3, <1>4, <1>5 DEF IInv

\* The invariant holds in every state, for any nodes, engineers, tickets, jobs and
\* scenarios.
THEOREM Invariance == Spec => []IInv
<1>1. Init => IInv
  BY InitIInv
<1>2. IInv /\ [Next]_vars => IInv'
  BY NextIInv
<1> QED
  BY <1>1, <1>2, PTL DEF Spec

\* The rows, lists and messages of the master's two jobs stay what they are
\* declared to be, whatever overlaps.
THEOREM TypeCorrectness == Spec => []TypeOK
<1>1. IInv => TypeOK
  BY DEF IInv
<1> QED
  BY <1>1, Invariance, PTL

\* distributeDevice keeps the engineers level: none is ahead of another by more
\* devices than were being placed at one time, as long as every list was complete.
THEOREM DevicesAreSpread == Spec => []FairDistribution
<1>1. IInv => FairDistribution
  <2> SUFFICES ASSUME TypeOK, Numbered, Even, complete, NEW e \in Engineers, NEW f \in Engineers
               PROVE  Load(e) <= Load(f) + peak
    BY DEF IInv, FairDistribution, Load
  <2>1. Load(e) \in Nat /\ Load(f) \in Nat
    <3>1. DevicesOf(e) \subseteq AllDevices /\ DevicesOf(f) \subseteq AllDevices
      BY HomeAssumption DEF DevicesOf, AllDevices
    <3> QED
      BY <3>1, NotMore DEF Numbered, Load
  <2>2. Load(e) + Cardinality(Low(e, Load(f))) <= Load(f) + peak
    BY <2>1 DEF Even
  <2>3. Cardinality(Low(e, Load(f))) \in Nat
    BY LowTypes
  <2> QED
    BY <2>1, <2>2, <2>3 DEF TypeOK
<1> QED
  BY <1>1, Invariance, PTL

\* Every device whose INSERT was run is in a table, as long as one node drew all
\* the numbers of those that were proposed with success.
THEOREM DevicesAreKept == Spec => []NoDeviceIsDropped
<1>1. IInv => NoDeviceIsDropped
  <2> SUFFICES ASSUME TypeOK, Numbered, Cardinality(Drawers) <= 1
               PROVE  Cardinality(AllDevices) = Cardinality(Stored)
    BY DEF IInv, NoDeviceIsDropped, AllDevices, Stored
  <2> DEFINE S == {j \in Jobs : task[j] = Device /\ pc[j] \in {"sent", "stored"}}
             f == [j \in S |-> at[j]]
  <2>1. IsFiniteSet(S) /\ Drawers \subseteq Nodes /\ \A j \in Stored : at[j] \in Drawers
    BY JobsAssumption, FS_Subset DEF TypeOK, Drawers, Stored
  <2>2. IsFiniteSet(Drawers)
    <3>1. f \in Surjection(S, Drawers)
      BY DEF Surjection, Drawers
    <3> QED
      BY <2>1, <3>1, FS_Surjection
  <2>3. \A a, b \in Drawers : a = b
    <3> SUFFICES ASSUME NEW a \in Drawers, NEW b \in Drawers, a # b PROVE FALSE
      OBVIOUS
    <3>1. IsFiniteSet({a}) /\ Cardinality({a}) = 1
      BY FS_Singleton
    <3>2. /\ IsFiniteSet({a} \cup {b})
          /\ Cardinality({a} \cup {b}) =
               IF b \in {a} THEN Cardinality({a}) ELSE Cardinality({a}) + 1
      BY <3>1, OneMore
    <3>3. Cardinality({a} \cup {b}) = 2
      BY <3>1, <3>2
    <3>4. {a} \cup {b} \subseteq Drawers
      OBVIOUS
    <3>5. Cardinality({a} \cup {b}) <= Cardinality(Drawers) /\ Cardinality(Drawers) \in Nat
      BY <2>2, <3>4, NotMore
    <3> QED
      BY <3>3, <3>5
  <2>4. \E n \in Nodes : \A j \in Stored : at[j] = n
    BY <2>1, <2>3, NodesAssumption
  <2> QED
    BY <2>4 DEF Numbered
<1> QED
  BY <1>1, Invariance, PTL

\* A ticket has no more copies, and an engineer is given no more of them, than
\* deaths were declared.
THEOREM CopiesNeedNotices == Spec => []CopiesAreNoticed
<1>1. IInv => CopiesAreNoticed
  <2> SUFFICES ASSUME TypeOK, Notices, Struck PROVE CopiesAreNoticed
    BY DEF IInv
  <2>1. \A D : D \subseteq Deciding =>
          Cardinality(D) \in Nat /\ Cardinality(D) <= declared
    <3> SUFFICES ASSUME NEW D, D \subseteq Deciding
                 PROVE  Cardinality(D) \in Nat /\ Cardinality(D) <= declared
      OBVIOUS
    <3>1. D \subseteq Redistributing /\ Redistributing \subseteq Jobs
      BY DEF Deciding, Redistributing
    <3>2. IsFiniteSet(Redistributing)
      BY <3>1, JobsAssumption, NotMore
    <3>3. /\ Cardinality(D) \in Nat /\ Cardinality(Redistributing) \in Nat
          /\ Cardinality(D) <= Cardinality(Redistributing)
      BY <3>1, <3>2, NotMore
    <3>4. Cardinality(reacting) \in Nat
      BY FS_CardinalityType DEF Notices
    <3>5. Cardinality(Redistributing) + Cardinality(reacting) <= declared
      BY DEF Notices
    <3> QED
      BY <3>3, <3>4, <3>5 DEF TypeOK
  <2>2. \A C : C \subseteq Spread => Cardinality(C) \in Nat /\ IsFiniteSet(C)
    BY NotMore DEF Struck
  <2>3. Copies \subseteq Spread
    BY DEF Spread
  <2>4. ASSUME NEW t \in TicketIds
        PROVE  Cardinality({c \in Copies : c.id = t}) <= declared
    <3> DEFINE D == {j \in Deciding : t \notin rows[j]}
               C == {c \in Spread : c.id = t}
    <3>1. Cardinality(C) <= Cardinality(D)
      BY DEF Struck
    <3>2. Cardinality(D) \in Nat /\ Cardinality(D) <= declared
      BY <2>1
    <3>3. Cardinality(C) \in Nat /\ IsFiniteSet(C)
      BY <2>2
    <3>4. {c \in Copies : c.id = t} \subseteq C
      BY <2>3
    <3>5. /\ Cardinality({c \in Copies : c.id = t}) <= Cardinality(C)
          /\ Cardinality({c \in Copies : c.id = t}) \in Nat
      BY <3>3, <3>4, NotMore
    <3> HIDE DEF C, D
    <3> QED
      BY <3>1, <3>2, <3>3, <3>5 DEF TypeOK
  <2>5. ASSUME NEW e \in Engineers
        PROVE  Cardinality({c \in Copies : c.eng = e}) <= declared
    <3> DEFINE D == {j \in Deciding : ask[j] = {} /\ e \notin engs[j]}
               C == {c \in Spread : c.eng = e}
    <3>1. Cardinality(C) <= Cardinality(D)
      BY DEF Struck
    <3>2. Cardinality(D) \in Nat /\ Cardinality(D) <= declared
      BY <2>1
    <3>3. Cardinality(C) \in Nat /\ IsFiniteSet(C)
      BY <2>2
    <3>4. {c \in Copies : c.eng = e} \subseteq C
      BY <2>3
    <3>5. /\ Cardinality({c \in Copies : c.eng = e}) <= Cardinality(C)
          /\ Cardinality({c \in Copies : c.eng = e}) \in Nat
      BY <3>3, <3>4, NotMore
    <3> HIDE DEF C, D
    <3> QED
      BY <3>1, <3>2, <3>3, <3>5 DEF TypeOK
  <2> QED
    BY <2>4, <2>5 DEF CopiesAreNoticed
<1> QED
  BY <1>1, Invariance, PTL

\* A row that is closed stays as it is, whatever a step writes to the table.
LEMMA ClosedStep ==
    ASSUME TypeOK, [Next]_vars, NEW n \in Nodes, NEW r \in tickets[n], ~r.open
    PROVE  r \in tickets'[n]
<1>1. r \in TicketRows /\ tickets \in [Nodes -> SUBSET TicketRows]
  BY DEF TypeOK
<1>2. ASSUME NEW m \in Nodes, NEW row, CloseAt(m, row) PROVE r \in tickets'[n]
  <2>1. tickets'[n] = IF n = m
          THEN {IF s.id = row.id THEN [s EXCEPT !.open = FALSE] ELSE s : s \in tickets[n]}
          ELSE tickets[n]
    BY <1>1, <1>2 DEF CloseAt
  <2>2. [r EXCEPT !.open = FALSE] = r
    BY <1>1 DEF TicketRows
  <2>3. (IF r.id = row.id THEN [r EXCEPT !.open = FALSE] ELSE r) = r
    BY <2>2
  <2>4. r \in {IF s.id = row.id THEN [s EXCEPT !.open = FALSE] ELSE s : s \in tickets[n]}
    BY <2>3
  <2> QED
    BY <2>1, <2>4
<1>3. ASSUME NEW m \in Nodes, NEW row \in TicketRows, tickets' = Insert(tickets, m, row)
      PROVE  r \in tickets'[n]
  <2>1. tickets[n] \subseteq Insert(tickets, m, row)[n]
    BY <1>1 DEF Insert
  <2> QED
    BY <1>3, <2>1
<1>4. ASSUME NEW j \in Jobs, RedistributeTickets(j) PROVE r \in tickets'[n]
  <2>1. CASE engs[j] = {} \/ rows[j] = {}
    BY <1>4, <2>1 DEF RedistributeTickets
  <2>2. CASE ~(engs[j] = {} \/ rows[j] = {})
    <3>1. PICK t \in rows[j], e \in engs[j] :
            \/ UNCHANGED tickets
            \/ tickets' = IF Home[e] = at[j]
                          THEN Insert(tickets, at[j], [id |-> t, eng |-> e, open |-> TRUE])
                          ELSE tickets
      BY <1>4, <2>2 DEF RedistributeTickets
    <3>2. [id |-> t, eng |-> e, open |-> TRUE] \in TicketRows /\ at[j] \in Nodes
      BY DEF TypeOK, TicketRows
    <3>3. \/ UNCHANGED tickets
          \/ tickets' = Insert(tickets, at[j], [id |-> t, eng |-> e, open |-> TRUE])
      BY <3>1
    <3> QED
      BY <1>3, <3>2, <3>3
  <2> QED
    BY <2>1, <2>2
<1>5. ASSUME NEW q \in msgs, HandleCommit(q) PROVE r \in tickets'[n]
  <2>1. q.to \in Nodes /\ (q.type = "REASSIGN_TICKET" => q.row \in TicketRows)
    BY <1>5 DEF TypeOK, Messages, HandleCommit
  <2>2. \/ UNCHANGED tickets
        \/ q.type = "REASSIGN_TICKET" /\ tickets' = Insert(tickets, q.to, q.row)
        \/ CloseAt(q.to, q.row)
    BY <1>5 DEF HandleCommit
  <2> QED
    BY <1>2, <1>3, <2>1, <2>2
<1>6. ASSUME NEW m \in Nodes, CloseTicket(m) PROVE r \in tickets'[n]
  <2>1. \E row : CloseAt(m, row)
    BY <1>6 DEF CloseTicket
  <2> QED
    BY <1>2, <2>1
<1>7. ASSUME NEW m \in Nodes, NEW d \in Nodes,
             \/ AddDevice(m) \/ SetMasterID(m) \/ Crash(m) \/ declareDead(m, d)
             \/ React(m, d) \/ MarkAlive(m, d) \/ UNCHANGED vars
      PROVE  UNCHANGED tickets
  BY <1>7 DEF AddDevice, SetMasterID, Crash, declareDead, React, MarkAlive, vars, tableVars
<1>8. ASSUME NEW j \in Jobs, NEW m \in Nodes,
             QueryTimeout(j) \/ SecondList(j) \/ distributeDevice(j) \/ HandleQuery(j, m)
      PROVE  UNCHANGED tickets
  BY <1>8 DEF QueryTimeout, SecondList, distributeDevice, HandleQuery, tableVars
<1>9. ASSUME NEW q \in msgs, HandleRequest(q) PROVE UNCHANGED tickets
  BY <1>9 DEF HandleRequest, tableVars
<1> QED
  BY <1>4, <1>5, <1>6, <1>7, <1>8, <1>9, NodesAssumption DEF Next

\* A redistribution that is late opens no row again that was closed since.
THEOREM ClosedRowsStay == Spec => ClosedStaysClosed
<1>1. IInv /\ [Next]_vars
        => [\A n \in Nodes : \A r \in tickets[n] : ~r.open => r \in tickets'[n]]_vars
  BY ClosedStep DEF IInv
<1> QED
  BY <1>1, Invariance, PTL DEF Spec, ClosedStaysClosed
=============================================================================
