---------------------------- MODULE Distribution ----------------------------
(***************************************************************************)
(* The two jobs that the master does without the distributed lock          *)
(* (internal/service/ticket_service.go).  distributeDevice gives a device  *)
(* to the engineer who has the fewest; RedistributeTickets gives the open  *)
(* tickets of a dead sucursal to free engineers elsewhere.  Both are two   *)
(* calls of ListAll, a decision, and proposals; each runs in a goroutine   *)
(* of its own, started by the operator, by declareDead of the heartbeat or *)
(* by a message, so any number of them overlap.  ListAll and Propose enter *)
(* by what Query and Consensus show of them.                               *)
(***************************************************************************)
EXTENDS Naturals, FiniteSets

CONSTANTS
    Nodes,
    InitMaster,  \* cfg.MasterID
    Engineers,   \* the rows of INGENIEROS, of all sucursales
    Home,        \* the sucursal of an engineer
    TicketIds,
    InitTickets, \* TICKETS of each sucursal in the beginning
    Jobs,        \* goroutines that run one of the two jobs
    Device,      \* model value: the task of placing a device
    Scenarios    \* bound: which requests and faults happen, and how often

Kinds == {"device", "close", "suspect", "crash", "master", "late", "quorum"}
TicketRows == [id : TicketIds, eng : Engineers, open : BOOLEAN]

ASSUME JobsAssumption == IsFiniteSet(Jobs)
ASSUME NodesAssumption == InitMaster \in Nodes /\ Device \notin Nodes
ASSUME HomeAssumption == Home \in [Engineers -> Nodes]
ASSUME TicketsAssumption == InitTickets \in [Nodes -> SUBSET TicketRows]
ASSUME BoundsAssumption == Scenarios \subseteq [Kinds -> Nat]

VARIABLES
    up,        \* the nodes that run
    alive,     \* nodestate.alive of each node
    master,    \* nodestate.masterID of each node
    reacting,  \* <<n, d>>: n has marked d dead and not yet looked who is master
    task,      \* what a job is for: a device, or the sucursal that died
    at,        \* the node that runs it
    pc,        \* where it stands
    ask,       \* the nodes whose answer to the present ListAll is missing
    engs,      \* engineers it has listed
    count,     \* devices it has counted for each engineer
    rows,      \* tickets it has still to reassign
    devices,   \* DISPOSITIVOS of each sucursal
    tickets,   \* TICKETS of each sucursal
    free,      \* engineers with disponible = 1
    counter,   \* idCounter of each process
    msgs,      \* messages in the network
    budget,    \* what is left of the scenario
    peak,      \* history: the most devices that were being placed at one time
    complete,  \* history: every list for a device came from all sucursales
    declared   \* history: how many deaths were declared

viewVars == <<up, alive, master, reacting, declared>>
jobVars == <<task, at, pc, ask, engs, count, rows, peak, complete>>
tableVars == <<devices, tickets, free>>
vars == <<viewVars, jobVars, tableVars, counter, msgs, budget>>

Stages == {"idle", "asked", "first", "second", "sent", "stored", "done"}
DeviceRows == [id : Nodes \X Nat, eng : Engineers]

\* INSERT_DISPOSITIVO carries the job it comes from, which the code does not.
Messages ==
    [type : {"ADD_DEVICE", "NODE_DEAD"}, to : Nodes, job : Jobs]
        \cup [type : {"INSERT_DISPOSITIVO"}, to : Nodes, job : Jobs, row : DeviceRows]
        \cup [type : {"REASSIGN_TICKET", "CLOSE_TICKET"}, to : Nodes, row : TicketRows]

TypeOK ==
    /\ up \in SUBSET Nodes
    /\ alive \in [Nodes -> SUBSET Nodes]
    /\ master \in [Nodes -> Nodes]
    /\ reacting \in SUBSET (Nodes \X Nodes)
    /\ task \in [Jobs -> Nodes \cup {Device}]
    /\ at \in [Jobs -> Nodes]
    /\ pc \in [Jobs -> Stages]
    /\ ask \in [Jobs -> SUBSET Nodes]
    /\ engs \in [Jobs -> SUBSET Engineers]
    /\ count \in [Jobs -> [Engineers -> Nat]]
    /\ rows \in [Jobs -> SUBSET TicketIds]
    /\ devices \in [Nodes -> SUBSET DeviceRows]
    /\ tickets \in [Nodes -> SUBSET TicketRows]
    /\ free \in SUBSET Engineers
    /\ counter \in [Nodes -> Nat]
    /\ msgs \in SUBSET Messages
    /\ budget \in [Kinds -> Nat]
    /\ peak \in Nat /\ complete \in BOOLEAN /\ declared \in Nat

Init ==
    /\ up = Nodes
    /\ alive = [n \in Nodes |-> Nodes]
    /\ master = [n \in Nodes |-> InitMaster]
    /\ reacting = {}
    /\ task = [j \in Jobs |-> Device]
    /\ at = [j \in Jobs |-> InitMaster]
    /\ pc = [j \in Jobs |-> "idle"]
    /\ ask = [j \in Jobs |-> {}]
    /\ engs = [j \in Jobs |-> {}]
    /\ count = [j \in Jobs |-> [e \in Engineers |-> 0]]
    /\ rows = [j \in Jobs |-> {}]
    /\ devices = [n \in Nodes |-> {}]
    /\ tickets = InitTickets
    /\ free = {e \in Engineers : \A n \in Nodes : \A r \in tickets[n] : r.eng # e}
    /\ counter = [n \in Nodes |-> 0]
    /\ msgs = {}
    /\ budget \in Scenarios
    /\ peak = 0 /\ complete = TRUE /\ declared = 0

Spend(kind) == budget[kind] > 0 /\ budget' = [budget EXCEPT ![kind] = @ - 1]

-----------------------------------------------------------------------------
(* How a job begins.                                                       *)

Placing == {j \in Jobs : task[j] = Device /\ pc[j] \in {"first", "second", "sent"}}

\* ListAll asks AlivePeers and reads the own rows.
ListAll(j, n, x) ==
    /\ ask' = [ask EXCEPT ![j] = alive[n]]
    /\ complete' = (complete /\ (x = Device => alive[n] = Nodes))

Begin(j, n, x) ==
    /\ task' = [task EXCEPT ![j] = x]
    /\ at' = [at EXCEPT ![j] = n]
    /\ pc' = [pc EXCEPT ![j] = "first"]
    /\ ListAll(j, n, x)
    /\ peak' = IF x = Device /\ Cardinality(Placing) >= peak
               THEN Cardinality(Placing) + 1 ELSE peak
    /\ UNCHANGED <<engs, count, rows>>

\* The master does the job, everybody else sends it to the master.
Request(n, x) == \E j \in Jobs :
    /\ pc[j] = "idle"
    /\ IF master[n] = n
       THEN Begin(j, n, x) /\ UNCHANGED msgs
       ELSE /\ task' = [task EXCEPT ![j] = x]
            /\ pc' = [pc EXCEPT ![j] = "asked"]
            /\ msgs' = msgs \cup
                 {q \in {[type |-> IF x = Device THEN "ADD_DEVICE" ELSE "NODE_DEAD",
                          to |-> master[n], job |-> j]} : q.to \in up}
            /\ UNCHANGED <<at, ask, engs, count, rows, peak, complete>>

AddDevice(n) ==
    /\ n \in up /\ Spend("device")
    /\ Request(n, Device)
    /\ UNCHANGED <<viewVars, tableVars, counter>>

\* HandleAddDevice, and the case of NODE_DEAD in Dispatch: a node that is not
\* the master drops the message.
HandleRequest(q) ==
    /\ q.type \in {"ADD_DEVICE", "NODE_DEAD"}
    /\ msgs' = msgs \ {q}
    /\ IF master[q.to] = q.to
       THEN Begin(q.job, q.to, task[q.job])
       ELSE UNCHANGED jobVars
    /\ UNCHANGED <<viewVars, tableVars, counter, budget>>

-----------------------------------------------------------------------------
(* The two lists.                                                          *)

Table(j) == CASE pc[j] = "first" -> IF task[j] = Device THEN "INGENIEROS" ELSE "TICKETS"
              [] pc[j] = "second" -> IF task[j] = Device THEN "DISPOSITIVOS" ELSE "INGENIEROS"
              [] OTHER -> "none"

DevicesOf(e) == {r \in devices[Home[e]] : r.eng = e}

\* Rows are those of the moment; a redistribution keeps what it can use of them.
HandleQuery(j, n) ==
    /\ pc[j] \in {"first", "second"}
    /\ n \in ask[j] \cap up
    /\ ask' = [ask EXCEPT ![j] = @ \ {n}]
    /\ engs' = [engs EXCEPT ![j] = @ \cup
         {e \in Engineers : /\ Home[e] = n /\ Table(j) = "INGENIEROS"
                            /\ task[j] # Device => e \in free /\ n # task[j]}]
    /\ count' = [count EXCEPT ![j] = [e \in Engineers |->
         IF Home[e] = n /\ Table(j) = "DISPOSITIVOS" THEN Cardinality(DevicesOf(e)) ELSE @[e]]]
    /\ rows' = [rows EXCEPT ![j] = @ \cup
         {t \in TicketIds : /\ Table(j) = "TICKETS" /\ n = task[j]
                            /\ \E r \in tickets[n] : r.id = t /\ r.open}]
    /\ UNCHANGED <<viewVars, tableVars, task, at, pc, peak, complete, counter, msgs, budget>>

\* A peer that is down is not waited for, one that is up may be too late.
QueryTimeout(j) ==
    /\ ask[j] # {}
    /\ IF ask[j] \cap up = {} THEN UNCHANGED budget ELSE Spend("late")
    /\ ask' = [ask EXCEPT ![j] = {}]
    /\ complete' = (complete /\ task[j] # Device)
    /\ UNCHANGED <<viewVars, tableVars, task, at, pc, engs, count, rows, peak, counter, msgs>>

\* Without engineers, or without tickets, the job is over.
SecondList(j) ==
    /\ pc[j] = "first" /\ ask[j] = {}
    /\ IF (IF task[j] = Device THEN engs[j] = {} ELSE rows[j] = {})
       THEN pc' = [pc EXCEPT ![j] = "done"] /\ UNCHANGED <<ask, complete>>
       ELSE pc' = [pc EXCEPT ![j] = "second"] /\ ListAll(j, at[j], task[j])
    /\ UNCHANGED <<viewVars, tableVars, task, at, engs, count, rows, peak, counter, msgs, budget>>

-----------------------------------------------------------------------------
(* The decisions.  A proposal fails, or its COMMIT is run here and sent to *)
(* the peers believed alive; only the sucursal of a row stores it.         *)

\* Mutant: "INSERT OR REPLACE"
InsertOrReplace(table, n, row) ==
    [table EXCEPT ![n] = {r \in @ : r.id # row.id} \cup {row}]

\* "INSERT OR IGNORE"
Insert(table, n, row) ==
    IF \E r \in table[n] : r.id = row.id THEN table
    ELSE [table EXCEPT ![n] = @ \cup {row}]

\* Mutant: two goroutines may draw the same number.
NotAtomic(n) == counter' = counter

\* newID: the number is drawn by the node that decides, and prefixed with the
\* sucursal that will store the row.
newID(n) == counter' = [counter EXCEPT ![n] = @ + 1]

\* Mutant: the comparison is turned round.
Most(j) == {e \in engs[j] : \A f \in engs[j] : count[j][e] >= count[j][f]}

Fewest(j) == {e \in engs[j] : \A f \in engs[j] : count[j][e] <= count[j][f]}

\* Which of several engineers with the fewest devices is left open.
distributeDevice(j) == \E e \in Fewest(j) :
    LET row == [id |-> <<Home[e], counter[at[j]] + 1>>, eng |-> e] IN
    /\ pc[j] = "second" /\ ask[j] = {} /\ task[j] = Device
    /\ newID(at[j])
    /\ \/ /\ Spend("quorum")
          /\ pc' = [pc EXCEPT ![j] = "done"]
          /\ UNCHANGED <<devices, msgs>>
       \/ /\ Home[e] = at[j]
          /\ devices' = Insert(devices, Home[e], row)
          /\ pc' = [pc EXCEPT ![j] = "stored"]
          /\ UNCHANGED <<msgs, budget>>
       \/ /\ Home[e] # at[j]
          /\ IF Home[e] \in alive[at[j]] \cap up
             THEN /\ msgs' = msgs \cup {[type |-> "INSERT_DISPOSITIVO", to |-> Home[e],
                                         job |-> j, row |-> row]}
                  /\ pc' = [pc EXCEPT ![j] = "sent"]
             ELSE pc' = [pc EXCEPT ![j] = "done"] /\ UNCHANGED msgs
          /\ UNCHANGED <<devices, budget>>
    /\ UNCHANGED <<viewVars, tickets, free, task, at, ask, engs, count, rows, peak, complete>>

\* Mutant: the list of free engineers is not shortened.
KeepEngineer(j, e) == engs' = engs

\* "available = available[1:]"
UseEngineer(j, e) == engs' = [engs EXCEPT ![j] = @ \ {e}]

\* One engineer for each ticket; the loop ends when either runs out.
RedistributeTickets(j) ==
    /\ pc[j] = "second" /\ ask[j] = {} /\ task[j] # Device
    /\ IF engs[j] = {} \/ rows[j] = {}
       THEN /\ pc' = [pc EXCEPT ![j] = "done"]
            /\ UNCHANGED <<engs, rows, tickets, msgs, budget>>
       ELSE \E t \in rows[j], e \in engs[j] :
            LET row == [id |-> t, eng |-> e, open |-> TRUE] IN
            /\ rows' = [rows EXCEPT ![j] = @ \ {t}]
            /\ UseEngineer(j, e)
            /\ \/ Spend("quorum") /\ UNCHANGED <<tickets, msgs>>
               \/ /\ tickets' = IF Home[e] = at[j] THEN Insert(tickets, at[j], row) ELSE tickets
                  /\ msgs' = msgs \cup
                       {[type |-> "REASSIGN_TICKET", to |-> n, row |-> row] :
                        n \in ({Home[e]} \cap alive[at[j]] \cap up) \ {at[j]}}
                  /\ UNCHANGED budget
            /\ UNCHANGED pc
    /\ UNCHANGED <<viewVars, devices, free, task, at, ask, count, peak, complete, counter>>

-----------------------------------------------------------------------------
(* CloseTicket and the COMMITs.                                            *)

\* Mutant: the id of the ticket is taken for that of the engineer.
FreeWrongId(n, row) ==
    /\ tickets' = [tickets EXCEPT ![n] =
         {IF r.id = row.id THEN [r EXCEPT !.open = FALSE] ELSE r : r \in @}]
    /\ free' = IF Home[row.eng] = n THEN free \cup {row.id} ELSE free

\* The commit handler closes the row wherever it is and frees one engineer.
CloseAt(n, row) ==
    /\ tickets' = [tickets EXCEPT ![n] =
         {IF r.id = row.id THEN [r EXCEPT !.open = FALSE] ELSE r : r \in @}]
    /\ free' = IF Home[row.eng] = n THEN free \cup {row.eng} ELSE free

\* The operator has seen the row, here or elsewhere.
CloseTicket(n) == \E m \in Nodes : \E r \in tickets[m] :
    /\ n \in up /\ r.open /\ Spend("close")
    /\ CloseAt(n, r)
    /\ msgs' = msgs \cup {[type |-> "CLOSE_TICKET", to |-> p, row |-> r] :
                          p \in (alive[n] \cap up) \ {n}}
    /\ UNCHANGED <<viewVars, jobVars, devices, counter>>

HandleCommit(q) ==
    /\ msgs' = msgs \ {q}
    /\ \/ /\ q.type = "INSERT_DISPOSITIVO"
          /\ devices' = Insert(devices, q.to, q.row)
          /\ pc' = [pc EXCEPT ![q.job] = "stored"]
          /\ UNCHANGED <<tickets, free>>
       \/ /\ q.type = "REASSIGN_TICKET"
          /\ tickets' = Insert(tickets, q.to, q.row)
          /\ UNCHANGED <<devices, free, pc>>
       \/ /\ q.type = "CLOSE_TICKET"
          /\ CloseAt(q.to, q.row)
          /\ UNCHANGED <<devices, pc>>
    /\ UNCHANGED <<viewVars, task, at, ask, engs, count, rows, peak, complete, counter, budget>>

-----------------------------------------------------------------------------
(* The heartbeat, the election and crashes.                                *)

declareDead(n, d) ==
    /\ n \in up /\ d \in alive[n] \ {n}
    /\ IF d \in up THEN Spend("suspect") ELSE UNCHANGED budget
    /\ alive' = [alive EXCEPT ![n] = @ \ {d}]
    /\ reacting' = IF d = master[n] THEN reacting ELSE reacting \cup {<<n, d>>}
    /\ declared' = declared + 1
    /\ UNCHANGED <<up, master, jobVars, tableVars, counter, msgs>>

\* The master is read anew: IsMaster, GetMasterNode.
React(n, d) ==
    /\ <<n, d>> \in reacting
    /\ reacting' = reacting \ {<<n, d>>}
    /\ Request(n, d)
    /\ UNCHANGED <<up, alive, master, declared, tableVars, counter, budget>>

MarkAlive(n, d) ==
    /\ n \in up /\ d \in up \ alive[n]
    /\ alive' = [alive EXCEPT ![n] = @ \cup {d}]
    /\ UNCHANGED <<up, master, reacting, declared, jobVars, tableVars, counter, msgs, budget>>

\* An election has ended, or COORDINATOR has come.
SetMasterID(n) == \E m \in Nodes :
    /\ n \in up /\ m # master[n] /\ Spend("master")
    /\ master' = [master EXCEPT ![n] = m]
    /\ UNCHANGED <<up, alive, reacting, declared, jobVars, tableVars, counter, msgs>>

\* Jobs and messages of a process end with it.
Crash(n) ==
    /\ n \in up /\ Spend("crash")
    /\ up' = up \ {n}
    /\ reacting' = {x \in reacting : x[1] # n}
    /\ msgs' = {q \in msgs : q.to # n}
    /\ pc' = [j \in Jobs |->
         IF \/ at[j] = n /\ pc[j] \in {"first", "second"}
            \/ \E q \in msgs : q.to = n /\ q.type = "INSERT_DISPOSITIVO" /\ q.job = j
         THEN "done" ELSE pc[j]]
    /\ UNCHANGED <<alive, master, declared, task, at, ask, engs, count, rows, peak, complete,
                   tableVars, counter>>

Next ==
    \/ \E n \in Nodes : AddDevice(n) \/ CloseTicket(n) \/ SetMasterID(n) \/ Crash(n)
    \/ \E n, d \in Nodes : declareDead(n, d) \/ React(n, d) \/ MarkAlive(n, d)
    \/ \E j \in Jobs : QueryTimeout(j) \/ SecondList(j) \/ distributeDevice(j)
                       \/ RedistributeTickets(j)
    \/ \E j \in Jobs, n \in Nodes : HandleQuery(j, n)
    \/ \E q \in msgs : HandleRequest(q) \/ HandleCommit(q)

Spec == Init /\ [][Next]_vars

(***************************************************************************)
(* Fairness: the heartbeat notices who is down, goroutines run, messages   *)
(* are handled.  Requests and faults are free.                             *)
(***************************************************************************)
Fairness ==
    /\ \A n, d \in Nodes : WF_vars(d \notin up /\ declareDead(n, d)) /\ WF_vars(React(n, d))
    /\ \A j \in Jobs : /\ WF_vars(ask[j] \cap up = {} /\ QueryTimeout(j))
                       /\ WF_vars(SecondList(j) \/ distributeDevice(j) \/ RedistributeTickets(j))
                       /\ \A n \in Nodes : WF_vars(HandleQuery(j, n))
    /\ WF_vars(\E q \in msgs : HandleRequest(q) \/ HandleCommit(q))

FairSpec == Spec /\ Fairness

-----------------------------------------------------------------------------
(* Properties.                                                             *)

\* ticket_service.go:131, "garantizar distribucion equitativa", as far as it is
\* true: no engineer is ahead of another by more devices than were being placed
\* at one time, as long as every list was complete.  One at a time: by one.
FairDistribution ==
    complete => \A e, f \in Engineers :
        Cardinality(DevicesOf(e)) <= Cardinality(DevicesOf(f)) + peak

\* The nodes that drew the number of a device that was proposed with success.
Drawers == {at[j] : j \in {i \in Jobs : task[i] = Device /\ pc[i] \in {"sent", "stored"}}}

\* ticket_service.go:32: ids do not collide.  A device whose INSERT was run is in
\* the table, as long as one node drew all numbers; two masters do not know of
\* each other's, and "OR IGNORE" then loses a device in silence.
NoDeviceIsDropped ==
    Cardinality(Drawers) <= 1 =>
        Cardinality(UNION {devices[n] : n \in Nodes})
            = Cardinality({j \in Jobs : task[j] = Device /\ pc[j] = "stored"})

Copies == UNION {{[at |-> n, id |-> r.id, eng |-> r.eng] : r \in
                  {s \in tickets[n] : \A i \in InitTickets[n] : i.id # s.id}} : n \in Nodes}

\* Several nodes notice a death, and each notice may start a redistribution:
\* nothing but a notice makes a copy of a ticket, and none gives an engineer two.
CopiesAreNoticed ==
    /\ \A t \in TicketIds : Cardinality({c \in Copies : c.id = t}) <= declared
    /\ \A e \in Engineers : Cardinality({c \in Copies : c.eng = e}) <= declared

\* db.go:283: a redistribution that is late does not open a row again that was
\* closed since, whatever it has listed.
ClosedStaysClosed ==
    [][\A n \in Nodes : \A r \in tickets[n] : ~r.open => r \in tickets'[n]]_vars

\* ticket_service.go:301, "reasigna los tickets abiertos de un nodo caido": the
\* open ticket of a node that is down gets a row elsewhere, unless nobody is free.
TicketsLeaveTheDead ==
    \A n \in Nodes : \A t \in TicketIds :
        (n \notin up /\ \E r \in tickets[n] : r.id = t /\ r.open)
            ~> \/ \E m \in Nodes \ {n} : \E r \in tickets[m] : r.id = t
               \/ \A e \in free : Home[e] \notin up

-----------------------------------------------------------------------------
(***************************************************************************)
(* The inductive invariant.  Asked and Inserts say how far a job is and    *)
(* which message it has; the others carry one property each.               *)
(***************************************************************************)
Requests == {q \in msgs : q.type \in {"ADD_DEVICE", "NODE_DEAD"}}

Inserts == {q \in msgs : q.type = "INSERT_DISPOSITIVO"}

\* A job is asked for by one message, and inserts its device by one.
Asked ==
    /\ \A j \in Jobs : pc[j] = "idle" => task[j] = Device
    /\ \A q \in Requests : pc[q.job] = "asked"
    /\ \A q \in Inserts : pc[q.job] = "sent" /\ task[q.job] = Device
    /\ \A p, q \in Requests : p.job = q.job => p = q
    /\ \A p, q \in Inserts : p.job = q.job => p = q

AllDevices == UNION {devices[n] : n \in Nodes}

Stored == {j \in Jobs : task[j] = Device /\ pc[j] = "stored"}

\* As long as the devices that are stored were numbered by one node, they have
\* different numbers, which no row on its way from this node has.
Numbered ==
    /\ IsFiniteSet(AllDevices)
    /\ \A q \in Inserts : q.row.id[2] <= counter[at[q.job]]
    /\ \A p, q \in Inserts :
         at[p.job] = at[q.job] /\ p.row.id[2] = q.row.id[2] => p = q
    /\ \A n \in Nodes : (\A j \in Stored : at[j] = n) =>
         /\ \A r \in AllDevices :
              /\ r.id[2] <= counter[n]
              /\ \A q \in Inserts : at[q.job] = n => q.row.id[2] # r.id[2]
         /\ Cardinality(AllDevices) = Cardinality(Stored)

Load(e) == Cardinality(DevicesOf(e))

\* A complete list has all engineers, and counts that were true once.
Listed ==
    complete =>
        /\ \A j \in Jobs, e \in Engineers : task[j] = Device =>
             /\ pc[j] = "first" => e \in engs[j] \/ Home[e] \in ask[j]
             /\ pc[j] = "second" => /\ e \in engs[j]
                                    /\ count[j][e] <= Load(e) \/ Home[e] \in ask[j]
        /\ \A q \in Inserts, f \in Engineers : count[q.job][q.row.eng] <= Load(f)

\* Whoever may still give its device to e, or is about to, because it has counted
\* no more than v devices there.
Low(e, v) == {j \in Placing :
    /\ \/ pc[j] = "second" /\ Home[e] \notin ask[j]
       \/ \E q \in Inserts : q.job = j /\ q.row.eng = e
    /\ count[j][e] <= v}

\* Nobody is given a device on a count above the least load.
Even ==
    /\ Cardinality(Placing) <= peak
    /\ complete =>
         \A e, f \in Engineers : \A v \in Nat :
             Load(f) <= v => Load(e) + Cardinality(Low(e, v)) <= v + peak

Redistributing == {j \in Jobs : task[j] # Device}

Notices ==
    /\ IsFiniteSet(reacting)
    /\ Cardinality(Redistributing) + Cardinality(reacting) <= declared

\* The copies of tickets, and those on their way.
Spread == Copies \cup
    {[at |-> q.to, id |-> q.row.id, eng |-> q.row.eng] :
     q \in {m \in msgs : m.type = "REASSIGN_TICKET"}}

Deciding == {j \in Redistributing : pc[j] \in {"second", "done"}}

\* Each of them is a ticket and an engineer that one redistribution has struck off.
Struck ==
    /\ IsFiniteSet(Spread)
    /\ \A t \in TicketIds : Cardinality({c \in Spread : c.id = t})
         <= Cardinality({j \in Deciding : t \notin rows[j]})
    /\ \A e \in Engineers : Cardinality({c \in Spread : c.eng = e})
         <= Cardinality({j \in Deciding : ask[j] = {} /\ e \notin engs[j]})

IInv == TypeOK /\ Asked /\ Numbered /\ Listed /\ Even /\ Notices /\ Struck
=============================================================================
