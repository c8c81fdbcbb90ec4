------------------------------ MODULE Tickets ------------------------------
(***************************************************************************)
(* Raising and closing tickets: internal/service/ticket_service.go, with   *)
(* the commit handler of cmd/main.go and the tables of internal/db.        *)
(*                                                                         *)
(* An engineer is a row of the database of its own sucursal only, a ticket *)
(* a row of the sucursal that raised it.  The lock is one lock, as Mutex   *)
(* shows of a single arbiter.  A Propose either fails and leaves nothing   *)
(* behind, or sends COMMIT to the peers it believes alive and waits for    *)
(* its own commit handler (see Consensus).  COMMITs are handled in any     *)
(* order: each has a goroutine of its own.                                 *)
(*                                                                         *)
(* UPDATE_TICKET_FOLIO, which only writes the text of the folio, is left   *)
(* out; the tables of users and devices are not touched here.              *)
(***************************************************************************)
EXTENDS Naturals, FiniteSets

CONSTANTS
    Nodes,        \* the sucursales
    Engineers,    \* the engineers
    Home,         \* the sucursal of each engineer
    NoNode,       \* nobody holds the lock
    NoEngineer,   \* no engineer chosen
    NoRow,        \* the ticket is not in the table
    Prompt,       \* whether a COMMIT arrives before the next query or round
    MaxAttempts,  \* raiseMaxRetries
    MaxTickets,   \* bound: ticket ids a node may draw
    MaxRounds,    \* bound: rounds of consensus a node may decide
    MaxFaults     \* bound: failed locks and rounds, query timeouts, suspicions

Kinds == {"lock", "quorum", "timeout", "suspect"}

ASSUME HomeAssumption == Home \in [Engineers -> Nodes]
ASSUME PromptAssumption == Prompt \in BOOLEAN
ASSUME NoNodeAssumption == NoNode \notin Nodes
ASSUME NoEngineerAssumption == NoEngineer \notin Engineers
ASSUME BoundsAssumption ==
    /\ MaxAttempts \in Nat \ {0} /\ MaxTickets \in Nat /\ MaxRounds \in Nat
    /\ MaxFaults \in [Kinds -> Nat]

\* newID: the raising node and its counter.
Ids == Nodes \X (1..MaxTickets)
Sucursal(t) == t[1]

Rows == [eng : Engineers, estado : {"ABIERTO", "CERRADO"}]
ASSUME NoRowAssumption == NoRow \notin Rows

Ops == [op : {"INSERT_TICKET", "CLOSE_TICKET", "UPDATE_INGENIERO_DISPONIBLE"},
        id : Ids, eng : Engineers]
Commits == [to : Nodes, round : Nodes \X (1..MaxRounds), what : Ops]

VARIABLES
    lock,        \* the node in the critical section
    pc,          \* where the operation of the node's operator stands
    attempt,     \* the loop counter of RaiseTicket
    asked,       \* ListAll: who has not answered yet
    seen,        \* ListAll: the engineers reported available
    chosen,      \* raiseTicket: the engineer; close: that of the listed row
    ticket,      \* raiseTicket: the ticket's id; close: that of the listed row
    issued,      \* ticket ids drawn by the node
    decided,     \* rounds the node has decided
    alive,       \* whom each node believes to be alive
    disponible,  \* INGENIEROS.disponible, in the engineer's sucursal
    tickets,     \* the TICKETS table of each node
    commits,     \* COMMIT messages not yet handled
    orderly,     \* history: nothing of what can spoil an assignment happened
    budget       \* what is left of MaxFaults

opVars    == <<pc, attempt, asked, seen, chosen, ticket>>
countVars == <<issued, decided>>
dbVars    == <<disponible, tickets>>
vars == <<lock, opVars, countVars, alive, dbVars, commits, orderly, budget>>

PCs == {"idle", "acquire", "list", "inserting", "busy", "marking", "retry",
        "listed", "closing"}

TypeOK ==
    /\ lock \in Nodes \cup {NoNode}
    /\ pc \in [Nodes -> PCs]
    /\ attempt \in [Nodes -> 0..MaxAttempts]
    /\ asked \in [Nodes -> SUBSET Nodes]
    /\ seen \in [Nodes -> SUBSET Engineers]
    /\ chosen \in [Nodes -> Engineers \cup {NoEngineer}]
    /\ ticket \in [Nodes -> Ids \cup {NoRow}]
    /\ issued \in [Nodes -> 0..MaxTickets]
    /\ decided \in [Nodes -> 0..MaxRounds]
    /\ alive \in [Nodes -> SUBSET Nodes]
    /\ disponible \in [Engineers -> {0, 1}]
    /\ tickets \in [Nodes -> [Ids -> Rows \cup {NoRow}]]
    /\ commits \subseteq Commits
    /\ orderly \in BOOLEAN
    /\ budget \in [Kinds -> Nat]

Init ==
    /\ lock = NoNode
    /\ pc = [n \in Nodes |-> "idle"]
    /\ attempt = [n \in Nodes |-> 0]
    /\ asked = [n \in Nodes |-> {}]
    /\ seen = [n \in Nodes |-> {}]
    /\ chosen = [n \in Nodes |-> NoEngineer]
    /\ ticket = [n \in Nodes |-> NoRow]
    /\ issued = [n \in Nodes |-> 0]
    /\ decided = [n \in Nodes |-> 0]
    /\ alive = [n \in Nodes |-> Nodes]
    /\ disponible = [e \in Engineers |-> 1]
    /\ tickets = [n \in Nodes |-> [t \in Ids |-> NoRow]]
    /\ commits = {}
    /\ orderly = TRUE
    /\ budget = MaxFaults

Spend(kind) ==
    /\ budget[kind] > 0
    /\ budget' = [budget EXCEPT ![kind] = @ - 1]

-----------------------------------------------------------------------------
(* Propose.                                                                *)

Settled == Prompt => commits = {}

\* The round is decided: COMMIT to the peers believed alive, and to itself.
Decide(n, what) ==
    /\ Settled
    /\ decided[n] < MaxRounds
    /\ decided' = [decided EXCEPT ![n] = @ + 1]
    /\ commits' = commits \cup
         {[to |-> p, round |-> <<n, decided[n] + 1>>, what |-> what] : p \in alive[n] \cup {n}}

\* No attempt of Propose found a quorum.
NoQuorum == Spend("quorum") /\ UNCHANGED <<decided, commits>>

\* doCommit has run the proposer's own handler.
Applied(n) == \A c \in commits : c.to = n => c.round # <<n, decided[n]>>

-----------------------------------------------------------------------------
(* RaiseTicket.                                                            *)

Enter(n, s) == pc' = [pc EXCEPT ![n] = s]

\* The operation is over, and its variables with it.
Return(n) ==
    /\ Enter(n, "idle")
    /\ chosen' = [chosen EXCEPT ![n] = NoEngineer]
    /\ ticket' = [ticket EXCEPT ![n] = NoRow]

RaiseTicket(n) ==
    /\ pc[n] = "idle"
    /\ issued[n] + MaxAttempts <= MaxTickets
    /\ decided[n] + 2 <= MaxRounds
    /\ Enter(n, "acquire")
    /\ attempt' = [attempt EXCEPT ![n] = 1]
    /\ UNCHANGED <<lock, asked, seen, chosen, ticket, countVars, alive, dbVars,
                   commits, orderly, budget>>

Retry(n) ==
    /\ pc[n] = "retry"
    /\ Enter(n, "acquire")
    /\ attempt' = [attempt EXCEPT ![n] = @ + 1]
    /\ UNCHANGED <<lock, asked, seen, chosen, ticket, countVars, alive, dbVars,
                   commits, orderly, budget>>

\* raiseTicket returned an error.
GiveUp(n) == Enter(n, IF attempt[n] < MaxAttempts THEN "retry" ELSE "idle")

\* Mutant: raiseTicket goes on without the lock.
AcquireNothing(n) ==
    /\ pc[n] = "acquire"
    /\ lock' = n
    /\ Enter(n, "list")
    /\ asked' = [asked EXCEPT ![n] = alive[n] \cup {n}]
    /\ seen' = [seen EXCEPT ![n] = {}]
    /\ UNCHANGED <<attempt, chosen, ticket, countVars, alive, dbVars, commits,
                   orderly, budget>>

\* The lock is taken, and ListAll asks the peers believed alive.
Acquire(n) ==
    /\ pc[n] = "acquire"
    /\ lock = NoNode
    /\ lock' = n
    /\ Enter(n, "list")
    /\ asked' = [asked EXCEPT ![n] = alive[n] \cup {n}]
    /\ seen' = [seen EXCEPT ![n] = {}]
    /\ UNCHANGED <<attempt, chosen, ticket, countVars, alive, dbVars, commits,
                   orderly, budget>>

AcquireFails(n) ==
    /\ pc[n] = "acquire"
    /\ Spend("lock")
    /\ GiveUp(n)
    /\ UNCHANGED <<lock, attempt, asked, seen, chosen, ticket, countVars, alive,
                   dbVars, commits, orderly>>

available(p) == {e \in Engineers : Home[e] = p /\ disponible[e] = 1}

\* The rows of p are those of the moment when p, or n itself, reads them.
HandleQuery(n, p) ==
    /\ p \in asked[n]
    /\ Settled
    /\ asked' = [asked EXCEPT ![n] = @ \ {p}]
    /\ seen' = [seen EXCEPT ![n] = @ \cup available(p)]
    /\ UNCHANGED <<lock, pc, attempt, chosen, ticket, countVars, alive, dbVars,
                   commits, orderly, budget>>

\* queryTimeout: the rows that have not come are left out.
QueryTimeout(n) ==
    /\ asked[n] # {} /\ n \notin asked[n]
    /\ Spend("timeout")
    /\ asked' = [asked EXCEPT ![n] = {}]
    /\ UNCHANGED <<lock, pc, attempt, seen, chosen, ticket, countVars, alive, dbVars,
                   commits, orderly>>

\* "defer release()"
Release == lock' = NoNode

\* Mutant: without "defer", the early return keeps the lock.
NobodyAvailableLeaks(n) ==
    /\ pc[n] = "list" /\ asked[n] = {}
    /\ seen[n] = {}
    /\ GiveUp(n)
    /\ UNCHANGED <<lock, attempt, asked, seen, chosen, ticket, countVars, alive,
                   dbVars, commits, orderly, budget>>

NobodyAvailable(n) ==
    /\ pc[n] = "list" /\ asked[n] = {}
    /\ seen[n] = {}
    /\ Release
    /\ GiveUp(n)
    /\ UNCHANGED <<attempt, asked, seen, chosen, ticket, countVars, alive, dbVars,
                   commits, orderly, budget>>

\* The local rows come first in what ListAll returns.
firstOf(n) ==
    LET local == {e \in seen[n] : Home[e] = n}
    IN  IF local # {} THEN local ELSE seen[n]

Op(op, t, e) == [op |-> op, id |-> t, eng |-> e]

NewId(n) == <<n, issued[n] + 1>>

InsertTicket(n) ==
    /\ pc[n] = "list" /\ asked[n] = {}
    /\ \E e \in firstOf(n) :
        /\ NewId(n) \in Ids
        /\ issued' = [issued EXCEPT ![n] = @ + 1]
        /\ \/ /\ Decide(n, Op("INSERT_TICKET", NewId(n), e))
              /\ Enter(n, "inserting")
              /\ chosen' = [chosen EXCEPT ![n] = e]
              /\ ticket' = [ticket EXCEPT ![n] = NewId(n)]
              /\ UNCHANGED <<lock, budget>>
           \/ /\ NoQuorum
              /\ Release
              /\ GiveUp(n)
              /\ UNCHANGED <<chosen, ticket>>
    /\ seen' = [seen EXCEPT ![n] = {}]
    /\ UNCHANGED <<attempt, asked, alive, dbVars, orderly>>

\* Mutant: doCommit starts its own handler and does not wait for it.
InsertedEarly(n) ==
    /\ pc[n] = "inserting"
    /\ Enter(n, "busy")
    /\ UNCHANGED <<lock, attempt, asked, seen, chosen, ticket, countVars, alive,
                   dbVars, commits, orderly, budget>>

Inserted(n) ==
    /\ pc[n] = "inserting" /\ Applied(n)
    /\ Enter(n, "busy")
    /\ UNCHANGED <<lock, attempt, asked, seen, chosen, ticket, countVars, alive,
                   dbVars, commits, orderly, budget>>

\* The round that marks the engineer may fail: the code only logs it.
MarkBusy(n) ==
    /\ pc[n] = "busy"
    /\ \/ /\ Decide(n, Op("UPDATE_INGENIERO_DISPONIBLE", ticket[n], chosen[n]))
          /\ Enter(n, "marking")
          /\ UNCHANGED <<lock, chosen, ticket, orderly, budget>>
       \/ /\ NoQuorum
          /\ Release
          /\ Return(n)
          /\ orderly' = FALSE
    /\ UNCHANGED <<attempt, asked, seen, issued, alive, dbVars>>

Raised(n) ==
    /\ pc[n] = "marking" /\ Applied(n)
    /\ Release
    /\ Return(n)
    /\ UNCHANGED <<attempt, asked, seen, countVars, alive, dbVars, commits,
                   orderly, budget>>

-----------------------------------------------------------------------------
(* CloseTicket, as the CLI calls it: the operator picks a row of a list.   *)

ListTickets(n) ==
    /\ pc[n] = "idle"
    /\ decided[n] < MaxRounds
    /\ Settled
    /\ \E p \in alive[n] \cup {n}, t \in Ids :
        /\ tickets[p][t] # NoRow /\ tickets[p][t].estado = "ABIERTO"
        /\ ticket' = [ticket EXCEPT ![n] = t]
        /\ chosen' = [chosen EXCEPT ![n] = tickets[p][t].eng]
    /\ Enter(n, "listed")
    /\ UNCHANGED <<lock, attempt, asked, seen, countVars, alive, dbVars, commits,
                   orderly, budget>>

\* The listed row is still true: the ticket is open, nobody else has closed
\* it, and whoever raised it has finished.
StillOpen(t) ==
    /\ tickets[Sucursal(t)][t] # NoRow /\ tickets[Sucursal(t)][t].estado = "ABIERTO"
    /\ \A c \in commits : c.what.op = "CLOSE_TICKET" => c.what.id # t
    /\ ~(pc[Sucursal(t)] \in {"inserting", "busy", "marking"} /\ ticket[Sucursal(t)] = t)

CloseTicket(n) ==
    /\ pc[n] = "listed"
    /\ \/ /\ Decide(n, Op("CLOSE_TICKET", ticket[n], chosen[n]))
          /\ Enter(n, "closing")
          /\ orderly' = (orderly /\ StillOpen(ticket[n]))
          /\ UNCHANGED <<chosen, ticket, budget>>
       \/ /\ NoQuorum
          /\ Return(n)
          /\ UNCHANGED orderly
    /\ UNCHANGED <<lock, attempt, asked, seen, issued, alive, dbVars>>

Closed(n) ==
    /\ pc[n] = "closing" /\ Applied(n)
    /\ Return(n)
    /\ UNCHANGED <<lock, attempt, asked, seen, countVars, alive, dbVars, commits,
                   orderly, budget>>

-----------------------------------------------------------------------------
(* The commit handler.  An UPDATE changes the row if the node has it.      *)

commitInsert(n, w) ==
    /\ w.op = "INSERT_TICKET"
    /\ tickets' = IF Sucursal(w.id) = n /\ tickets[n][w.id] = NoRow
                  THEN [tickets EXCEPT ![n][w.id] = [eng |-> w.eng, estado |-> "ABIERTO"]]
                  ELSE tickets
    /\ UNCHANGED disponible

SetDisponible(n, e, v) ==
    disponible' = IF Home[e] = n THEN [disponible EXCEPT ![e] = v] ELSE disponible

\* Mutant: CLOSE_TICKET forgets SetIngenieroDisponible.
commitCloseOnly(n, w) ==
    /\ w.op = "CLOSE_TICKET"
    /\ tickets' = IF tickets[n][w.id] # NoRow
                  THEN [tickets EXCEPT ![n][w.id].estado = "CERRADO"]
                  ELSE tickets
    /\ UNCHANGED disponible

commitClose(n, w) ==
    /\ w.op = "CLOSE_TICKET"
    /\ tickets' = IF tickets[n][w.id] # NoRow
                  THEN [tickets EXCEPT ![n][w.id].estado = "CERRADO"]
                  ELSE tickets
    /\ SetDisponible(n, w.eng, 1)

commitBusy(n, w) ==
    /\ w.op = "UPDATE_INGENIERO_DISPONIBLE"
    /\ SetDisponible(n, w.eng, 0)
    /\ UNCHANGED tickets

HandleCommit(n) == \E c \in commits :
    /\ c.to = n
    /\ commitInsert(n, c.what) \/ commitClose(n, c.what) \/ commitBusy(n, c.what)
    /\ commits' = commits \ {c}
    /\ UNCHANGED <<lock, opVars, countVars, alive, orderly, budget>>

-----------------------------------------------------------------------------
(* The failure detector: a node believed dead is not asked and not told.   *)

Suspect(n, p) ==
    /\ p \in alive[n] \ {n}
    /\ Spend("suspect")
    /\ alive' = [alive EXCEPT ![n] = @ \ {p}]
    /\ orderly' = FALSE
    /\ UNCHANGED <<lock, opVars, countVars, dbVars, commits>>

MarkAlive(n, p) ==
    /\ p \notin alive[n]
    /\ alive' = [alive EXCEPT ![n] = @ \cup {p}]
    /\ UNCHANGED <<lock, opVars, countVars, dbVars, commits, orderly, budget>>

Raise(n) ==
    \/ Retry(n) \/ Acquire(n) \/ AcquireFails(n)
    \/ QueryTimeout(n) \/ NobodyAvailable(n)
    \/ InsertTicket(n) \/ Inserted(n) \/ MarkBusy(n) \/ Raised(n)
    \/ \E p \in Nodes : HandleQuery(n, p)

Close(n) == CloseTicket(n) \/ Closed(n)

Next ==
    \/ \E n \in Nodes : \/ RaiseTicket(n) \/ Raise(n)
                        \/ ListTickets(n) \/ Close(n) \/ HandleCommit(n)
    \/ \E n, p \in Nodes : Suspect(n, p) \/ MarkAlive(n, p)

Spec == Init /\ [][Next]_vars

(***************************************************************************)
(* Fairness: an operation that was begun goes on, the lock is granted to   *)
(* whoever waits when it is free again and again (the queue of Mutex is    *)
(* FIFO), and a COMMIT that was sent is handled.                           *)
(***************************************************************************)
Fairness ==
    \A n \in Nodes : /\ WF_vars(Raise(n)) /\ SF_vars(Acquire(n))
                     /\ WF_vars(Close(n)) /\ WF_vars(HandleCommit(n))

FairSpec == Spec /\ Fairness

-----------------------------------------------------------------------------
(* Properties.                                                             *)

Open(t) == LET row == tickets[Sucursal(t)][t]
           IN  row # NoRow /\ row.estado = "ABIERTO"

EngineerOf(t) == tickets[Sucursal(t)][t].eng

\* dispatcher.go:26: two sucursales do not give one engineer two tickets.
NoDoubleAssignment ==
    \A t, u \in Ids : Open(t) /\ Open(u) /\ EngineerOf(t) = EngineerOf(u) => t = u

\* What the lock is there for: when COMMITs are prompt, nobody acts on a stale
\* list and no round that marks an engineer fails, two tickets that are open
\* have two engineers.
OrderlyAssignment == Prompt /\ orderly => NoDoubleAssignment

Idle == commits = {} /\ \A n \in Nodes : pc[n] \in {"idle", "listed"}

\* ticket_service.go:290: the engineer of a closed ticket can be given a new
\* one.  When nothing is under way, whoever is unavailable has an open ticket.
BusyHaveTickets ==
    Idle => \A e \in Engineers :
        disponible[e] = 0 => \E t \in Ids : Open(t) /\ EngineerOf(t) = e

\* ... and whoever has an open ticket is unavailable.
OrderlyAvailability ==
    Prompt /\ orderly /\ Idle =>
        /\ BusyHaveTickets
        /\ \A t \in Ids : Open(t) => disponible[EngineerOf(t)] = 0

\* raiseTicket goes on when doCommit has run its own handler: from then on the
\* ticket is a row of its sucursal, with the engineer who is marked.
RaisedIsStored == \A n \in Nodes : pc[n] \in {"busy", "marking"} =>
    /\ tickets[n][ticket[n]] # NoRow
    /\ tickets[n][ticket[n]].eng = chosen[n]

\* Every operation that has begun, a raise in any of its attempts or a close,
\* returns to the operator, whatever is refused or expires; while the operator
\* looks at a list ("listed") none has.
OperationsReturn == \A n \in Nodes :
    pc[n] \notin {"idle", "listed"} ~> pc[n] = "idle"

-----------------------------------------------------------------------------
(* The inductive invariant.  What depends on the order of things has the   *)
(* premise Safe.                                                           *)

Safe == Prompt /\ orderly

Raising == {"inserting", "busy", "marking"}
RaisedBy(n, t) == pc[n] \in Raising /\ ticket[n] = t

\* The lock is held from the list to the end.
Locked == \A n \in Nodes :
    /\ pc[n] \in {"list"} \cup Raising => lock = n
    /\ asked[n] # {} => pc[n] = "list"
    /\ pc[n] = "retry" => attempt[n] < MaxAttempts

\* What an operation works on: a new id, or a row that is there.
HasRow(t) == tickets[Sucursal(t)][t] # NoRow
Targets == \A n \in Nodes :
    /\ pc[n] \in Raising => ticket[n] = <<n, issued[n]>>
    /\ pc[n] \in Raising \cup {"listed", "closing"} => ticket[n] \in Ids /\ chosen[n] \in Engineers
    /\ pc[n] \in {"listed", "closing"} =>
         HasRow(ticket[n]) /\ EngineerOf(ticket[n]) = chosen[n]

\* A ticket is a row of its own sucursal, and its number has been drawn.
Numbered == \A p \in Nodes, t \in Ids :
    tickets[p][t] # NoRow => p = Sucursal(t) /\ t[2] <= issued[p]

\* An INSERT on its way to where it counts belongs to a raise that waits for it.
Inserts == \A c \in commits :
    c.what.op = "INSERT_TICKET" /\ c.to = Sucursal(c.what.id) =>
        /\ pc[c.to] = "inserting" /\ c.round = <<c.to, decided[c.to]>>
        /\ ticket[c.to] = c.what.id /\ chosen[c.to] = c.what.eng
        /\ ~HasRow(c.what.id)

\* What a raise inserts is stored, or the INSERT for it is on its way.
Awaited == \A n \in Nodes : pc[n] = "inserting" =>
    \/ HasRow(ticket[n]) /\ EngineerOf(ticket[n]) = chosen[n]
    \/ \E c \in commits : /\ c.to = n /\ c.round = <<n, decided[n]>>
                          /\ c.what = Op("INSERT_TICKET", ticket[n], chosen[n])

\* The ticket of a raise that has not finished is open once it is stored.
Present == Safe =>
    \A n \in Nodes : pc[n] \in Raising /\ HasRow(ticket[n]) => Open(ticket[n])

\* A round is over before the next one is decided.
OneRound == Prompt => \A c, d \in commits : c.what = d.what

Everybody == orderly => \A n \in Nodes : alive[n] = Nodes

\* A CLOSE is for a row that is there and that nobody is still raising; until it
\* is closed and its engineer available, the COMMIT for that is on its way.
Closes == \A c \in commits : c.what.op = "CLOSE_TICKET" =>
    /\ HasRow(c.what.id) /\ EngineerOf(c.what.id) = c.what.eng
    /\ Safe =>
        /\ ~RaisedBy(Sucursal(c.what.id), c.what.id)
        /\ \A t \in Ids : Open(t) /\ EngineerOf(t) = c.what.eng => t = c.what.id
        /\ Open(c.what.id) =>
             \E d \in commits : d.to = Sucursal(c.what.id) /\ d.what = c.what
        /\ disponible[c.what.eng] = 0 =>
             \E d \in commits : d.to = Home[c.what.eng] /\ d.what = c.what

Updates == Safe => \A c \in commits : c.what.op = "UPDATE_INGENIERO_DISPONIBLE" =>
    Open(c.what.id) /\ EngineerOf(c.what.id) = c.what.eng

\* Whoever was seen available, or was chosen, has no other ticket.
Reserved == Safe => \A n \in Nodes, t \in Ids : Open(t) =>
    /\ pc[n] = "list" => EngineerOf(t) \notin seen[n]
    /\ pc[n] = "inserting" /\ EngineerOf(t) = chosen[n] => t = ticket[n]

\* The engineer of an open ticket is unavailable, about to be, or about to
\* lose the ticket.
Marked == Safe => \A t \in Ids : Open(t) =>
    \/ disponible[EngineerOf(t)] = 0
    \/ pc[Sucursal(t)] \in {"inserting", "busy"} /\ ticket[Sucursal(t)] = t
    \/ \E c \in commits : /\ c.to = Home[EngineerOf(t)]
                          /\ c.what = Op("UPDATE_INGENIERO_DISPONIBLE", t, EngineerOf(t))
    \/ \E c \in commits : /\ c.to = Sucursal(t)
                          /\ c.what.op = "CLOSE_TICKET" /\ c.what.id = t

\* Whoever is unavailable has a ticket, or is about to become available.
Backed == Safe => \A e \in Engineers : disponible[e] = 0 =>
    \/ \E t \in Ids : Open(t) /\ EngineerOf(t) = e
    \/ \E c \in commits : c.to = Home[e] /\ c.what.op = "CLOSE_TICKET" /\ c.what.eng = e

IInv ==
    /\ TypeOK /\ Locked /\ Targets /\ Numbered /\ Inserts /\ Awaited
    /\ RaisedIsStored /\ Present /\ OneRound /\ Everybody /\ Closes
    /\ Updates /\ OrderlyAssignment /\ Reserved /\ Marked /\ Backed
=============================================================================
