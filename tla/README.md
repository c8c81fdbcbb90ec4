# Verification of node_messager

`node_messager` is a ticket system for several sucursales (branch offices).
Each sucursal is a Go process with its own SQLite database; the processes talk
to each other over TCP and agree by message passing on who is alive, who is the
master, which writes are executed and who may assign an engineer. This directory
holds TLA+ models of that code, the TLC configurations that model-check them, and
proofs checked by TLAPS. Paths like `consensus.go:119` are relative to `src/`
(`internal/consensus/consensus.go`, and so on); `PROJECT.json` maps every
definition to the lines it stands for.

Contents:

1. The system: inventory
2. Plan
3. The modules
4. The runs
5. Fairness
6. What is proved
7. Where the code differs from its comments
8. What is not modelled

## 1. The system: inventory

### Parts

| Part | State | Operations |
|---|---|---|
| `internal/nodestate` | `alive` (a map of node to bool), `masterID` | `MarkAlive`, `MarkDead`, `SetMasterID`; the rest reads |
| `internal/heartbeat` | `missed`, `pongChs`, `inFlight` per peer | a tick starts `pingOne` for each peer; `HandlePing`, `HandlePong`, `declareDead` |
| `internal/election` | `running`, `okTimer` | `StartElection`, the function of its timer, `declareVictory`, `ClaimMastership`; handlers of ELECTION, OK, COORDINATOR |
| `internal/mutex` | as arbiter: `holder`, `queue`; as client: `grants` (a channel per request) | `Acquire` (`acquireLocal`, `acquireRemote`), the release functions, handlers of LOCK_REQUEST, LOCK_GRANT, LOCK_RELEASE (that of LOCK_DENY is empty) |
| `internal/consensus` | `rounds`: votes and a `done` channel for each open round | `Propose` with its retries, `propose`, `doCommit`; handlers of PROPOSE, VOTE, COMMIT |
| `internal/service` | `queryWait` (a collector for each open query), the id counter | `RaiseTicket`, `CloseTicket`, `ListAll`, `RedistributeTickets`, `AddUsuario`, `AddIngeniero`, `AddDevice`; handlers of QUERY, QUERY_RESPONSE, ADD_DEVICE |
| `internal/db` | the tables, `_schema_version` | inserts and updates, `migrate`, `Seed` |
| `cmd/main.go` | none | start-up, and the commit handler that turns a committed operation into a statement |
| `internal/dispatcher` | none | `Dispatch`: the handler of each message; NODE_DEAD starts a redistribution |
| `pkg/sender`, `pkg/tcpclient` | a pool of outgoing connections | `Send`, `SendJSON`, `Broadcast` |
| `pkg/hub`, `pkg/tcp_server` | the set of incoming connections | `Run`, `Serve`, the two pumps |
| `pkg/msgstore` | the last messages, a JSONL file | `Save`, `Latest`, reading the file at start |
| `internal/adapters/cli` | the menu | raise, close and list tickets, add rows |

The configuration, the logger, `pkg/node` and `pkg/dto` have no behaviour of
their own that the protocols depend on.

### How they interact

* A line that arrives on a connection goes through the hub's channel and then
  `go h.dispatcher.Dispatch(msg)` (`hub.go:105`). Every message has a goroutine
  of its own, so that even two messages of one connection are handled in any
  order. All modules have a network without order for this reason.
* The heartbeat writes `alive`. Consensus and the service read it to decide whom
  they send to, the election to decide whom it asks.
* The death of the master makes `declareDead` call `StartElection`; another death
  makes the master call `RedistributeTickets` and everyone else send NODE_DEAD.
* The election writes `masterID`; the mutex reads it to find the arbiter, twice in
  one `Acquire` and again for the release.
* `RaiseTicket` takes the distributed lock, lists the engineers of all nodes with
  `ListAll`, proposes INSERT_TICKET and then UPDATE_INGENIERO_DISPONIBLE, and
  releases the lock. `CloseTicket` is one proposal without the lock.
* A committed operation is run by the commit handler of every node that gets the
  COMMIT; each row exists in the database of one sucursal only.

### What is hard, and what makes each part correct

* Heartbeat: overlapping goroutines share one channel slot per peer; a PONG may
  be looked up before an unlock and delivered after it. Correct means: a live
  peer is declared dead only after `maxMissed` bad answers in a row, a dead one
  is noticed, and each death is acted on once.
* Election: timers, answers and announcements of different candidates overlap.
  Correct means: nobody stays in an election for ever, one who was answered
  retires, and the live nodes end with the same live master.
* Mutex: a wait can end while its grant is on the way, and the master can change
  or restart while the lock is held. Correct means: one holder at a time, a lock
  that comes back, and no goroutine that blocks while it holds `e.mu`.
* Consensus: votes are counted by handlers while `propose` still sends. Correct
  means: no write without a majority, no lost wake-up, no operation committed by
  two attempts.
* Query: the broadcaster lowers the expected number of answers while they are
  being counted. Correct means: `done` means that everyone who was asked has
  answered, and nobody waits for answers that cannot come.
* Tickets: the lock protects a decision that takes effect through messages.
  Correct means: one open ticket for each engineer, and an engineer who is
  unavailable exactly as long as there is one.
* Redistribution and devices: the master reads two lists and proposes without a
  lock, any number of such jobs at once. Correct means: devices spread as evenly
  as the overlap allows, no row lost to an id drawn twice, a row that was closed
  stays closed, and a death answered no oftener than it was noticed.
* Connections: goroutines share one connection that may be dead, closed or replaced
  by the time they use it. Correct means: a send that reported an error was not
  delivered, nothing is delivered twice, and what was written is dispatched as long
  as its connection lasts.
* Start-up, ids, migrations: crashes between two statements, and a counter that
  begins with the clock. Correct means: a node that works has its schema and its
  seed, and an id it draws is new.

The hazards are listed one by one, each with its line, in `PROJECT.json`.

## 2. Plan

Done, in this order (the first three carry the guarantees that the README of the
program and its comments speak of):

1. `Mutex`, with `LockTable` as its abstract specification, and `MutexProofs`;
2. `Election` and `ElectionProofs`;
3. `Tickets`, which composes the lock, the list and the commits, and `TicketsProofs`;
4. `Consensus` and `ConsensusProofs`;
5. `Heartbeat` and `HeartbeatProofs`;
6. `Query` and `QueryProofs`;
7. `Distribution`: the jobs of the master, redistribution and devices; and
   `DistributionProofs`;
8. `Transport`, with `Network` as its abstract specification;
9. `Startup`: history, migrations, seed and ids over crashes; the proofs about both are
   in `NodeProofs`.

To come:

10. Abstract specifications: an atomic register of decided operations for
    `Consensus`, a failure detector for `Heartbeat` (the reduction that `Election`,
    `Consensus` and `Tickets` already assume), each with its proof of refinement.

## 3. The modules

Conventions that all modules share. An action is named after the function it
models; a function whose steps other goroutines can see apart is several actions
and a stage variable (`pc`, `stage`) that says where it stands. What a mutex of
the code makes indivisible is one action. The environment draws its faults from
`budget`, a number for each kind of fault that starts as the constant `MaxFaults`;
a lost message, an expired wait or a crash costs one. History variables, which
no action reads except to guard the environment, are marked as such where they
are declared. Operators with a comment "Mutant:" are not part of the
specification: each is a small mistake in the definition that follows, and
`PROJECT.json` names the property that notices it.

### Mutex (`internal/mutex/mutex.go`)

The node is client and arbiter at once. `Acquire` tests `IsMaster` once (`Decide`);
the branch it takes reads `masterID` again in `Draw` and `RemoteSend`, so that a
change of master between the two is possible. `acquireLocal` is split where it
unlocks: `LocalEnqueue`, then `LocalRegister`, with `releaseLocal` of others in
between. `ReleaseAt` is `releaseLocal`; its conjunct `next \notin chan[m]` is the room
the buffered channel must have, since the code sends while it holds `e.mu`. A
request id is the pair of its client and an ordinal, which is what a UUID gives:
nobody draws it twice. An arbiter is a process, a node with an incarnation
number, because a restarted master has an empty `holder` and `queue`.
`Restart` also stops the node's own `Acquire`; messages to the old process are lost
with its connections. The change of master is not derived from `Election` but
free: any node may believe any other to be the master at any time.

`LockTable` is the abstract service: a table of locks with at most one owner each.
`owners` maps the state of `Mutex` to it: the owner of an arbiter process is the
client in the critical section on the strength of a request addressed to it.

### Election (`internal/election/election.go`)

A call of `StartElection` with its timer goroutine is a pair of node and number.
Its stages are those at which the code is outside `e.mu`: after `running` is set
(`Begin`), after the list of lower nodes was read and ELECTION sent (`Canvass`),
after the timer was armed (`ArmTimer`), and between the timer's test of
`running` and `declareVictory` (`TimerFires`, `declareVictory`). `HandleElectionOK` stops
the timer, which has no effect on a function that has begun. `Detect` is the
heartbeat's discovery of a crash, `Suspect` a wrong one; only the death of the
believed master starts an election. Time is reduced to one assumption with an
exception: `okTimeout` is longer than a question and its answer take, and a
detection takes longer than anything the dead node had sent, to whomever, takes to be
handled; each exception costs one "late" of the budget. An OK may still be handled before
its timer is armed, since `Canvass` and `ArmTimer` are two steps. A node that is restarted believes all to be alive and the
configured node to be the master, and the configured node announces itself.

### Tickets (`internal/service/ticket_service.go`, the commit handler of `cmd/main.go`)

The composition: `RaiseTicket` under the lock, `ListAll`, two proposals, and
`CloseTicket` from a list the operator has looked at. The other modules enter by
what they guarantee. The lock is one lock, which `Mutex` shows of each arbiter
process; with two of them, after a change of master, it would be two (section 7).
`Propose` fails and leaves nothing,
or sends a COMMIT to each peer believed alive and returns when its own handler has
run (`Consensus`: `OnlyLastRoundCommits`; the case of a failing database is left out).
`ListAll` collects from each peer the rows of the moment it answers, or times out
with those it has (`Query`). COMMITs are a set handled in any order.

`Prompt` is the one assumption about timing: when it is TRUE, a COMMIT arrives before
the next query is answered or round decided. It is a constant, and a premise of the two
properties that need it; `RaisedIsStored` and the types need no such premise. The code does not wait for that, which
is what `tickets_double` shows. `orderly` becomes FALSE when one of the things happens
that the code does not protect against: the marking round fails (it is only
logged), a peer is suspected (it is neither asked nor told), or an operator closes
a ticket that is not open any more or whose raiser is not done.

### Consensus (`internal/consensus/consensus.go`)

A round is the pair of the call and its attempt, as the UUID of each attempt makes
it. `Broadcast` sends to one peer after the other, with handlers and crashes in
between; `SelfVote` comes after the broadcast as in the code, so that peers' votes
may complete the quorum first. `done` is the channel of capacity one. `VoteTimeout` may
win over a quorum that waits in `done`, as `select` allows. `ApplyFails` and
`CommitFails` are database errors of the proposer and of a peer. `needed` is a
majority of all nodes (`consensus.go:90` counts `All`, whereas the comment at
`state.go:56` says that `AlivePeers` is used for the quorum).

### Heartbeat (`internal/heartbeat/heartbeat.go`)

One monitor, whose peers are independent. A slot is a goroutine `pingOne` together
with the channel it makes. The code's locks make `BeginPing`, `Register`, `Forget`
and `Exit` separate steps; `HandlePong` is `LookUp` under the lock and `Deliver` after it,
so that a PONG may reach a channel whose ping is over. `declareDead` reads the state
anew at each test and is five actions. `Miss` is the expiry of `pongWait`; it costs
"late" only when an answer was on its way. Two history variables say what the
properties need: `trouble` counts what was late or lost since the last PONG,
`reactions` what `declareDead` did since the peer was last alive.

### Query (`ListAll`, `HandleQuery`, `HandleQueryResponse`)

A call registers its collector, sends peer by peer, lowers `expected` by the sends
that failed, reads its own rows and waits. `HandleQueryResponse` runs at any time and
closes `done` when enough answers are in; so does `Adjust`. The rows of a peer are
represented by the peer. What a peer that is down does to a send is the only thing
the model needs to know of connections. Peers may be down from the start.

### Distribution (`RedistributeTickets`, `distributeDevice` and who starts them)

A job is a goroutine that runs one of the two functions; `task` says for whom. Both
are two calls of `ListAll` and then proposals, so they share the stages and
`HandleQuery`, which reads the rows of one node at the moment it answers. `Request` is
what the three starters have in common, the menu's `AddDevice`, `declareDead` of the
heartbeat and the handlers of ADD_DEVICE and NODE_DEAD: whoever believes to be the
master does the job, anybody else sends it to the one it believes in, and a node that
gets it and is not the master drops it. `declareDead` and `React` are two actions,
because the master is read again after the node was marked. `ListAll` and `Propose` are
reduced to what `Query` and `Consensus` show of them. `INSERT OR IGNORE` is `Insert`:
a row whose id is there already is dropped without an error. `CloseAt` closes the row
in every sucursal that has it. Three history variables: `peak`, the most devices that
were being placed at one time; `complete`, whether every list for a device came from
all sucursales; `declared`, how many deaths were declared.

Heartbeat and election are free: a node may be suspected, seen again or take itself
for the master at any time, within the budget. A difference from the code is that the
engineer of several with the fewest devices, and the order of free engineers and
tickets, are left open, which includes every order in which the answers may come.

### Transport and Network (`pkg/sender`, `pkg/tcpclient`, `pkg/hub`, `pkg/tcp_server`)

One node sends to one other. A message is sent by a goroutine of its own, and a
connection is named after the goroutine that dialled it, since each dials at most
once. There are two pools, that of `sender` and that of the menus, which differ in one
line: the menus' never removes a connection, so that it depends on `IsClosed`. `get`
is the part under the pool's mutex, the dial included, which may fail although the
receiver runs; `Write` comes after the
unlock, and `Forget` removes whichever connection the pool holds by then. A write to a
connection that is broken, but whose `readLoop` has not noticed it, may report success;
the message is lost. On the receiving side `Serve` registers the connection, `readPump`
moves lines into the channel `broadcast` and waits when it is full (`Room`),
`unregister` closes, and `Run` starts the goroutine of `Dispatch`. What is on a
connection is a set: its order is lost in the last step and no property is about it.
`Cut` and `Crash` break connections, and `Cut` leaves any part of what was written to
be read.

`Network` is the abstract service, and the network all other modules assume: a message
is accepted or refused, a refused one is never handled, an accepted one at most once.
The refinement mapping is `Status`. A message whose write failed counts as refused
from that moment, before its `Send` returns.

### Startup (`cmd/main.go`, `internal/db`, `pkg/msgstore`, the id counter)

One process, statement by statement, with a crash between any two: a migration and
the update of `_schema_version` are `Apply` and `Record`; `Seed` inserts one row a step,
engineers before users before devices. A process that was stopped by a failing
migration (`fatal`) may be started again and fails again. `main` gives the counter any
value up to `MaxClock`: `idCounter` begins with the clock modulo 10^9 ms, about eleven
days, so nothing relates two starts. `SetMinIDCounter` runs only in the start that
seeds. Ids are numbers without the prefix of the node, and `AddRow` stands for each
operation that draws an id for a table. The history file is a sequence of lines: a
message, which is the number of its `Save`; `Torn`, the beginning of one that a crash
cut; or `Glued`, such a beginning with the message that was appended to it. The messages
in `LongLines` make a line longer than the scanner takes, and so may what a crash leaves
of one (`LongTorn`) and what it is glued to (`LongGlued`). `loadFromFile` is read line by
line: `main` enters the stage "load", `ScanLine` appends a message or skips what it cannot
parse, and `Loaded` ends at the end of the file or for good at a line that is too long,
and keeps the last `MaxHistory`. During that stage `entries` is the local slice of
`loadFromFile`, and so may be longer than the history.

Four history variables name the windows in which a crash breaks what was promised:
`gap` (between ALTER TABLE and its version), `torn` (between two rows of the seed),
`behind` (a start without seeding whose clock is below a stored id), and `dropped` records
that an insertion was ignored. The properties are conditional on the first three, and
each premise is needed: without it TLC finds the property violated.
`CountIngenieros` returns `n, row.Scan(&n)`, whose order of evaluation Go leaves
open; the compiler in use reads `n` after the call, as the test of `CountIngenieros`
confirms, and the model follows it.

## 4. The runs

Sizes are distinct states. Every bound is a named constant.

| Run | Instance | States | Result |
|---|---|---|---|
| `mutex_faults` | nodes n1 (the master) and n2, both clients; 2 attempts, 2 ids each | 56,611 | holds |
| `election_faults` | nodes 1, 2, 3; six scenarios of faults | 89,945 | holds |
| `election_vacant` | three nodes, two crashes | 754 | `MasterIsReplaced` violated |
| `tickets_orderly` | two nodes, one engineer, prompt COMMITs, one fault of each kind | 200,351 | holds |
| `tickets_double` | the same without faults, COMMITs at any time | 608 | `NoDoubleAssignment` violated |
| `consensus_faults` | three nodes, one call, two attempts, two faults of five kinds | 100,493 | holds |
| `heartbeat_faults` | one peer, two overlapping pings, four faults | 244,277 | holds |
| `query_faults` | two peers, two overlapping calls, one fault of each of three kinds | 119,743 | holds |
| `distribution_overlap` | three nodes, four engineers, two tickets, three jobs; six scenarios | 237,101 | holds |
| `distribution_dead` | the same, one crash | 625 | `TicketsLeaveTheDead` violated |
| `transport_faults` | two goroutines and the menu, one long message, `Room` 1, one crash, one cut | 52,869 | holds |
| `startup_crashes` | five messages, two rows, two crashes | 228,003 | holds |

The states of a run with a violation are about those TLC saw before it stopped.
Type correctness and the inductive invariants of `Mutex`, `Election`, `Tickets`,
`Consensus`, `Heartbeat`, `Query` and `Transport`, and the inductive invariant of
`Distribution`, are not among the properties of the runs: they are proved for all
constants (section 6), and TLC checked them on these instances before they were.

What the passing runs say, and why their bounds let the interesting cases happen:

* **mutex_faults.** The budget is four expired waits, one for each attempt of each
  client, so that every wait may end without its grant; one lost message; one
  change of one node's master, after which there are two arbiters; and one restart
  of the master. Two clients are enough for a request that is queued behind
  another, for a grant that meets a client that has gone, and for a release that
  reaches the wrong arbiter. `ArbiterExclusion` and `TokenIsHeld`: no late, repeated
  or misdirected release takes the lock from whoever uses it. `SendNeverBlocks`: the
  sends under `e.mu` always find room. `WaiterIsServed`: without loss and restart the
  request of a client that waits for a remote arbiter is in flight, queued behind a
  holder, or about to be served; that of a client that waits for its own arbiter is so
  too, unless it was granted in the window before its channel was there, which is the
  one way to be forgotten (section 7).
  `AcquireReturns`: with the lock or an error. `ImplementsLockTable`: each arbiter
  process is a lock of `LockTable`. A limit: a client draws at most two ids, so a
  second `Acquire` of the same client after two attempts is not in the run (the
  theorems have no such bound).
* **election_faults.** `Mixed` is a set of scenarios, each an initial state: all three
  nodes with a crash and a loss, with a crash and a late message, or with a false
  suspicion; nodes 1 and 2, the third being down and not yet noticed, with a crash
  and a restart, or with a suspicion and a loss; node 2 alone with a restart of
  another and a suspicion. Every property holds of all of them. Three nodes are the
  least with a chain (3 asks 1 and 2, 2 asks 1); three calls of `StartElection` per
  process let one overlap the timer of another and a third meet both. `SmallestRules`
  says only what can be promised: when ONE node crashes, no message is lost or late, and
  no OK is handled before the timer it is to stop was armed, all live nodes settle on
  the live node with the smallest id. Two crashes refute it
  (`election_vacant`), and with four nodes an early OK leaves a timer that makes a larger
  node the master for a while (section 7). `OnlyStaleTimersUsurp` says that this is
  the only way: with crashes alone, a timer makes a node the master over a smaller live
  one only if another call of the same node is going on. `ElectionEnds` and
  `RunningHasOwner` hold under every fault.
* **tickets_orderly.** One engineer makes every assignment a conflict; two attempts
  and two ticket ids per node, three rounds per node (raise two, close one). The
  budget is one each of a lock that is refused, a round without quorum, a query
  that times out, and a false suspicion. While `orderly` holds there is no double
  assignment, and when nothing is under way an engineer is unavailable exactly if
  a ticket of theirs is open. `RaisedIsStored`: whoever goes on to mark an engineer has
  the ticket in its own table, since its own handler ran first. `OperationsReturn`: every
  raise and every close ends, so each return path of `raiseTicket` gives the lock back. Both sucursales may raise and close; the engineer works at
  one of them, so one raises locally and one remotely.
* **consensus_faults.** Two attempts make votes of a round that is over arrive during
  the next one. Any two of the faults may coincide: a crash between two sends of a
  broadcast, a restart, a suspicion, a loss, a database error. `OnlyLastRoundCommits`
  is conditional on no database error, since `Propose` does retry a round whose local
  execution failed after the COMMIT was sent. `CommitArrives` is about the peers of
  the attempt, those believed alive when it began: the others are never told.
* **heartbeat_faults.** One peer suffices because nothing of two peers is shared but
  the state `alive`. Two slots are one ping that ends while the next begins; a tick
  waits until the goroutine of the tick before has looked at `inFlight` and until at
  most `MaxTransit` = 2 messages are on the way. `MaxMissed` is the code's 3, with three
  late answers, so that both a death by mistake and one that is just avoided happen.
* **distribution_overlap.** `Mixed` is again a set of scenarios: three devices at a
  time; two with a late answer and a failed round; two with a second master; one with a
  crash; two suspicions of nodes whose tickets are then reassigned while they are
  closed; one suspicion with a second master and a failed round. Three jobs are what
  makes `peak` reach 3 and two notices of one death overlap with a third. Two of the
  four engineers share a sucursal, so that both local and remote rows occur. The jobs
  are symmetric. `FairDistribution`: lists may be as old as the overlap allows, and the
  devices of two engineers differ by no more. `NoDeviceIsDropped`: one counter is enough
  for unique ids, whoever they are prefixed with. `CopiesAreNoticed`: retries and
  several masters make no more rows of a ticket than deaths were declared.
  `ClosedStaysClosed`: a reassignment that comes late is ignored where the row exists.
* **transport_faults.** Two goroutines on one pool let one dial while the other
  holds the old connection, fail on it and remove the new one; the third message is
  the menu's. `Room` is 1, so that a pump waits. `OneOfEach` gives one crash of the
  receiver and one cut. `LeaksAreFailures`: a live connection leaves the pool only if a
  send failed. `WrittenIsHandled` holds with a full channel, after a long line and
  after a crash.
* **startup_crashes.** Two crashes give three starts: one that seeds, one that is
  interrupted, and one that meets what is left. `MaxClock` 3 is above and below the ids of
  `SmallSeed` (1 and 2) and of two new rows. Five messages with a history of two, the
  fourth of them too long for the scanner, make a start discard what it read before the
  stop and a later message that no start will read. In the beginning the database is new
  or of the first schema, with the seed or without.
* **query_faults.** Two calls make answers meet the wrong, the closed and the missing
  collector. Two peers make the count of failures and the count of answers meet in
  each order. Peers are down from the start in some initial states.

The runs with a violation are described in section 7. The remaining runs need
`CHECK_DEADLOCK FALSE`, as all do, because the bounded number of operations and
faults lets every behaviour come to rest.

## 5. Fairness

The same reading of the code everywhere: a goroutine that can run eventually runs,
a timer expires, and a message that is not lost is eventually handled (each has its
own goroutine). Locks do not stand in the way: `Pool.get` dials while it holds `p.mu` and
`releaseLocal` sends while it holds `e.mu`, but the dial ends, if only with the timeout of
TCP, and the sends into channels never find them full (`SendNeverBlocks`). Faults, the operator's
decisions and database errors are never fair. In addition:

* `Mutex`: a critical section ends, because `raiseTicket` defers the release, and a
  wait ends by its timer if not by its grant.
* `Election`: the heartbeat notices who died and who is back (`Detect`, `MarkAlive`);
  `DeathIsNoticed` and `ReturnIsNoticed` of `Heartbeat` are where this comes from.
* `Tickets`: strong fairness on `Acquire`, because the arbiter's queue is FIFO: who
  waits while the lock becomes free again and again gets it.
* `Heartbeat`: the ticker ticks; `Miss` is fair, so that `pongWait` expires.
* `Distribution`: the heartbeat notices who is down, jobs run, a list stops waiting for
  a node that is down, and COMMITs are handled. `TicketsLeaveTheDead` is violated under
  all this, so that the tickets are forgotten by the code.
* `Transport`: the goroutines of both sides run. When a message is sent is free, and so
  are the faults and the restart of the receiver.
* `Startup` states safety only: nothing needs to start again.
* `Query`: only the call's own goroutine and its timer. Peers and the network owe
  nothing, and `CallsReturn` holds all the same.

## 6. What is proved

TLAPS proves the theorems below for all constants that satisfy the named
assumptions of the module: any sets of nodes, clients, peers and calls, any number
of attempts, ids, restarts and faults. The assumptions say only that bounds are
naturals, that the placeholders (`NoReq`, `NoLock`) are not values, and, where a
cardinality is taken, that the set is finite.

**Mutex** (`MutexProofs`): `Invariance`, `TypeCorrectness`, `Exclusion`, `HeldWhileInUse`,
`NoBlockedSend`, `Refinement`, `NobodyIsForgotten`. Exclusion is not inductive: it depends on requests
that are not yet granted. The inductive invariant `IInv` says that a request id
goes once through the stages drawn, in flight, queued, held with a permission
outstanding, released. `StageOrder` excludes two stages at a time, `TokenOnce` says
that the permission is in a message or in a channel or in use, `Addressed` that an
arbiter only deals with requests sent to this incarnation of it, `TokenIsHeld` that
while the permission is out the arbiter has it in `holder`. Since `holder` is one
value, two permissions of one arbiter are one, unless it has restarted since; that
case needs `OneTokenPerLock`, which survives the restart because a new process
gives out ids that were addressed to it alone. `Refinement` shows that each step is an
`Enter`, a `Leave` or a stutter of `LockTable`. `NobodyIsForgotten` has an invariant of
its own, `WInv`, whose steps use `IInv`: where anybody is queued there is a holder, since
`ReleaseAt` makes the first of the queue the holder; whoever waits has its channel
registered, so that a grant finds it; and, while nothing is lost, its request is in
flight, queued, granted or in the channel, because a step that takes it out of one of
these puts it into the next. A local client is followed from `LocalEnqueue` on: until it
has registered its channel its request is queued, or held by its own arbiter, and the
second is what `GrantedUnheard` leaves over when the grant to itself comes too early.

**Tickets** (`TicketsProofs`): `Invariance`, `TypeCorrectness`, `RaisesAreStored`,
`AssignmentsAreExclusive`, `AvailabilityIsTrue`. One part of the invariant holds whatever
is late or fails: the lock is held from the list to the end (`Locked`), what an operation
works on is an id it drew or a row that is there (`Targets`, `Numbered`), and a raise that
waits for its own INSERT has it stored or on its way (`Inserts`, `Awaited`). The other has
the premise `Safe`, prompt COMMITs and an orderly history. Two open tickets of one engineer
come from two raises, and the second one saw the engineer available. The lock puts its list
after the end of the first, and what the first left behind is one of four things for
each open ticket (`Marked`): the engineer is unavailable, the raise is not yet over, its
UPDATE is on the way, or a CLOSE is. The lock excludes the second and prompt COMMITs the
last two when a list is answered, so that nobody in `seen` has an open ticket (`Reserved`).
`Backed` is the converse, which `OrderlyAvailability` needs: whoever is unavailable has an
open ticket or a CLOSE on its way. `Closes` keeps both true while the COMMITs of a CLOSE
arrive one by one at the sucursal of the ticket and at that of the engineer. Nodes,
engineers, ids, rounds and faults are any number; the schedule `Prompt` is all that is
assumed.

**Election** (`ElectionProofs`): `Invariance`, `TypeCorrectness`, `RunningIsOwned`,
`UsurpersAreStale`. A step of a call keeps it pending or clears `running`, and whatever
stops a timer clears `running` of that node (`CallOwners`, `ClearingOwners`). The one
strengthening needed is `Unstarted`, that calls are numbered in order, so that the
goroutine a message spawns is never one that owns the flag. `UsurpersAreStale` has the
invariant `UInv`, which is about histories with crashes alone. `NobodyDoubted`: nobody
takes a live node for dead, so that a candidate asks every smaller live node. `AllAnswer`:
for each of them, the question or its answer is in the network, or the candidate has
stepped down, or another of its calls is pending. A timer fires only when the messages of
its call are gone, so what is left is the other call.

**Consensus** (`ConsensusProofs`): `Invariance`, `TypeCorrectness`, `Majority`, `Wakeup`,
`OneCommit`. `yes` is a counter and `accepted` a set, so that the proof is about
counting each node once: a PROPOSE is on its way only to a node that has not
accepted, a VOTE only from one that has (`AskedOnce`), and for the current round
`yes` plus the votes on their way is at most the number of nodes that accepted
(`Counted`). The lemmas are about the cardinality of the set of votes when one is
sent, counted or lost. That rounds of attempts to come have no messages (`Unborn`)
gives a new attempt a clean start.

**Heartbeat** (`HeartbeatProofs`): `Invariance`, `TypeCorrectness`, `PongFindsItsPing`,
`DeathsAreHandledOnce`, `DeathsAreEarned`. All rest on `OneAtATime`: of the goroutines of
a peer one is past the test of `inFlight`. Hence the registered channel is its own
from `Register` to `Forget` (`Registered`), and whatever `declareDead` has found of the
peer stays true until it acts (`Deaths`), although it reads the state anew each
time. `NoHastyDeath` needs `Accounted`: as long as nothing has crashed, the answer to
the ping that waits is in its channel, looked up, or on its way, or else a loss
has been counted for it; so a failed ping always adds to `trouble`, and `missed` is
at most `trouble`.

**Query** (`QueryProofs`): `Invariance`, `TypeCorrectness`, `DoneMeansDone`,
`NobodyWaitsInVain`. The invariant is what `expected` means: the number of peers that
were reached, plus, until `Adjust` has run, those still to be sent to and those that
failed (`Expects`). Each peer has at most one message of a call, and only while it
has not been counted (`OneAnswer`), so results are different peers and comparing two
numbers is comparing two sets. Type correctness includes that `expected` never
falls below zero.

**Distribution** (`DistributionProofs`): `Invariance`, `TypeCorrectness`, `DevicesAreSpread`,
`DevicesAreKept`, `CopiesNeedNotices`, `ClosedRowsStay`, for any nodes and engineers, any
finite set of jobs and any scenario. `Asked` says which message a job has in each stage.
Each of the first three properties has conjuncts of its own. Type correctness needs one of
them too: a count is a number only because the devices are finite in number (`Numbered`).

* `FairDistribution` is not inductive, since a job may decide on a count that others have
  made old. `Low(e, v)` is the jobs that may still give e a device on the strength of a
  count of at most v: those that have counted e so, and those whose INSERT for e is on its
  way. `Even` says that, for every v at or above the load of any f, the load of e and
  the size of `Low(e, v)` are together at most v + `peak`. A count joins `Low(e, v)` only if
  the load of e is at most v, and then the sum is bounded because `Low` is bounded by the
  number of jobs that place devices; a stored device takes its job out of `Low` and adds
  one to the load. That the job that stores is in `Low` for the v in question is `Listed`:
  with complete lists the count of the chosen engineer is the least of all, and no count
  was above the load of now.
* `NoDeviceIsDropped`: rows on their way from one node have different numbers, all up to its
  counter; if the same node drew those of every stored device, none of these has the
  number of a row on its way, and there are as many rows as stored devices (`Numbered`).
* `CopiesAreNoticed`: redistributions and notices not yet reacted to are at most
  `declared` (`Notices`). Each copy of a ticket, stored or on its way, is one ticket and one
  engineer that a redistribution has struck off its lists, so copies of a ticket are at
  most the redistributions that have it no longer (`Struck`).
* `ClosedStaysClosed` needs the types only: `Insert` keeps every row, and `CloseAt` changes
  only rows that are open.

**Transport** (`NodeProofs`): `Invariance`, `TypeCorrectness`, `LeaksAreRare`,
`Refinement`. A message is in one place, on the connection its sender got or in the
channel, and only after its `Send` reported success (`InOnePlace`); this makes each
step an `Accept`, a `Refuse`, a `Handle` or a stutter of `Network`. A connection that is
open and not in the pool was put outside by a `Forget`, which ends a failed send: the
connections `Outside` are counted against the `Failures`. That a new name is unused
until it is dialled is `HasConn`.

**Startup** (`NodeProofs`): `StartupInvariance`, `StartupTypeCorrectness`,
`SchemaFollowsVersion`, `SeedIsComplete`, `IdsAreFresh`, `HistorySurvives`, for any seed with a largest number (a file is finite), any clock and any
number of crashes. `Recorded` says that a statement which cannot be repeated has its
version, is about to get it, or lost it in the one window that `gap` names. `Whole`
follows from the order of the seed: without an engineer there is no row at all, so the
start that seeds begins with empty tables. `Ahead`, that the counter of a process that
works is not below any row, is what makes an id new. `History` is about the messages: they
stand in the file in the order in which they were saved (`FileInOrder`), whatever is cut
or glued between them, and in memory too (`EntriesInOrder`); while the file is read, the
entries are exactly the messages of the lines read so far (`Loading`), so nothing has to
be computed about the file as a whole. `HistoryIsTail` follows since both a start and a
`Save` discard from the front of an increasing list: what goes is older than all that
stays (the lemma `Trim`).

Each proof has one step per action and below it one step per conjunct that the
action can disturb.

Only model-checked: every liveness property, since TLAPS has no rules for ENABLED and
thus none for fairness. Each invariant and each action property of the runs is a theorem.
The modules with theorems use no RECURSIVE operator, because the SMT backend does not
accept them; induction over data is out of reach too, and no theorem needs it: what the
program computes in a loop over data (a list of rows, a file) is a sequence of steps of
the model, so that its invariant is an invariant of the specification.

## 7. Where the code differs from its comments

Each of these runs checks one property that a comment of the program states, and
TLC finds a behaviour of the code that violates it.

* `election_vacant`: the candidate that was answered waits for ever if the
  one who answered crashes; its master stays the dead node. `dispatcher.go:29`
  says that a new master is chosen when the current one fails.
* `tickets_double` (17 states, no fault): the lock is released when the COMMIT
  that marks the engineer has been sent, not when it has been applied, and the
  next holder reads the old row. `ticket_service.go:218` says that the lock
  avoids double assignment.
* `distribution_dead` (one crash): the list of tickets is asked of the peers believed
  alive, the tickets of the dead sucursal are in its own database, and nobody else
  has them; the redistribution finds nothing. `ticket_service.go:301` says that it
  reassigns the open tickets of a node that is down. Only a node that is suspected but
  runs, and is seen again in time, has its tickets reassigned.

Limits that the passing properties state as premises or in their scope. Those marked
with a star go against a comment too; TLC finds each of these on a small instance when the
property is stated without its limit, with the faults named and no other.

* (star) `acquireLocal` queues, unlocks, and registers its channel afterwards
  (`mutex.go:109`). A release in between finds no channel, takes the waiter for a remote one and
  sends LOCK_GRANT to the node itself, where `HandleLockGrant` drops it (line 238). The client
  waits until its timeout and `holder` stays set: without any fault, a local waiter is
  forgotten and the lock is never free again. Line 107 says that the client queues and waits
  to be granted. `WaiterIsServed` names this window, `GrantedUnheard`, as its only exception.
* A client whose wait for the lock expires does not withdraw its request
  (`mutex.go:119` and 191). The arbiter grants it in its turn and nobody releases it.
  `AcquireReturns` allows this, because the later calls return with an error;
  `WaiterIsServed` excludes it, since it is about waiters and not about holders who left.
* The lock is not handed over when the master changes: `ArbiterExclusion` is about one
  arbiter process, and two processes may each have a client inside.
* (star) An OK that is handled before the timer is armed clears `running` but stops nothing
  (`election.go:70`). A second election of the same node sets `running` again, and the timer
  of the first one declares victory over a smaller node that lives and has answered: one
  crash and four nodes are enough. `election.go:21` says that the smallest id wins.
  `SmallestRules` needs `NoStaleCall` for this, and `OnlyStaleTimersUsurp` says that there is
  no other way with crashes alone.
* The timer's function tests `running`, unlocks, and declares victory (`election.go:76`). A
  node that is answered in between wins all the same; by the time a timer expires its
  answers have been handled, unless one of them is late. `SmallestRules` is therefore
  about histories without late messages.
* (star) `CloseTicket` takes no lock and does not look whether the ticket is still open, and
  the commit handler frees the engineer in any case (`main.go:243`). Two operators list the
  same ticket; the first closes it, the engineer gets another, and the second close frees
  them once more, to be assigned a second time: no fault, every COMMIT applied at once.
  `ticket_service.go:218` says that the lock avoids double assignment. `orderly` excludes it.
* (star) When the round that marks the engineer finds no quorum, the failure is logged only
  (`ticket_service.go:281`) and the next raise chooses the same engineer. Line 222 has the mark
  as the last step of a raise. `orderly` excludes it.
* A ticket can be closed after it was inserted and before its engineer was marked; the
  mark then comes last and the engineer stays unavailable. `orderly` excludes it.
* (star) A redistribution proposes rows it has listed before (`ticket_service.go:350`). A node is
  suspected and seen again, its ticket is listed and then closed, and the master stores an
  open row of it in another sucursal, where the CLOSE has been already. Line 301 speaks of
  open tickets. `ClosedStaysClosed` is about one row, not about the ticket.
* (star) Two masters draw for the same sucursal from two counters. If these stand at the same
  value the second row is ignored without an error. `ticket_service.go:32` says that `newID`
  collides with no other node. `NoDeviceIsDropped` is about one node that draws.
* (star) Only a start that seeds raises the counter (`main.go:109`); a later one whose clock
  is below the stored ids, modulo eleven days, draws one of them again.
  `ticket_service.go:39` says that `SetMinIDCounter` keeps `newID` from ids that exist.
  `FreshIds` needs `~behind`, and says that there is no other way.
* A crash between two rows of the seed is never repaired (`SeedIsWhole` needs `~torn`;
  `seed.go:47` says as much), and one between ALTER TABLE and its version keeps the node from
  starting (`SchemaIsRecorded` needs `gap` for `fatal`).
* A database that fails at the proposer after COMMIT was sent makes `Propose` repeat the
  operation (`consensus.go:145`); a proposer that dies in the middle of the broadcast, or a
  peer that was suspected when the attempt began, leaves nodes with different tables.
  Nothing in the code or its comments says that they should agree.

## 8. What is not modelled

* `AddUsuario` and `AddIngeniero` beyond the id they draw (`AddRow` of `Startup`): each
  is one proposal and adds nothing to `Consensus`.
* The round UPDATE_TICKET_FOLIO, which writes a text no decision depends on.
* The width of ids: it takes 10^10 rows before a number reaches the prefix of its node.
* `CloseAll` of the pools and the shutdown of the hub: the process ends with them, which
  is `Crash`. The models do not duplicate messages, since TCP does not and the code
  never sends one again; `Network` says so and `Transport` implements it.
* `Latest` of the message history, configuration, logging, and the menus apart from
  their pool and the order of listing and closing: input and output without protocol
  state.
* Real time. `okTimeout`, `lockTimeout`, `voteTimeout`, `queryTimeout` and `pongWait`
  may expire whenever their wait is open, except where section 3 says
  otherwise (`Election`, `Heartbeat`), and there the exceptions are counted.
