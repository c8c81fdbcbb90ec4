------------------------------- MODULE Mutex -------------------------------
(***************************************************************************)
(* The distributed lock of internal/mutex/mutex.go.  Each node runs one    *)
(* Engine that plays two parts: client (Acquire and the release function   *)
(* it returns) and arbiter (holder and FIFO queue, used while other nodes  *)
(* believe this node is the master).  Messages are dispatched each in a    *)
(* goroutine of its own (pkg/hub/hub.go:105), so the network is a set and  *)
(* any message in it may be handled next.                                  *)
(*                                                                         *)
(* A request id (a UUID in the code) is the pair <<client, ordinal>>; the  *)
(* fromNode that the code carries beside the id is Client(id).  LOCK_DENY  *)
(* is not represented: its handler (mutex.go:245) is empty.                *)
(***************************************************************************)
EXTENDS Naturals, Sequences, FiniteSets

CONSTANTS
    Nodes,        \* the sucursales
    Clients,      \* the nodes whose operator raises tickets
    InitMaster,   \* cfg.MasterID: the master every process starts with
    NoReq,        \* the empty request id ""
    NoLock,       \* "not sent to any arbiter yet"
    MaxAttempts,  \* acquireMaxRetries
    MaxReqs,      \* bound: request ids a client may draw
    MaxBoot,      \* bound: restarts of each node
    MaxFaults     \* bound: wait timeouts, lost messages, changes of master

ASSUME ClientsAssumption == Clients \subseteq Nodes
ASSUME MasterAssumption == InitMaster \in Nodes
ASSUME AttemptsAssumption == MaxAttempts \in Nat \ {0}
ASSUME BoundsAssumption ==
    /\ MaxReqs \in Nat
    /\ MaxBoot \in [Nodes -> Nat]
    /\ MaxFaults \in [{"timeout", "loss", "master"} -> Nat]

Reqs == Clients \X (1..MaxReqs)
ASSUME NoReqAssumption == NoReq \notin Reqs

\* An arbiter is a process: a node and which of its incarnations.
Locks == UNION {{[node |-> n, boot |-> b] : b \in 0..MaxBoot[n]} : n \in Nodes}
ASSUME NoLockAssumption == NoLock \notin Locks

Client(r) == r[1]

Messages == [type : {"REQUEST", "GRANT", "RELEASE"}, to : Nodes, req : Reqs]

VARIABLES
    masterID,  \* State.masterID of each node
    holder,    \* Engine.holder
    queue,     \* Engine.queue, request ids in FIFO order
    grants,    \* keys of Engine.grants
    chan,      \* request ids whose (buffered) channel holds a value
    pc,        \* where the node's Acquire stands
    cur,       \* the id its current attempt uses
    attempt,   \* the loop counter of Acquire
    issued,    \* how many ids the node has drawn
    dest,      \* history: the arbiter process a request was addressed to
    boot,      \* incarnation of each node's process
    msgs,      \* messages in the network
    budget     \* what is left of MaxFaults

clientVars  == <<pc, cur, attempt, issued, dest>>
arbiterVars == <<holder, queue>>
chanVars    == <<grants, chan>>
envVars     == <<masterID, boot, budget>>
vars == <<clientVars, arbiterVars, chanVars, envVars, msgs>>

PCs == {"idle", "local", "enqueued", "waitLocal", "remote", "waitRemote",
        "csLocal", "csRemote", "retry"}

TypeOK ==
    /\ masterID \in [Nodes -> Nodes]
    /\ holder \in [Nodes -> Reqs \cup {NoReq}]
    /\ queue \in [Nodes -> Seq(Reqs)]
    /\ grants \in [Nodes -> SUBSET Reqs]
    /\ chan \in [Nodes -> SUBSET Reqs]
    /\ pc \in [Nodes -> PCs]
    /\ cur \in [Nodes -> Reqs \cup {NoReq}]
    /\ attempt \in [Nodes -> 0..MaxAttempts]
    /\ issued \in [Nodes -> 0..MaxReqs]
    /\ dest \in [Reqs -> Locks \cup {NoLock}]
    /\ boot \in [Nodes -> Nat] /\ \A n \in Nodes : boot[n] <= MaxBoot[n]
    /\ msgs \subseteq Messages
    /\ budget \in [{"timeout", "loss", "master"} -> Nat]

Init ==
    /\ masterID = [n \in Nodes |-> InitMaster]
    /\ holder = [n \in Nodes |-> NoReq]
    /\ queue = [n \in Nodes |-> <<>>]
    /\ grants = [n \in Nodes |-> {}]
    /\ chan = [n \in Nodes |-> {}]
    /\ pc = [n \in Nodes |-> "idle"]
    /\ cur = [n \in Nodes |-> NoReq]
    /\ attempt = [n \in Nodes |-> 0]
    /\ issued = [n \in Nodes |-> 0]
    /\ dest = [r \in Reqs |-> NoLock]
    /\ boot = [n \in Nodes |-> 0]
    /\ msgs = {}
    /\ budget = MaxFaults

Spend(kind) ==
    /\ budget[kind] > 0
    /\ budget' = [budget EXCEPT ![kind] = @ - 1]

Msg(type, to, r) == [type |-> type, to |-> to, req |-> r]

-----------------------------------------------------------------------------
(* The client: Acquire, its two branches, and the release function.        *)

\* acquire() tests IsMaster once; the branch it takes reads the state again.
Decide(n) == IF masterID[n] = n THEN "local" ELSE "remote"

Acquire(n) ==
    /\ pc[n] = "idle"
    /\ issued[n] + MaxAttempts <= MaxReqs
    /\ pc' = [pc EXCEPT ![n] = Decide(n)]
    /\ attempt' = [attempt EXCEPT ![n] = 1]
    /\ UNCHANGED <<cur, issued, dest, arbiterVars, chanVars, envVars, msgs>>

Retry(n) ==
    /\ pc[n] = "retry"
    /\ pc' = [pc EXCEPT ![n] = Decide(n)]
    /\ attempt' = [attempt EXCEPT ![n] = @ + 1]
    /\ UNCHANGED <<cur, issued, dest, arbiterVars, chanVars, envVars, msgs>>

\* The attempt failed: wait for the next one, or give up after the last.
Fail(n) ==
    /\ pc' = [pc EXCEPT ![n] = IF attempt[n] < MaxAttempts THEN "retry" ELSE "idle"]
    /\ cur' = [cur EXCEPT ![n] = NoReq]

NewReq(n) == <<n, issued[n] + 1>>

\* uuid.New(): a fresh id, addressed to the running process of node m.
Draw(n, m) ==
    /\ NewReq(n) \in Reqs
    /\ issued' = [issued EXCEPT ![n] = @ + 1]
    /\ dest' = [dest EXCEPT ![NewReq(n)] = [node |-> m, boot |-> boot[m]]]

\* Mutant: acquireLocal takes the lock without looking at holder.
LocalSeize(n) ==
    /\ pc[n] = "local"
    /\ Draw(n, n)
    /\ holder' = [holder EXCEPT ![n] = NewReq(n)]
    /\ pc' = [pc EXCEPT ![n] = "csLocal"]
    /\ cur' = [cur EXCEPT ![n] = NewReq(n)]
    /\ UNCHANGED <<attempt, queue, chanVars, envVars, msgs>>

LocalFree(n) ==
    /\ pc[n] = "local"
    /\ holder[n] = NoReq
    /\ Draw(n, n)
    /\ holder' = [holder EXCEPT ![n] = NewReq(n)]
    /\ pc' = [pc EXCEPT ![n] = "csLocal"]
    /\ cur' = [cur EXCEPT ![n] = NewReq(n)]
    /\ UNCHANGED <<attempt, queue, chanVars, envVars, msgs>>

\* The queue is extended and e.mu released before grants has the channel.
LocalEnqueue(n) ==
    /\ pc[n] = "local"
    /\ holder[n] # NoReq
    /\ Draw(n, n)
    /\ queue' = [queue EXCEPT ![n] = Append(@, NewReq(n))]
    /\ pc' = [pc EXCEPT ![n] = "enqueued"]
    /\ cur' = [cur EXCEPT ![n] = NewReq(n)]
    /\ UNCHANGED <<attempt, holder, chanVars, envVars, msgs>>

LocalRegister(n) ==
    /\ pc[n] = "enqueued"
    /\ grants' = [grants EXCEPT ![n] = @ \cup {cur[n]}]
    /\ pc' = [pc EXCEPT ![n] = "waitLocal"]
    /\ UNCHANGED <<cur, attempt, issued, dest, arbiterVars, chan, envVars, msgs>>

LocalGranted(n) ==
    /\ pc[n] = "waitLocal"
    /\ cur[n] \in chan[n]
    /\ chan' = [chan EXCEPT ![n] = @ \ {cur[n]}]
    /\ pc' = [pc EXCEPT ![n] = "csLocal"]
    /\ UNCHANGED <<cur, attempt, issued, dest, arbiterVars, grants, envVars, msgs>>

\* The queue entry and the channel stay behind.
LocalTimeout(n) ==
    /\ pc[n] = "waitLocal"
    /\ Spend("timeout")
    /\ Fail(n)
    /\ UNCHANGED <<attempt, issued, dest, arbiterVars, chanVars, masterID, boot, msgs>>

RemoteSend(n) ==
    /\ pc[n] = "remote"
    /\ Draw(n, masterID[n])
    /\ grants' = [grants EXCEPT ![n] = @ \cup {NewReq(n)}]
    /\ msgs' = msgs \cup {Msg("REQUEST", masterID[n], NewReq(n))}
    /\ pc' = [pc EXCEPT ![n] = "waitRemote"]
    /\ cur' = [cur EXCEPT ![n] = NewReq(n)]
    /\ UNCHANGED <<attempt, arbiterVars, chan, envVars>>

\* SendJSON returned an error: the channel is removed again.
RemoteSendError(n) ==
    /\ pc[n] = "remote"
    /\ Spend("loss")
    /\ Draw(n, masterID[n])
    /\ Fail(n)
    /\ UNCHANGED <<attempt, arbiterVars, chanVars, masterID, boot, msgs>>

\* The key of the channel stays in grants.
RemoteGranted(n) ==
    /\ pc[n] = "waitRemote"
    /\ cur[n] \in chan[n]
    /\ chan' = [chan EXCEPT ![n] = @ \ {cur[n]}]
    /\ pc' = [pc EXCEPT ![n] = "csRemote"]
    /\ UNCHANGED <<cur, attempt, issued, dest, arbiterVars, grants, envVars, msgs>>

\* Mutant: the select has no timer and ends with a grant only.
WaitForever(n) == pc[n] = "waitRemote" /\ FALSE

\* The arbiter is not told: the request stays where it is.
RemoteTimeout(n) ==
    /\ pc[n] = "waitRemote"
    /\ Spend("timeout")
    /\ Fail(n)
    /\ grants' = [grants EXCEPT ![n] = @ \ {cur[n]}]
    /\ UNCHANGED <<attempt, issued, dest, arbiterVars, chan, masterID, boot, msgs>>

-----------------------------------------------------------------------------
(* The arbiter.                                                            *)

\* Mutant: e.queue = e.queue[1:] is missing.
GrantWithoutPop(m, net) ==
    LET next == Head(queue[m]) IN
    /\ holder' = [holder EXCEPT ![m] = next]
    /\ \/ /\ next \in grants[m]
          /\ chan' = [chan EXCEPT ![m] = @ \cup {next}]
          /\ grants' = [grants EXCEPT ![m] = @ \ {next}]
          /\ msgs' = net
       \/ /\ next \notin grants[m]
          /\ msgs' = net \cup {Msg("GRANT", Client(next), next)}
          /\ UNCHANGED chanVars
    /\ UNCHANGED queue

\* The next request of m's queue takes the lock: through its channel when m
\* itself waits on it (the send would block, with e.mu held, on a full one),
\* else by a LOCK_GRANT to the node that asked.
GrantNext(m, net) ==
    LET next == Head(queue[m]) IN
    /\ holder' = [holder EXCEPT ![m] = next]
    /\ queue' = [queue EXCEPT ![m] = Tail(@)]
    /\ \/ /\ next \in grants[m]
          /\ next \notin chan[m]
          /\ chan' = [chan EXCEPT ![m] = @ \cup {next}]
          /\ grants' = [grants EXCEPT ![m] = @ \ {next}]
          /\ msgs' = net
       \/ /\ next \notin grants[m]
          /\ msgs' = net \cup {Msg("GRANT", Client(next), next)}
          /\ UNCHANGED chanVars

\* Mutant: whoever asks frees the lock; "e.holder != reqID" is not tested.
ReleaseAny(m, r, net) ==
    \/ /\ queue[m] = <<>>
       /\ holder' = [holder EXCEPT ![m] = NoReq]
       /\ msgs' = net
       /\ UNCHANGED <<queue, chanVars>>
    \/ /\ queue[m] # <<>>
       /\ GrantNext(m, net)

\* Mutant: the lock becomes free and the queue is not served.
ReleaseNoHandover(m, r, net) ==
    /\ holder' = [holder EXCEPT ![m] = IF @ = r THEN NoReq ELSE @]
    /\ msgs' = net
    /\ UNCHANGED <<queue, chanVars>>

\* releaseLocal(r) on node m; net is the network without what m consumed.
ReleaseAt(m, r, net) ==
    \/ /\ holder[m] # r
       /\ msgs' = net
       /\ UNCHANGED <<arbiterVars, chanVars>>
    \/ /\ holder[m] = r
       /\ queue[m] = <<>>
       /\ holder' = [holder EXCEPT ![m] = NoReq]
       /\ msgs' = net
       /\ UNCHANGED <<queue, chanVars>>
    \/ /\ holder[m] = r
       /\ queue[m] # <<>>
       /\ GrantNext(m, net)

Leave(n) ==
    /\ pc' = [pc EXCEPT ![n] = "idle"]
    /\ cur' = [cur EXCEPT ![n] = NoReq]

ExitLocal(n) ==
    /\ pc[n] = "csLocal"
    /\ ReleaseAt(n, cur[n], msgs)
    /\ Leave(n)
    /\ UNCHANGED <<attempt, issued, dest, envVars>>

\* The release is sent to the master of this moment, whoever granted the lock.
ExitRemote(n) ==
    /\ pc[n] = "csRemote"
    /\ msgs' = msgs \cup {Msg("RELEASE", masterID[n], cur[n])}
    /\ Leave(n)
    /\ UNCHANGED <<attempt, issued, dest, arbiterVars, chanVars, envVars>>

\* Mutant: every request is granted at once.
GrantAlways(m) == \E q \in msgs :
    /\ q.type = "REQUEST" /\ q.to = m
    /\ holder' = [holder EXCEPT ![m] = q.req]
    /\ msgs' = (msgs \ {q}) \cup {Msg("GRANT", Client(q.req), q.req)}
    /\ UNCHANGED <<queue, clientVars, chanVars, envVars>>

HandleLockRequest(m) == \E q \in msgs :
    /\ q.type = "REQUEST" /\ q.to = m
    /\ \/ /\ holder[m] = NoReq
          /\ holder' = [holder EXCEPT ![m] = q.req]
          /\ msgs' = (msgs \ {q}) \cup {Msg("GRANT", Client(q.req), q.req)}
          /\ UNCHANGED queue
       \/ /\ holder[m] # NoReq
          /\ queue' = [queue EXCEPT ![m] = Append(@, q.req)]
          /\ msgs' = msgs \ {q}
          /\ UNCHANGED holder
    /\ UNCHANGED <<clientVars, chanVars, envVars>>

HandleLockGrant(n) == \E g \in msgs :
    /\ g.type = "GRANT" /\ g.to = n
    /\ \/ /\ g.req \in grants[n]
          /\ g.req \notin chan[n]
          /\ chan' = [chan EXCEPT ![n] = @ \cup {g.req}]
       \/ /\ g.req \notin grants[n]
          /\ UNCHANGED chan
    /\ msgs' = msgs \ {g}
    /\ UNCHANGED <<clientVars, arbiterVars, grants, envVars>>

HandleLockRelease(m) == \E q \in msgs :
    /\ q.type = "RELEASE" /\ q.to = m
    /\ ReleaseAt(m, q.req, msgs \ {q})
    /\ UNCHANGED <<clientVars, envVars>>

-----------------------------------------------------------------------------
(* The environment: the network, the election, and process restarts.       *)

Lose == \E q \in msgs :
    /\ Spend("loss")
    /\ msgs' = msgs \ {q}
    /\ UNCHANGED <<clientVars, arbiterVars, chanVars, masterID, boot>>

\* internal/election calls SetMasterID on this node alone.
SetMasterID(n, m) ==
    /\ masterID[n] # m
    /\ Spend("master")
    /\ masterID' = [masterID EXCEPT ![n] = m]
    /\ UNCHANGED <<clientVars, arbiterVars, chanVars, boot, msgs>>

\* The process dies and is started again: memory and its connections are
\* gone, New() starts from the configured master.
Restart(n) ==
    /\ boot[n] < MaxBoot[n]
    /\ boot' = [boot EXCEPT ![n] = @ + 1]
    /\ masterID' = [masterID EXCEPT ![n] = InitMaster]
    /\ holder' = [holder EXCEPT ![n] = NoReq]
    /\ queue' = [queue EXCEPT ![n] = <<>>]
    /\ grants' = [grants EXCEPT ![n] = {}]
    /\ chan' = [chan EXCEPT ![n] = {}]
    /\ pc' = [pc EXCEPT ![n] = "idle"]
    /\ cur' = [cur EXCEPT ![n] = NoReq]
    /\ msgs' = {q \in msgs : q.to # n}
    /\ UNCHANGED <<attempt, issued, dest, budget>>

ClientStep(n) ==
    \/ Acquire(n) \/ Retry(n)
    \/ LocalFree(n) \/ LocalEnqueue(n) \/ LocalRegister(n)
    \/ LocalGranted(n) \/ LocalTimeout(n)
    \/ RemoteSend(n) \/ RemoteSendError(n)
    \/ RemoteGranted(n) \/ RemoteTimeout(n)
    \/ ExitLocal(n) \/ ExitRemote(n)

Handle(m) == HandleLockRequest(m) \/ HandleLockGrant(m) \/ HandleLockRelease(m)

Next ==
    \/ \E n \in Clients : ClientStep(n)
    \/ \E m \in Nodes : Handle(m) \/ Restart(m)
    \/ \E n, m \in Nodes : SetMasterID(n, m)
    \/ Lose

Spec == Init /\ [][Next]_vars

(***************************************************************************)
(* Fairness.  A goroutine that can run eventually runs, a message that is  *)
(* not lost is eventually handled (every one has a goroutine of its own),  *)
(* and a critical section ends: raiseTicket defers the release.  A wait    *)
(* always ends too, by its timer if not by the grant.  Faults and the      *)
(* operator's decision to raise a ticket are not fair.                     *)
(***************************************************************************)
Progress(n) ==
    \/ Retry(n)
    \/ LocalFree(n) \/ LocalEnqueue(n) \/ LocalRegister(n) \/ LocalGranted(n)
    \/ RemoteSend(n) \/ RemoteGranted(n)
    \/ ExitLocal(n) \/ ExitRemote(n)

Fairness ==
    /\ \A n \in Clients : WF_vars(Progress(n))
    /\ \A n \in Clients : WF_vars(LocalTimeout(n)) /\ WF_vars(RemoteTimeout(n))
    /\ \A m \in Nodes : /\ WF_vars(HandleLockRequest(m))
                        /\ WF_vars(HandleLockGrant(m))
                        /\ WF_vars(HandleLockRelease(m))

FairSpec == Spec /\ Fairness

-----------------------------------------------------------------------------
(* Properties.                                                             *)

InCS(n) == pc[n] \in {"csLocal", "csRemote"}

Elements(s) == {s[i] : i \in 1..Len(s)}

Distinct(s) == \A i, j \in 1..Len(s) : s[i] = s[j] => i = j

Sent(type, r) == \E q \in msgs : q.type = type /\ q.req = r

\* The client of r is in the critical section, on the strength of r.
InUse(r) == InCS(Client(r)) /\ cur[Client(r)] = r

\* The permission to enter that r stands for is on its way, in the channel
\* of its client, or in use.
Token(r) ==
    \/ Sent("GRANT", r)
    \/ r \in chan[Client(r)]
    \/ InUse(r)

\* Two clients that hold the lock of one arbiter process are one client:
\* what Acquire and releaseLocal promise, whatever is lost, expires or
\* restarts, and whoever each node believes to be the master.
ArbiterExclusion ==
    \A c, d \in Clients :
        InCS(c) /\ InCS(d) /\ dest[cur[c]] = dest[cur[d]] => c = d

\* While a permission of the running arbiter is outstanding, that arbiter
\* has its id in holder: no release (late, repeated or meant for another
\* arbiter) frees the lock under the client that holds it.
TokenIsHeld ==
    \A r \in Reqs :
        Token(r) /\ dest[r].boot = boot[dest[r].node] => holder[dest[r].node] = r

\* releaseLocal sends on a channel while it holds e.mu (mutex.go:139), and
\* so does a handler goroutine (mutex.go:241): the one-slot buffer has room
\* whenever they do, so that neither blocks and the Engine never wedges.
SendNeverBlocks ==
    \A r \in Reqs : r \in chan[Client(r)] =>
        /\ ~Sent("GRANT", r)
        /\ \A m \in Nodes : r \notin Elements(queue[m])

\* Each arbiter process behaves as one lock of a LockTable: whoever is in the
\* critical section owns the lock of the process that granted it.
owners == [l \in Locks |-> {c \in Clients : InCS(c) /\ dest[cur[c]] = l}]

LT == INSTANCE LockTable WITH Locks <- Locks, Clients <- Clients, owners <- owners

ImplementsLockTable == LT!Spec

\* Acquire returns, with the lock or with an error: no client waits forever,
\* whatever is lost or restarted.
AcquireReturns ==
    \A n \in Clients : pc[n] \notin {"idle", "csLocal", "csRemote"}
                       ~> pc[n] \in {"idle", "csLocal", "csRemote"}

\* No message has been lost and no process has restarted.
Calm == budget["loss"] = MaxFaults["loss"] /\ \A m \in Nodes : boot[m] = 0

\* Somebody still works for the request r: it is on its way to an arbiter, in
\* the queue of one who has a holder to wait for, or permitted.
Served(r) ==
    \/ Sent("REQUEST", r)
    \/ Token(r)
    \/ \E m \in Nodes : r \in Elements(queue[m]) /\ holder[m] # NoReq

\* The arbiter made r the holder while its client, on the same node, had not
\* yet registered its channel: the LOCK_GRANT to itself found nobody.
GrantedUnheard(r) == holder[Client(r)] = r /\ r \in grants[Client(r)]

\* A client that waits is not forgotten, as long as no message is lost and no
\* process restarts, however many waits expire and masters change: its request
\* is served, or, if it is local, the one window of acquireLocal between the
\* queue and the channel (mutex.go:109-114) has swallowed its grant.
WaiterIsServed ==
    Calm =>
        /\ \A n \in Clients : pc[n] = "waitRemote" => Served(cur[n])
        /\ \A n \in Clients : pc[n] = "waitLocal" =>
                Served(cur[n]) \/ GrantedUnheard(cur[n])

-----------------------------------------------------------------------------
(***************************************************************************)
(* The inductive invariant.  A request id goes once through the stages     *)
(* drawn, in flight, queued, held with a permission outstanding, released; *)
(* StageOrder says that no two of them overlap.                            *)
(***************************************************************************)
Fresh(r) == r[2] > issued[Client(r)]

Queued(r) == \E m \in Nodes : r \in Elements(queue[m])

FreshIsUntouched == \A r \in Reqs : Fresh(r) =>
    /\ \A q \in msgs : q.req # r
    /\ ~Queued(r)
    /\ \A m \in Nodes : holder[m] # r /\ r \notin grants[m] /\ r \notin chan[m]
    /\ \A n \in Nodes : cur[n] # r

DrawnHasDest == \A r \in Reqs : ~Fresh(r) =>
    dest[r] \in Locks /\ dest[r].boot <= boot[dest[r].node]

OwnRequests == \A n \in Nodes :
    /\ cur[n] # NoReq => Client(cur[n]) = n
    /\ InCS(n) => cur[n] # NoReq
    /\ pc[n] \in {"enqueued", "waitLocal", "waitRemote"} => cur[n] # NoReq
    /\ pc[n] = "retry" => attempt[n] < MaxAttempts
    /\ \A r \in grants[n] \cup chan[n] : Client(r) = n

Addressed ==
    /\ \A q \in msgs :
        /\ q.type = "GRANT" => q.to = Client(q.req)
        /\ q.type = "REQUEST" => dest[q.req] = [node |-> q.to, boot |-> boot[q.to]]
    /\ \A m \in Nodes : \A r \in Elements(queue[m]) \cup {holder[m]} :
        r # NoReq => dest[r] = [node |-> m, boot |-> boot[m]]

QueuedOnce == \A m \in Nodes :
    /\ Distinct(queue[m])
    /\ holder[m] \notin Elements(queue[m])

StageOrder == \A r \in Reqs :
    /\ Sent("REQUEST", r) =>
        /\ ~Queued(r) /\ ~Token(r) /\ ~Sent("RELEASE", r)
        /\ \A m \in Nodes : holder[m] # r
    /\ Queued(r) => ~Token(r) /\ ~Sent("RELEASE", r)
    /\ Sent("RELEASE", r) => ~Token(r)

\* A permission takes one form at a time.
TokenOnce == \A r \in Reqs :
    /\ Sent("GRANT", r) => r \notin chan[Client(r)]
    /\ InUse(r) => ~Sent("GRANT", r) /\ r \notin chan[Client(r)]

OneTokenPerLock == \A r, s \in Reqs :
    Token(r) /\ Token(s) /\ dest[r] = dest[s] => r = s

IInv ==
    /\ TypeOK
    /\ FreshIsUntouched
    /\ DrawnHasDest
    /\ OwnRequests
    /\ Addressed
    /\ QueuedOnce
    /\ StageOrder
    /\ TokenOnce
    /\ TokenIsHeld
    /\ OneTokenPerLock

(***************************************************************************)
(* For WaiterIsServed: a queue is served by a holder, and whoever waits    *)
(* has its channel, so that a grant still to come will find it.            *)
(***************************************************************************)
QueueIsServed == \A m \in Nodes : queue[m] # <<>> => holder[m] # NoReq

Registered == \A n \in Clients :
    pc[n] \in {"waitLocal", "waitRemote"} => cur[n] \in grants[n] \cup chan[n]

OnItsWay(r) == Sent("REQUEST", r) \/ Sent("GRANT", r) \/ r \in chan[Client(r)] \/ Queued(r)

\* The arbiter on its own node knows a local client from the queue to the
\* grant, and nobody releases what is not granted yet.
KnownNextDoor == \A n \in Clients : pc[n] \in {"enqueued", "waitLocal"} =>
    /\ cur[n] \in Elements(queue[n]) \/ holder[n] = cur[n]
    /\ ~Sent("RELEASE", cur[n])

WInv ==
    /\ budget["loss"] <= MaxFaults["loss"]
    /\ QueueIsServed
    /\ Registered
    /\ KnownNextDoor
    /\ Calm => \A n \in Clients : pc[n] = "waitRemote" => OnItsWay(cur[n])
=============================================================================
