------------------------------ MODULE Election ------------------------------
(***************************************************************************)
(* The inverted Bully algorithm of internal/election/election.go: the live *)
(* node with the smallest id becomes the master.  StartElection runs in a  *)
(* goroutine of its own each time it is called, and so does the function   *)
(* its timer runs; "call" k of a node is that goroutine with its timer.    *)
(*                                                                         *)
(* The views of who is alive come from internal/heartbeat, here reduced to *)
(* the moments when it changes a view: declareDead and MarkAlive.          *)
(***************************************************************************)
EXTENDS Naturals, FiniteSets

CONSTANTS
    Nodes,       \* node ids: a smaller id has a higher priority
    InitMaster,  \* cfg.MasterID
    MaxCalls,    \* bound: calls of StartElection in one process
    Scenarios    \* bound: which nodes are started and which faults may happen

\* "late": a message is slower than okTimeout, or than the heartbeat takes to
\* notice that its sender has died; "suspect": PONGs of a live node are.
Kinds == {"crash", "restart", "suspect", "loss", "late"}

ASSUME NodesAssumption == Nodes \subseteq Nat
ASSUME MasterAssumption == InitMaster \in Nodes
ASSUME BoundsAssumption ==
    MaxCalls \in Nat /\ Scenarios \subseteq [start : SUBSET Nodes, faults : [Kinds -> Nat]]

Calls == 1..MaxCalls

\* What a message is about: call seq of the process boot of a node; the
\* announcement at start-up has seq 0.
Messages == [type : {"ELECTION", "OK", "COORDINATOR"},
             from : Nodes, to : Nodes, boot : Nat, seq : 0..MaxCalls]

VARIABLES
    up,       \* the processes that run
    boot,     \* how often each node was restarted
    alive,    \* State.alive of each node: whom it believes to be alive
    master,   \* State.masterID
    running,  \* Engine.running
    okTimer,  \* Engine.okTimer: the call whose timer it is, 0 for nil
    stage,    \* how far each call of StartElection has come
    calls,    \* how many calls the process has made
    claim,    \* ClaimMastership is still to be called
    msgs,     \* messages in the network
    budget,   \* what is left of the scenario
    happened  \* history: the kinds of faults that have happened

engineVars == <<running, okTimer, stage, calls>>
stateVars  == <<alive, master>>
faultVars  == <<budget, happened>>
envVars    == <<up, boot, claim, faultVars>>
vars == <<engineVars, stateVars, envVars, msgs>>

\* "timer": the function waits for okTimeout; "victory": declareVictory is next.
Stages == {"unused", "start", "canvass", "arm", "timer", "victory", "done"}

TypeOK ==
    /\ up \in SUBSET Nodes
    /\ boot \in [Nodes -> Nat]
    /\ alive \in [Nodes -> SUBSET Nodes]
    /\ master \in [Nodes -> Nodes]
    /\ running \in [Nodes -> BOOLEAN]
    /\ okTimer \in [Nodes -> 0..MaxCalls]
    /\ stage \in [Nodes -> [Calls -> Stages]]
    /\ calls \in [Nodes -> 0..MaxCalls]
    /\ claim \in SUBSET Nodes
    /\ msgs \in SUBSET Messages
    /\ budget \in [Kinds -> Nat]
    /\ happened \in SUBSET Kinds

Init ==
    /\ \E s \in Scenarios : up = s.start /\ budget = s.faults
    /\ boot = [n \in Nodes |-> 0]
    /\ alive = [n \in Nodes |-> Nodes]
    /\ master = [n \in Nodes |-> InitMaster]
    /\ running = [n \in Nodes |-> FALSE]
    /\ okTimer = [n \in Nodes |-> 0]
    /\ stage = [n \in Nodes |-> [k \in Calls |-> "unused"]]
    /\ calls = [n \in Nodes |-> 0]
    /\ claim = {InitMaster} \cap up
    /\ msgs = {}
    /\ happened = {}

Spend(kind) ==
    /\ budget[kind] > 0
    /\ budget' = [budget EXCEPT ![kind] = @ - 1]
    /\ happened' = happened \cup {kind}

Msg(type, from, to, b, k) ==
    [type |-> type, from |-> from, to |-> to, boot |-> b, seq |-> k]

\* A message to a node that is down is not sent: the dial fails, and the
\* callers drop the error.
Post(ms) == msgs' = msgs \cup {q \in ms : q.to \in up}

\* COORDINATOR goes to Peers, alive or not.
Announce(n, k) ==
    /\ master' = [master EXCEPT ![n] = n]
    /\ Post({Msg("COORDINATOR", n, p, boot[n], k) : p \in Nodes \ {n}})

-----------------------------------------------------------------------------
(* StartElection.                                                          *)

\* "go e.StartElection()"
Spawn(n) ==
    /\ calls[n] < MaxCalls
    /\ calls' = [calls EXCEPT ![n] = @ + 1]
    /\ stage' = [stage EXCEPT ![n][calls[n] + 1] = "start"]

Advance(n, k, from, to) ==
    /\ stage[n][k] = from
    /\ stage' = [stage EXCEPT ![n][k] = to]

Begin(n, k) ==
    /\ ~running[n]
    /\ Advance(n, k, "start", "canvass")
    /\ running' = [running EXCEPT ![n] = TRUE]
    /\ UNCHANGED <<okTimer, calls, stateVars, envVars, msgs>>

AlreadyRunning(n, k) ==
    /\ running[n]
    /\ Advance(n, k, "start", "done")
    /\ UNCHANGED <<running, okTimer, calls, stateVars, envVars, msgs>>

lowerNodes(n) == {p \in alive[n] \ {n} : p < n}

NobodyLower(n, k) ==
    /\ lowerNodes(n) = {}
    /\ Advance(n, k, "canvass", "victory")
    /\ UNCHANGED <<running, okTimer, calls, stateVars, envVars, msgs>>

Canvass(n, k) ==
    /\ lowerNodes(n) # {}
    /\ Advance(n, k, "canvass", "arm")
    /\ Post({Msg("ELECTION", n, p, boot[n], k) : p \in lowerNodes(n)})
    /\ UNCHANGED <<running, okTimer, calls, stateVars, envVars>>

\* The timer that okTimer held before is neither stopped nor waited for.
ArmTimer(n, k) ==
    /\ Advance(n, k, "arm", "timer")
    /\ okTimer' = [okTimer EXCEPT ![n] = k]
    /\ UNCHANGED <<running, calls, stateVars, envVars, msgs>>

\* okTimeout, unless a message is late, leaves time for everyone who was asked
\* before the timer was armed to answer, and for the answers to be handled.
Expired(n, k) ==
    IF \E q \in msgs : /\ q.seq <= k
                       /\ \/ q.type = "ELECTION" /\ q.from = n /\ q.boot = boot[n]
                          \/ q.type = "OK" /\ q.to = n
    THEN Spend("late") ELSE UNCHANGED faultVars

\* Mutant: the timer's function tests "running" where the code tests "!running".
TimerInverted(n, k) ==
    /\ Expired(n, k)
    /\ Advance(n, k, "timer", IF running[n] THEN "done" ELSE "victory")
    /\ UNCHANGED <<running, okTimer, calls, stateVars, up, boot, claim, msgs>>

\* The timer's function looks at running, then unlocks e.mu; declareVictory
\* locks it again.
TimerFires(n, k) ==
    /\ Expired(n, k)
    /\ Advance(n, k, "timer", IF running[n] THEN "victory" ELSE "done")
    /\ UNCHANGED <<running, okTimer, calls, stateVars, up, boot, claim, msgs>>

\* okTimer.Stop(): of no effect on a function that already runs.
StopTimer(n, st) ==
    [st EXCEPT ![n] = [j \in Calls |->
        IF j = okTimer[n] /\ st[n][j] = "timer" THEN "done" ELSE st[n][j]]]

\* Mutant: declareVictory leaves running set.
VictoryKeepsRunning(n, k) ==
    /\ stage[n][k] = "victory"
    /\ stage' = StopTimer(n, [stage EXCEPT ![n][k] = "done"])
    /\ Announce(n, k)
    /\ UNCHANGED <<running, okTimer, calls, alive, envVars>>

declareVictory(n, k) ==
    /\ stage[n][k] = "victory"
    /\ running' = [running EXCEPT ![n] = FALSE]
    /\ stage' = StopTimer(n, [stage EXCEPT ![n][k] = "done"])
    /\ Announce(n, k)
    /\ UNCHANGED <<okTimer, calls, alive, envVars>>

ClaimMastership(n) ==
    /\ n \in claim
    /\ claim' = claim \ {n}
    /\ Announce(n, 0)
    /\ UNCHANGED <<engineVars, alive, up, boot, faultVars>>

-----------------------------------------------------------------------------
(* The handlers.                                                           *)

HandleElection(n) == \E q \in msgs :
    /\ q.type = "ELECTION" /\ q.to = n
    /\ IF n >= q.from
       THEN /\ msgs' = msgs \ {q}
            /\ UNCHANGED <<calls, stage>>
       ELSE /\ msgs' = (msgs \ {q}) \cup
                       {r \in {Msg("OK", n, q.from, q.boot, q.seq)} : r.to \in up}
            /\ Spawn(n)
    /\ UNCHANGED <<running, okTimer, stateVars, envVars>>

\* Mutant: an OK changes nothing.
IgnoreOK(n) == \E q \in msgs :
    /\ q.type = "OK" /\ q.to = n
    /\ msgs' = msgs \ {q}
    /\ UNCHANGED <<running, stage, okTimer, calls, stateVars, envVars>>

\* Mutant: the timer is stopped, but running stays set.
OKOnlyStops(n) == \E q \in msgs :
    /\ q.type = "OK" /\ q.to = n
    /\ stage' = StopTimer(n, stage)
    /\ okTimer' = [okTimer EXCEPT ![n] = 0]
    /\ msgs' = msgs \ {q}
    /\ UNCHANGED <<running, calls, stateVars, envVars>>

HandleElectionOK(n) == \E q \in msgs :
    /\ q.type = "OK" /\ q.to = n
    /\ running' = [running EXCEPT ![n] = FALSE]
    /\ stage' = StopTimer(n, stage)
    /\ okTimer' = [okTimer EXCEPT ![n] = 0]
    /\ msgs' = msgs \ {q}
    /\ UNCHANGED <<calls, stateVars, envVars>>

\* Any announcement is believed, whoever sent it and whenever.
HandleCoordinator(n) == \E q \in msgs :
    /\ q.type = "COORDINATOR" /\ q.to = n
    /\ master' = [master EXCEPT ![n] = q.from]
    /\ msgs' = msgs \ {q}
    /\ UNCHANGED <<engineVars, alive, envVars>>

-----------------------------------------------------------------------------
(* The failure detector and the environment.                               *)

\* heartbeat's declareDead: only the death of the master starts an election.
declareDead(n, p) ==
    /\ p \in alive[n] \ {n}
    /\ alive' = [alive EXCEPT ![n] = @ \ {p}]
    /\ IF p = master[n] THEN Spawn(n) ELSE UNCHANGED <<calls, stage>>
    /\ UNCHANGED <<running, okTimer, master, up, boot, claim, msgs>>

\* Detection takes maxMissed intervals; what a node sent before it died has
\* arrived by then, wherever it went, unless it is late.
Detect(n, p) ==
    /\ n \in up /\ p \notin up
    /\ declareDead(n, p)
    /\ IF \E q \in msgs : q.from = p
       THEN Spend("late") ELSE UNCHANGED faultVars

\* Three PONGs came too late.
Suspect(n, p) == n \in up /\ p \in up /\ declareDead(n, p) /\ Spend("suspect")

MarkAlive(n, p) ==
    /\ n \in up /\ p \in up
    /\ p \notin alive[n]
    /\ alive' = [alive EXCEPT ![n] = @ \cup {p}]
    /\ UNCHANGED <<engineVars, master, envVars, msgs>>

Crash(n) ==
    /\ n \in up
    /\ Spend("crash")
    /\ up' = up \ {n}
    /\ claim' = claim \ {n}
    /\ running' = [running EXCEPT ![n] = FALSE]
    /\ okTimer' = [okTimer EXCEPT ![n] = 0]
    /\ stage' = [stage EXCEPT ![n] = [k \in Calls |-> "unused"]]
    /\ calls' = [calls EXCEPT ![n] = 0]
    /\ msgs' = {q \in msgs : q.to # n}
    /\ UNCHANGED <<boot, stateVars>>

\* A new process: everyone is alive and the configured node is the master.
Restart(n) ==
    /\ n \notin up
    /\ Spend("restart")
    /\ up' = up \cup {n}
    /\ boot' = [boot EXCEPT ![n] = @ + 1]
    /\ alive' = [alive EXCEPT ![n] = Nodes]
    /\ master' = [master EXCEPT ![n] = InitMaster]
    /\ claim' = IF n = InitMaster THEN claim \cup {n} ELSE claim
    /\ UNCHANGED <<engineVars, msgs>>

Lose == \E q \in msgs :
    /\ Spend("loss")
    /\ msgs' = msgs \ {q}
    /\ UNCHANGED <<engineVars, stateVars, up, boot, claim>>

StartElection(n) == \E k \in Calls :
    \/ Begin(n, k) \/ AlreadyRunning(n, k) \/ NobodyLower(n, k)
    \/ Canvass(n, k) \/ ArmTimer(n, k)

Elapse(n) == \E k \in Calls : TimerFires(n, k)

Win(n) == \E k \in Calls : declareVictory(n, k)

Handle(n) == HandleElection(n) \/ HandleElectionOK(n) \/ HandleCoordinator(n)

Next ==
    \/ \E n \in Nodes : \/ StartElection(n) \/ Elapse(n) \/ Win(n)
                        \/ ClaimMastership(n) \/ Handle(n)
                        \/ Crash(n) \/ Restart(n)
    \/ \E n, p \in Nodes : Detect(n, p) \/ Suspect(n, p) \/ MarkAlive(n, p)
    \/ Lose

Spec == Init /\ [][Next]_vars

(***************************************************************************)
(* Fairness: goroutines run, timers expire, delivered messages are handled *)
(* and the heartbeat notices who died and who is back.  Faults are not     *)
(* fair.                                                                   *)
(***************************************************************************)
Fairness ==
    /\ \A n \in Nodes :
        /\ WF_vars(StartElection(n)) /\ WF_vars(Elapse(n)) /\ WF_vars(Win(n))
        /\ WF_vars(ClaimMastership(n))
        /\ WF_vars(HandleElection(n)) /\ WF_vars(HandleElectionOK(n))
        /\ WF_vars(HandleCoordinator(n))
    /\ \A n, p \in Nodes : WF_vars(Detect(n, p)) /\ WF_vars(MarkAlive(n, p))

FairSpec == Spec /\ Fairness

-----------------------------------------------------------------------------
(* Properties.                                                             *)

\* A call that will still reach declareVictory or the test of running.
Pending(n, k) == stage[n][k] \in {"canvass", "arm", "timer", "victory"}

\* The running flag is never left behind: whenever it is set, a goroutine or
\* an armed timer of this process is still going to clear it.  A leaked flag
\* would make every later StartElection return at once (election.go:46).
RunningHasOwner == \A n \in Nodes : running[n] => \E k \in Calls : Pending(n, k)

\* Elections end, whatever is lost, delayed or crashes.
ElectionEnds == \A n \in Nodes : running[n] ~> ~running[n]

Smallest(S) == CHOOSE n \in S : \A m \in S : n <= m

AtMostOneDown == \A m, n \in Nodes \ up : m = n

\* No call goes on that its node has given up: no OK was handled before the
\* timer it should stop was armed.
NoStaleCall == \A n \in up, k \in Calls :
    stage[n][k] \in {"canvass", "arm", "timer"} => running[n]

\* When ONE node crashes, no message is lost or late, and every OK meets the
\* timer it is to stop, in the end every live node follows the live node with
\* the smallest id, whatever order the announcements are believed in.
SmallestRules ==
    [](happened \subseteq {"crash"} /\ AtMostOneDown /\ NoStaleCall)
        => <>[](\A n \in up : master[n] = Smallest(up))

\* A timer whose OK should have silenced it, but that still finds running set
\* (election.go:72), can only be the timer of a call of the past: another call
\* of the same node has set running again.  A node whose only election was
\* answered steps down for good.
OnlyStaleTimersUsurp ==
    [][happened' \subseteq {"crash"} =>
        \A n \in up, k \in Calls :
            stage[n][k] = "timer" /\ stage'[n][k] = "victory" /\ n # Smallest(up)
                => \E j \in Calls \ {k} : Pending(n, j)]_vars

\* dispatcher.go:29: when the master fails, another one is chosen.
MasterIsReplaced ==
    \A n \in Nodes : [](n \in up /\ master[n] \notin up => <>(n \notin up \/ master[n] \in up))

-----------------------------------------------------------------------------
(* The inductive invariant.                                                *)

\* Calls are numbered in the order in which they are made.
Unstarted == \A n \in Nodes, k \in Calls : k > calls[n] => stage[n][k] = "unused"

IInv == TypeOK /\ Unstarted /\ RunningHasOwner

(***************************************************************************)
(* For OnlyStaleTimersUsurp: nobody doubts a live node, so that whoever    *)
(* asks asks all of the smaller live ones, and what n asked m in its call  *)
(* k stays unanswered only while a message about it is in the network.     *)
(***************************************************************************)
NobodyDoubted == \A n \in up : up \subseteq alive[n]

AskedIn(n, m, k) == \E q \in msgs :
    /\ q.seq = k
    /\ \/ q.type = "ELECTION" /\ q.from = n /\ q.to = m /\ q.boot = boot[n]
       \/ q.type = "OK" /\ q.to = n

SteppedDown(n, k) == ~running[n] \/ \E j \in Calls \ {k} : Pending(n, j)

AllAnswer == \A n \in up, k \in Calls : stage[n][k] \in {"arm", "timer"} =>
    \A m \in up : m < n => AskedIn(n, m, k) \/ SteppedDown(n, k)

UInv == happened \subseteq {"crash"} => NobodyDoubted /\ AllAnswer
=============================================================================
