----------------------------- MODULE Heartbeat -----------------------------
(***************************************************************************)
(* The failure detector of internal/heartbeat/heartbeat.go: one Monitor    *)
(* and the peers it pings.  Every tick starts a goroutine pingOne for each *)
(* peer; a slot is the place of such a goroutine and of the channel it     *)
(* makes, free again when it returns.  PING and PONG carry no content, so  *)
(* only how many are on their way matters.                                 *)
(***************************************************************************)
EXTENDS Naturals, FiniteSets, FiniteSetsExt

CONSTANTS
    Peers,      \* State.Peers
    Self,       \* the monitor's own node
    Slots,      \* bound: goroutines pingOne of one peer at a time
    NoSlot,     \* no channel in pongChs
    MaxMissed,  \* maxMissed
    MaxTransit, \* bound: PINGs and PONGs of one peer on their way at a tick
    MaxFaults,  \* bound: how often each kind of fault happens
    MaxTotal    \* bound: how many faults happen in all

\* "late": pongWait expires although an answer is on its way; "master": a
\* COORDINATOR is handled.
Kinds == {"crash", "restart", "late", "loss", "master"}

ASSUME PeersAssumption == Self \notin Peers
ASSUME SlotsAssumption == NoSlot \notin Slots
ASSUME MissedAssumption == MaxMissed \in Nat \ {0}
ASSUME BoundsAssumption ==
    MaxTransit \in Nat /\ MaxFaults \in [Kinds -> Nat] /\ MaxTotal \in Nat

VARIABLES
    up,        \* the peers whose process runs
    alive,     \* State.alive of the monitor's node
    master,    \* State.masterID of the monitor's node
    stage,     \* where each goroutine stands
    inFlight,  \* Monitor.inFlight
    pongChs,   \* Monitor.pongChs: whose channel is registered
    full,      \* the channels (capacity 1) that hold a value
    refs,      \* the channels a HandlePong has looked up and not yet sent to
    missed,    \* Monitor.missed, counted up to MaxMissed
    reactions, \* history: what declareDead did since the peer was last alive
    trouble,   \* history: late and lost answers since the peer's last PONG
    pings,     \* PINGs on their way to each peer
    pongs,     \* PONGs on their way back
    budget     \* what is left of MaxFaults

pingVars  == <<stage, inFlight, pongChs, full, refs, missed>>
stateVars == <<alive, master, reactions, trouble>>
netVars   == <<pings, pongs>>
vars == <<pingVars, stateVars, netVars, up, budget>>

Stages == {"free", "start", "register", "send", "wait", "miss", "dying",
           "master", "role", "tell", "clean", "exit"}

\* StartElection; OnNodeDead, the monitor's node being master; NODE_DEAD.
Reactions == {"election", "redistribute", "notify"}

TypeOK ==
    /\ up \in SUBSET Peers
    /\ alive \in SUBSET Peers
    /\ master \in Peers \cup {Self}
    /\ stage \in [Peers -> [Slots -> Stages]]
    /\ inFlight \in SUBSET Peers
    /\ pongChs \in [Peers -> Slots \cup {NoSlot}]
    /\ full \in [Peers -> SUBSET Slots]
    /\ refs \in [Peers -> SUBSET Slots]
    /\ missed \in [Peers -> 0..MaxMissed]
    /\ reactions \in [Peers -> [Reactions -> Nat]]
    /\ trouble \in [Peers -> Nat]
    /\ pings \in [Peers -> Nat]
    /\ pongs \in [Peers -> Nat]
    /\ budget \in [Kinds -> Nat]

None == [kind \in Reactions |-> 0]

Init ==
    /\ up = Peers
    /\ alive = Peers
    /\ master \in Peers \cup {Self}
    /\ stage = [p \in Peers |-> [k \in Slots |-> "free"]]
    /\ inFlight = {}
    /\ pongChs = [p \in Peers |-> NoSlot]
    /\ full = [p \in Peers |-> {}]
    /\ refs = [p \in Peers |-> {}]
    /\ missed = [p \in Peers |-> 0]
    /\ reactions = [p \in Peers |-> None]
    /\ trouble = [p \in Peers |-> 0]
    /\ pings = [p \in Peers |-> 0]
    /\ pongs = [p \in Peers |-> 0]
    /\ budget = MaxFaults

WithinTotal == MapThenSumSet(LAMBDA k : MaxFaults[k] - budget[k], Kinds) < MaxTotal

Spend(kind) ==
    /\ budget[kind] > 0
    /\ WithinTotal
    /\ budget' = [budget EXCEPT ![kind] = @ - 1]

Go(p, k, from, to) ==
    /\ stage[p][k] = from
    /\ stage' = [stage EXCEPT ![p][k] = to]

-----------------------------------------------------------------------------
(* pingOne.                                                                *)

\* pingAll: "go m.pingOne(ctx, peer)".
Tick(p, k) ==
    /\ pings[p] + pongs[p] < MaxTransit
    /\ \A j \in Slots : stage[p][j] # "start"
    /\ Go(p, k, "free", "start")
    /\ UNCHANGED <<inFlight, pongChs, full, refs, missed, stateVars, netVars, up, budget>>

BeginPing(p, k) ==
    /\ p \notin inFlight
    /\ Go(p, k, "start", "register")
    /\ inFlight' = inFlight \cup {p}
    /\ UNCHANGED <<pongChs, full, refs, missed, stateVars, netVars, up, budget>>

SkipPing(p, k) ==
    /\ p \in inFlight
    /\ Go(p, k, "start", "free")
    /\ UNCHANGED <<inFlight, pongChs, full, refs, missed, stateVars, netVars, up, budget>>

\* A new channel: whoever still holds the slot's former one is forgotten.
Register(p, k) ==
    /\ Go(p, k, "register", "send")
    /\ pongChs' = [pongChs EXCEPT ![p] = k]
    /\ full' = [full EXCEPT ![p] = @ \ {k}]
    /\ refs' = [refs EXCEPT ![p] = @ \ {k}]
    /\ UNCHANGED <<inFlight, missed, stateVars, netVars, up, budget>>

\* Send fails, unnoticed, when the peer is down.
SendPing(p, k) ==
    /\ Go(p, k, "send", "wait")
    /\ pings' = IF p \in up THEN [pings EXCEPT ![p] = @ + 1] ELSE pings
    /\ UNCHANGED <<inFlight, pongChs, full, refs, missed, stateVars, pongs, up, budget>>

\* Mutant: the peer is marked alive and its count of failures is kept.
KeepMissed(p, k) ==
    /\ k \in full[p]
    /\ Go(p, k, "wait", "clean")
    /\ full' = [full EXCEPT ![p] = @ \ {k}]
    /\ alive' = alive \cup {p}
    /\ reactions' = [reactions EXCEPT ![p] = None]
    /\ trouble' = [trouble EXCEPT ![p] = 0]
    /\ UNCHANGED <<inFlight, pongChs, refs, missed, master, netVars, up, budget>>

\* Mutant: a PONG resets the count and leaves the peer dead.
StaysDead(p, k) ==
    /\ k \in full[p]
    /\ Go(p, k, "wait", "clean")
    /\ full' = [full EXCEPT ![p] = @ \ {k}]
    /\ missed' = [missed EXCEPT ![p] = 0]
    /\ UNCHANGED <<inFlight, pongChs, refs, stateVars, netVars, up, budget>>

Pong(p, k) ==
    /\ k \in full[p]
    /\ Go(p, k, "wait", "clean")
    /\ full' = [full EXCEPT ![p] = @ \ {k}]
    /\ missed' = [missed EXCEPT ![p] = 0]
    /\ alive' = alive \cup {p}
    /\ reactions' = [reactions EXCEPT ![p] = None]
    /\ trouble' = [trouble EXCEPT ![p] = 0]
    /\ UNCHANGED <<inFlight, pongChs, refs, master, netVars, up, budget>>

\* Something was late or lost on the way to p or back.
Trouble(p, kind) ==
    /\ Spend(kind)
    /\ trouble' = [trouble EXCEPT ![p] = @ + 1]

\* The answer to a ping of a running peer is on its way or there already.
Answered(p, k) ==
    k \in full[p] \/ (p \in up /\ (pings[p] + pongs[p] > 0 \/ refs[p] # {}))

Miss(p, k) ==
    /\ Go(p, k, "wait", IF missed[p] + 1 >= MaxMissed THEN "miss" ELSE "clean")
    /\ missed' = [missed EXCEPT ![p] = IF @ < MaxMissed THEN @ + 1 ELSE @]
    /\ IF Answered(p, k) THEN Trouble(p, "late") ELSE UNCHANGED <<trouble, budget>>
    /\ UNCHANGED <<inFlight, pongChs, full, refs, alive, master, reactions, netVars, up>>

\* pongChs is cleared before the deferred function clears inFlight.
Forget(p, k) ==
    /\ Go(p, k, "clean", "exit")
    /\ pongChs' = [pongChs EXCEPT ![p] = NoSlot]
    /\ UNCHANGED <<inFlight, full, refs, missed, stateVars, netVars, up, budget>>

\* Mutant: inFlight is never cleared.
ExitInFlight(p, k) ==
    /\ Go(p, k, "exit", "free")
    /\ UNCHANGED <<inFlight, pongChs, full, refs, missed, stateVars, netVars, up, budget>>

Exit(p, k) ==
    /\ Go(p, k, "exit", "free")
    /\ inFlight' = inFlight \ {p}
    /\ UNCHANGED <<pongChs, full, refs, missed, stateVars, netVars, up, budget>>

-----------------------------------------------------------------------------
(* declareDead, in the goroutine of pingOne.  It reads the state anew at   *)
(* every test.                                                             *)

\* Mutant: nothing tells a node that is dead already.
DieAgain(p, k) ==
    /\ Go(p, k, "miss", "dying")
    /\ UNCHANGED <<inFlight, pongChs, full, refs, missed, stateVars, netVars, up, budget>>

CheckAlive(p, k) ==
    /\ Go(p, k, "miss", IF p \in alive THEN "dying" ELSE "clean")
    /\ UNCHANGED <<inFlight, pongChs, full, refs, missed, stateVars, netVars, up, budget>>

MarkDead(p, k) ==
    /\ Go(p, k, "dying", "master")
    /\ alive' = alive \ {p}
    /\ UNCHANGED <<inFlight, pongChs, full, refs, missed, master, reactions, trouble, netVars, up, budget>>

\* Takes the reaction, if this is the place for it, or goes on.
React(p, k, from, here, kind, to) ==
    /\ Go(p, k, from, IF here THEN "clean" ELSE to)
    /\ reactions' = IF here THEN [reactions EXCEPT ![p][kind] = @ + 1] ELSE reactions
    /\ UNCHANGED <<inFlight, pongChs, full, refs, missed, alive, master, trouble, netVars, up, budget>>

MasterDied(p, k) == React(p, k, "master", p = master, "election", "role")
OnNodeDead(p, k) == React(p, k, "role", master = Self, "redistribute", "tell")
NotifyMaster(p, k) == React(p, k, "tell", TRUE, "notify", "clean")

-----------------------------------------------------------------------------
(* The handlers and the environment.                                       *)

HandlePing(p) ==
    /\ pings[p] > 0
    /\ pings' = [pings EXCEPT ![p] = @ - 1]
    /\ pongs' = [pongs EXCEPT ![p] = @ + 1]
    /\ UNCHANGED <<pingVars, stateVars, up, budget>>

\* HandlePong looks the channel up under the lock ...
LookUp(p) ==
    /\ pongs[p] > 0
    /\ pongs' = [pongs EXCEPT ![p] = @ - 1]
    /\ refs' = IF pongChs[p] = NoSlot THEN refs
               ELSE [refs EXCEPT ![p] = @ \cup {pongChs[p]}]
    /\ UNCHANGED <<stage, inFlight, pongChs, full, missed, stateVars, pings, up, budget>>

\* ... and sends to it afterwards, without blocking.
Deliver(p, k) ==
    /\ k \in refs[p]
    /\ refs' = [refs EXCEPT ![p] = @ \ {k}]
    /\ full' = [full EXCEPT ![p] = @ \cup {k}]
    /\ UNCHANGED <<stage, inFlight, pongChs, missed, stateVars, netVars, up, budget>>

\* COORDINATOR was handled, or this node won an election.
SetMasterID(m) ==
    /\ m # master
    /\ Spend("master")
    /\ master' = m
    /\ UNCHANGED <<pingVars, alive, reactions, trouble, netVars, up>>

Crash(p) ==
    /\ p \in up
    /\ Spend("crash")
    /\ up' = up \ {p}
    /\ pings' = [pings EXCEPT ![p] = 0]
    /\ UNCHANGED <<pingVars, stateVars, pongs>>

Restart(p) ==
    /\ p \in Peers \ up
    /\ Spend("restart")
    /\ up' = up \cup {p}
    /\ UNCHANGED <<pingVars, stateVars, netVars>>

LosePing(p) ==
    /\ pings[p] > 0
    /\ Trouble(p, "loss")
    /\ pings' = [pings EXCEPT ![p] = @ - 1]
    /\ UNCHANGED <<pingVars, alive, master, reactions, pongs, up>>

LosePong(p) ==
    /\ pongs[p] > 0
    /\ Trouble(p, "loss")
    /\ pongs' = [pongs EXCEPT ![p] = @ - 1]
    /\ UNCHANGED <<pingVars, alive, master, reactions, pings, up>>

declareDead(p, k) ==
    \/ CheckAlive(p, k) \/ MarkDead(p, k)
    \/ MasterDied(p, k) \/ OnNodeDead(p, k) \/ NotifyMaster(p, k)

\* Mutant: inFlight is cleared before pongChs.
ExitFirst(p, k) ==
    /\ \/ /\ Go(p, k, "clean", "exit")
          /\ inFlight' = inFlight \ {p} /\ UNCHANGED pongChs
       \/ /\ Go(p, k, "exit", "free")
          /\ pongChs' = [pongChs EXCEPT ![p] = NoSlot] /\ UNCHANGED inFlight
    /\ UNCHANGED <<full, refs, missed, stateVars, netVars, up, budget>>

pingOneExitFirst(p, k) ==
    \/ BeginPing(p, k) \/ SkipPing(p, k) \/ Register(p, k) \/ SendPing(p, k)
    \/ Pong(p, k) \/ ExitFirst(p, k) \/ declareDead(p, k)

pingOne(p, k) ==
    \/ BeginPing(p, k) \/ SkipPing(p, k) \/ Register(p, k) \/ SendPing(p, k)
    \/ Pong(p, k) \/ Forget(p, k) \/ Exit(p, k) \/ declareDead(p, k)

HandlePong(p) == LookUp(p) \/ \E k \in Slots : Deliver(p, k)

Next ==
    \/ \E p \in Peers :
        \/ \E k \in Slots : Tick(p, k) \/ pingOne(p, k) \/ Miss(p, k)
        \/ HandlePing(p) \/ HandlePong(p)
        \/ Crash(p) \/ Restart(p) \/ LosePing(p) \/ LosePong(p)
    \/ \E m \in Peers \cup {Self} : SetMasterID(m)

Spec == Init /\ [][Next]_vars

(***************************************************************************)
(* Fairness: the ticker ticks, goroutines run, pongWait expires, messages  *)
(* on their way are handled.  Faults are not fair.                         *)
(***************************************************************************)
Fairness ==
    \A p \in Peers :
        /\ WF_vars(\E k \in Slots : Tick(p, k))
        /\ \A k \in Slots : /\ WF_vars(pingOne(p, k))
                            /\ WF_vars(Miss(p, k))
                            /\ WF_vars(Deliver(p, k))
        /\ WF_vars(HandlePing(p)) /\ WF_vars(LookUp(p))

FairSpec == Spec /\ Fairness

-----------------------------------------------------------------------------
(* Properties.                                                             *)

\* While a ping waits, a PONG finds its channel, and no other: neither the end
\* of the ping before it nor a tick that comes too early takes it away.
ChannelOfCurrentPing ==
    \A p \in Peers, k \in Slots :
        stage[p][k] \in {"send", "wait"} => pongChs[p] = k

\* A death is acted on once: the peer must have answered again before another
\* election, redistribution or notice (heartbeat.go:146).
OneReactionPerDeath ==
    \A p \in Peers, kind \in Reactions :
        reactions[p][kind] > 0 =>
            /\ reactions[p][kind] = 1
            /\ \A other \in Reactions \ {kind} : reactions[p][other] = 0

NoCrash == budget["crash"] = MaxFaults["crash"]

\* heartbeat.go:26: a peer that runs all the time is not declared dead before
\* maxMissed of its answers in a row were late or lost; those before its last
\* PONG do not count.
NoHastyDeath ==
    \A p \in Peers : NoCrash /\ p \notin alive => trouble[p] >= MaxMissed

\* A peer that is down for good is declared dead for good, and declareDead has
\* acted on it, whatever PONGs of its last life still arrive.
DeathIsNoticed ==
    \A p \in Peers : <>[](p \notin up) => <>[](p \notin alive /\ reactions[p] # None)

\* A peer that is up for good is alive for good, once answers come in time.
ReturnIsNoticed == \A p \in Peers : <>[](p \in up) => <>[](p \in alive)

-----------------------------------------------------------------------------
(***************************************************************************)
(* The inductive invariant.  At most one ping of a peer is past the test   *)
(* of inFlight, and everything declareDead relies on is its doing.         *)
(***************************************************************************)
Active == Stages \ {"free", "start"}

OneAtATime == \A p \in Peers, k \in Slots : stage[p][k] \in Active =>
    /\ p \in inFlight
    /\ \A j \in Slots : stage[p][j] \in Active => j = k

Registered == \A p \in Peers, k \in Slots :
    stage[p][k] \in Active \ {"register", "exit"} => pongChs[p] = k

\* A peer is taken for dead by the ping that has counted to MaxMissed, and
\* nothing was done about it before.
Deaths == \A p \in Peers :
    /\ p \in alive => reactions[p] = None
    /\ \A k \in Slots :
        /\ stage[p][k] \in {"miss", "dying"} => missed[p] = MaxMissed
        /\ stage[p][k] \in {"dying", "master", "role", "tell"} => reactions[p] = None
        /\ stage[p][k] \in {"master", "role", "tell"} => p \notin alive

\* Every failed ping of a peer that runs is somebody's delay or loss: the answer
\* to the one that waits is there, on its way, or accounted for.
Accounted == NoCrash =>
    /\ up = Peers
    /\ \A p \in Peers :
        /\ trouble[p] >= missed[p]
        /\ \A k \in Slots : stage[p][k] = "wait" =>
            \/ k \in full[p] \/ k \in refs[p]
            \/ pings[p] + pongs[p] > 0
            \/ trouble[p] > missed[p]

IInv ==
    /\ TypeOK
    /\ \A kind \in Kinds : budget[kind] <= MaxFaults[kind]
    /\ OneAtATime
    /\ Registered
    /\ Deaths
    /\ OneReactionPerDeath
    /\ Accounted
    /\ NoHastyDeath
=============================================================================
