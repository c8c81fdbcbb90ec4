----------------------------- MODULE Consensus -----------------------------
(***************************************************************************)
(* The vote of internal/consensus/consensus.go.  A proposal is one call of *)
(* Propose on its Owner's node; each of its attempts is a round with an id *)
(* of its own, here the pair <<proposal, attempt>>.  A round is collected  *)
(* by goroutines that run the handlers while propose broadcasts, votes for *)
(* itself and waits.  Callers pass context.Background(), so ctx never ends *)
(* a call; VOTE_NO is never sent (HandlePropose always votes yes).         *)
(***************************************************************************)
EXTENDS Naturals, FiniteSets, FiniteSetsExt

CONSTANTS
    Nodes,        \* the sucursales
    Proposals,    \* calls of Propose
    Owner,        \* the node that makes each call
    MaxAttempts,  \* proposeMaxRetries
    MaxFaults,    \* bound: how often each kind of fault happens
    MaxTotal      \* bound: how many faults happen in all

\* "handler" is an error of the local database, met by the commit handler.
Kinds == {"crash", "restart", "suspect", "loss", "handler"}

ASSUME NodesAssumption == IsFiniteSet(Nodes)
ASSUME OwnerAssumption == Owner \in [Proposals -> Nodes]
ASSUME AttemptsAssumption == MaxAttempts \in Nat \ {0}
ASSUME BoundsAssumption == MaxFaults \in [Kinds -> Nat] /\ MaxTotal \in Nat

Callers == {Owner[p] : p \in Proposals}
Rounds == Proposals \X (1..MaxAttempts)

\* "peer" is the end of the message that is not the proposer.
Messages == [type : {"PROPOSE", "VOTE", "COMMIT"}, peer : Nodes, round : Rounds]

VARIABLES
    up,        \* the processes that run
    alive,     \* State.alive of each caller: nobody reads the others
    pc,        \* where each call of Propose stands
    attempt,   \* its loop counter
    peers,     \* the live peers its attempt took from the state
    todo,      \* the peers its current broadcast has still to reach
    open,      \* the calls whose round is in Engine.rounds
    yes,       \* round.yes
    done,      \* whether round.done (capacity 1) holds a value
    accepted,  \* history: who voted yes in each round
    applied,   \* the rounds whose operation each node's database has applied
    msgs,      \* messages in the network
    budget     \* what is left of MaxFaults

callVars  == <<pc, attempt, peers, todo>>
roundVars == <<open, yes, done>>
envVars   == <<up, alive, budget>>
vars == <<callVars, roundVars, envVars, accepted, applied, msgs>>

PCs == {"idle", "propose", "wait", "commit", "retry", "ok", "failed", "crashed"}
Returned == {"ok", "failed", "crashed"}

TypeOK ==
    /\ up \in SUBSET Nodes
    /\ alive \in [Callers -> SUBSET Nodes]
    /\ pc \in [Proposals -> PCs]
    /\ attempt \in [Proposals -> 0..MaxAttempts]
    /\ peers \in [Proposals -> SUBSET Nodes]
    /\ todo \in [Proposals -> SUBSET Nodes]
    /\ open \in SUBSET Proposals
    /\ yes \in [Proposals -> Nat]
    /\ done \in [Proposals -> BOOLEAN]
    /\ accepted \in [Rounds -> SUBSET Nodes]
    /\ applied \in [Nodes -> SUBSET Rounds]
    /\ msgs \in SUBSET Messages
    /\ budget \in [Kinds -> Nat]

Init ==
    /\ up = Nodes
    /\ alive = [n \in Callers |-> Nodes]
    /\ pc = [p \in Proposals |-> "idle"]
    /\ attempt = [p \in Proposals |-> 0]
    /\ peers = [p \in Proposals |-> {}]
    /\ todo = [p \in Proposals |-> {}]
    /\ open = {}
    /\ yes = [p \in Proposals |-> 0]
    /\ done = [p \in Proposals |-> FALSE]
    /\ accepted = [r \in Rounds |-> {}]
    /\ applied = [n \in Nodes |-> {}]
    /\ msgs = {}
    /\ budget = MaxFaults

WithinTotal == MapThenSumSet(LAMBDA k : MaxFaults[k] - budget[k], Kinds) < MaxTotal

Spend(kind) ==
    /\ budget[kind] > 0
    /\ WithinTotal
    /\ budget' = [budget EXCEPT ![kind] = @ - 1]

Msg(type, n, r) == [type |-> type, peer |-> n, round |-> r]
Proposer(r) == Owner[r[1]]
Target(q) == IF q.type = "VOTE" THEN Proposer(q.round) ELSE q.peer

\* A send to a process that is down fails at the dial; the error is logged.
Post(q, sent) == msgs' = IF Target(q) \in up THEN sent \cup {q} ELSE sent

Round(p) == <<p, attempt[p]>>
needed == Cardinality(Nodes) \div 2 + 1

-----------------------------------------------------------------------------
(* Propose.                                                                *)

\* Another attempt: the round is registered before anything is sent.
propose(p) ==
    /\ Owner[p] \in up
    /\ pc[p] \in {"idle", "retry"}
    /\ pc' = [pc EXCEPT ![p] = "propose"]
    /\ attempt' = [attempt EXCEPT ![p] = @ + 1]
    /\ peers' = [peers EXCEPT ![p] = alive[Owner[p]] \ {Owner[p]}]
    /\ todo' = [todo EXCEPT ![p] = alive[Owner[p]] \ {Owner[p]}]
    /\ open' = open \cup {p}
    /\ yes' = [yes EXCEPT ![p] = 0]
    /\ done' = [done EXCEPT ![p] = FALSE]
    /\ UNCHANGED <<envVars, accepted, applied, msgs>>

\* Broadcast sends to one peer after the other.
Broadcast(p, stage, type) == \E n \in todo[p] :
    /\ pc[p] = stage
    /\ todo' = [todo EXCEPT ![p] = @ \ {n}]
    /\ Post(Msg(type, n, Round(p)), msgs)
    /\ UNCHANGED <<pc, attempt, peers, roundVars, envVars, accepted, applied>>

SendPropose(p) == Broadcast(p, "propose", "PROPOSE")

\* Mutant: a COMMIT that cannot be sent to a peer fails the attempt.
SendCommitOrFail(p) == \E n \in todo[p] :
    /\ pc[p] = "commit"
    /\ todo' = [todo EXCEPT ![p] = @ \ {n}]
    /\ Post(Msg("COMMIT", n, Round(p)), msgs)
    /\ IF n \in up THEN UNCHANGED <<pc, open>>
       ELSE /\ pc' = [pc EXCEPT ![p] = IF attempt[p] < MaxAttempts THEN "retry" ELSE "failed"]
            /\ open' = open \ {p}
    /\ UNCHANGED <<attempt, peers, yes, done, envVars, accepted, applied>>

SendCommit(p) == Broadcast(p, "commit", "COMMIT")

\* Mutant: the own vote does not look whether it completes the quorum.
SelfVoteWaits(p) ==
    /\ pc[p] = "propose" /\ todo[p] = {}
    /\ yes' = [yes EXCEPT ![p] = @ + 1]
    /\ accepted' = [accepted EXCEPT ![Round(p)] = @ \cup {Owner[p]}]
    /\ pc' = [pc EXCEPT ![p] = "wait"]
    /\ UNCHANGED <<attempt, peers, todo, open, done, envVars, applied, msgs>>

\* The votes of peers may have been counted before the own one.
SelfVote(p) ==
    /\ pc[p] = "propose" /\ todo[p] = {}
    /\ yes' = [yes EXCEPT ![p] = @ + 1]
    /\ accepted' = [accepted EXCEPT ![Round(p)] = @ \cup {Owner[p]}]
    /\ IF yes[p] + 1 >= needed
       THEN /\ pc' = [pc EXCEPT ![p] = "commit"]
            /\ todo' = [todo EXCEPT ![p] = peers[p]]
       ELSE /\ pc' = [pc EXCEPT ![p] = "wait"]
            /\ UNCHANGED todo
    /\ UNCHANGED <<attempt, peers, open, done, envVars, applied, msgs>>

QuorumReached(p) ==
    /\ pc[p] = "wait" /\ done[p]
    /\ done' = [done EXCEPT ![p] = FALSE]
    /\ pc' = [pc EXCEPT ![p] = "commit"]
    /\ todo' = [todo EXCEPT ![p] = peers[p]]
    /\ UNCHANGED <<attempt, peers, open, yes, envVars, accepted, applied, msgs>>

\* propose returns an error: its deferred function deletes the round, and
\* Propose tries again or gives up.
AttemptFails(p) ==
    /\ pc' = [pc EXCEPT ![p] = IF attempt[p] < MaxAttempts THEN "retry" ELSE "failed"]
    /\ open' = open \ {p}

\* Mutant: the wait for the votes has no time limit.
WaitForever(p) == FALSE /\ UNCHANGED vars

\* The timer may win the select although a quorum is waiting in done.
VoteTimeout(p) ==
    /\ pc[p] = "wait"
    /\ AttemptFails(p)
    /\ UNCHANGED <<attempt, peers, todo, yes, done, envVars, accepted, applied, msgs>>

\* doCommit applies locally after the broadcast.
Apply(p) ==
    /\ pc[p] = "commit" /\ todo[p] = {}
    /\ applied' = [applied EXCEPT ![Owner[p]] = @ \cup {Round(p)}]
    /\ pc' = [pc EXCEPT ![p] = "ok"]
    /\ open' = open \ {p}
    /\ UNCHANGED <<attempt, peers, todo, yes, done, envVars, accepted, msgs>>

ApplyFails(p) ==
    /\ pc[p] = "commit" /\ todo[p] = {}
    /\ Spend("handler")
    /\ AttemptFails(p)
    /\ UNCHANGED <<attempt, peers, todo, yes, done, up, alive, accepted, applied, msgs>>

-----------------------------------------------------------------------------
(* The handlers.                                                           *)

\* Always a yes.
HandlePropose(n) == \E q \in msgs :
    /\ q.type = "PROPOSE" /\ q.peer = n
    /\ accepted' = [accepted EXCEPT ![q.round] = @ \cup {n}]
    /\ Post(Msg("VOTE", n, q.round), msgs \ {q})
    /\ UNCHANGED <<callVars, roundVars, envVars, applied>>

\* Mutant: rounds are found by their operation, not by their id.
VoteForAnyRound(p) == \E q \in msgs :
    /\ q.type = "VOTE" /\ q.round[1] = p
    /\ msgs' = msgs \ {q}
    /\ IF p \in open
       THEN /\ yes' = [yes EXCEPT ![p] = @ + 1]
            /\ done' = [done EXCEPT ![p] = @ \/ yes[p] + 1 >= needed]
       ELSE UNCHANGED <<yes, done>>
    /\ UNCHANGED <<callVars, open, envVars, accepted, applied>>

\* A vote for a round that is over is dropped; the send to done does not block.
HandleVote(p) == \E q \in msgs :
    /\ q.type = "VOTE" /\ q.round[1] = p
    /\ msgs' = msgs \ {q}
    /\ IF p \in open /\ q.round = Round(p)
       THEN /\ yes' = [yes EXCEPT ![p] = @ + 1]
            /\ done' = [done EXCEPT ![p] = @ \/ yes[p] + 1 >= needed]
       ELSE UNCHANGED <<yes, done>>
    /\ UNCHANGED <<callVars, open, envVars, accepted, applied>>

\* Mutant: a COMMIT of a round that the proposer has closed is dropped.
CommitOfOpenRound(n) == \E q \in msgs :
    /\ q.type = "COMMIT" /\ q.peer = n
    /\ msgs' = msgs \ {q}
    /\ applied' = IF q.round[1] \in open
                  THEN [applied EXCEPT ![n] = @ \cup {q.round}] ELSE applied
    /\ UNCHANGED <<callVars, roundVars, envVars, accepted>>

\* A COMMIT is applied whether or not the node has seen its PROPOSE.
HandleCommit(n) == \E q \in msgs :
    /\ q.type = "COMMIT" /\ q.peer = n
    /\ msgs' = msgs \ {q}
    /\ applied' = [applied EXCEPT ![n] = @ \cup {q.round}]
    /\ UNCHANGED <<callVars, roundVars, envVars, accepted>>

\* The handler's error is logged and the operation is missing on this node.
CommitFails(n) == \E q \in msgs :
    /\ q.type = "COMMIT" /\ q.peer = n
    /\ Spend("handler")
    /\ msgs' = msgs \ {q}
    /\ UNCHANGED <<callVars, roundVars, up, alive, accepted, applied>>

-----------------------------------------------------------------------------
(* The failure detector and the environment.                               *)

\* After three PINGs without answer: rightly, or because the PONGs were late.
MarkDead(n, m) ==
    /\ n \in up /\ m \in alive[n] \ {n}
    /\ alive' = [alive EXCEPT ![n] = @ \ {m}]
    /\ IF m \in up THEN Spend("suspect") ELSE UNCHANGED budget
    /\ UNCHANGED <<callVars, roundVars, up, accepted, applied, msgs>>

MarkAlive(n, m) ==
    /\ n \in up /\ m \in up \ alive[n]
    /\ alive' = [alive EXCEPT ![n] = @ \cup {m}]
    /\ UNCHANGED <<callVars, roundVars, up, budget, accepted, applied, msgs>>

\* The calls of the process end with it, between any two of their steps.
Crash(n) ==
    /\ n \in up
    /\ Spend("crash")
    /\ up' = up \ {n}
    /\ pc' = [p \in Proposals |->
                IF Owner[p] = n /\ pc[p] \notin {"idle"} \cup Returned
                THEN "crashed" ELSE pc[p]]
    /\ open' = {p \in open : Owner[p] # n}
    /\ msgs' = {q \in msgs : Target(q) # n}
    /\ UNCHANGED <<attempt, peers, todo, yes, done, alive, accepted, applied>>

Restart(n) ==
    /\ n \notin up
    /\ Spend("restart")
    /\ up' = up \cup {n}
    /\ alive' = [m \in Callers |-> IF m = n THEN Nodes ELSE alive[m]]
    /\ UNCHANGED <<callVars, roundVars, accepted, applied, msgs>>

Lose == \E q \in msgs :
    /\ Spend("loss")
    /\ msgs' = msgs \ {q}
    /\ UNCHANGED <<callVars, roundVars, up, alive, accepted, applied>>

\* The goroutine that runs Propose, but for its timer.
Propose(p) ==
    \/ propose(p) \/ SendPropose(p) \/ SelfVote(p)
    \/ QuorumReached(p) \/ SendCommit(p) \/ Apply(p)

Next ==
    \/ \E p \in Proposals : \/ Propose(p) \/ VoteTimeout(p) \/ ApplyFails(p)
                            \/ HandleVote(p)
    \/ \E n \in Nodes : \/ HandlePropose(n) \/ HandleCommit(n) \/ CommitFails(n)
                        \/ Crash(n) \/ Restart(n)
    \/ \E n \in Callers, m \in Nodes : MarkDead(n, m) \/ MarkAlive(n, m)
    \/ Lose

Spec == Init /\ [][Next]_vars

(***************************************************************************)
(* Fairness: goroutines run, the timer of a wait expires, and messages in  *)
(* the network are handled.  Faults are not fair.                          *)
(***************************************************************************)
Fairness ==
    /\ \A p \in Proposals :
        WF_vars(Propose(p)) /\ WF_vars(VoteTimeout(p)) /\ WF_vars(HandleVote(p))
    /\ \A n \in Nodes : WF_vars(HandlePropose(n)) /\ WF_vars(HandleCommit(n))

FairSpec == Spec /\ Fairness

-----------------------------------------------------------------------------
(* Properties.                                                             *)

\* The decision to commit a round has been made, or was in an earlier state.
Committed(r) ==
    \/ r[2] = attempt[r[1]] /\ pc[r[1]] = "commit"
    \/ \E q \in msgs : q.type = "COMMIT" /\ q.round = r
    \/ \E n \in Nodes : r \in applied[n]

\* dispatcher.go:24: a write is accepted by a majority of all nodes before
\* any node executes it; votes of an earlier attempt do not count.
MajorityAccepted ==
    \A r \in Rounds : Committed(r) => Cardinality(accepted[r]) >= needed

\* The quorum is never missed: when propose waits and the votes are there, the
\* value it waits for is in the channel, in whichever order its own vote and
\* those of the peers were counted (consensus.go:121 and 170).
NoLostWakeup ==
    \A p \in Proposals : pc[p] = "wait" /\ yes[p] >= needed => done[p]

\* Unless a database fails, Propose retries only rounds that nobody has been
\* told to execute: no operation is committed by two attempts, and none by a
\* call that returned an error.
OnlyLastRoundCommits ==
    budget["handler"] = MaxFaults["handler"] =>
        \A r \in Rounds : Committed(r) =>
            r = Round(r[1]) /\ pc[r[1]] \in {"commit", "ok", "crashed"}

\* Propose returns, whatever is lost and whoever crashes.
ProposeReturns == \A p \in Proposals : pc[p] = "propose" ~> pc[p] \in Returned

\* When Propose has returned nil, every peer that it believed alive and that
\* stays up executes the operation, unless messages are lost or databases fail.
CommitArrives ==
    \A n \in Nodes :
        [](n \in up /\ \A kind \in {"loss", "handler"} : budget[kind] = MaxFaults[kind])
            => \A p \in Proposals :
                (pc[p] = "ok" /\ n \in peers[p]) ~> (Round(p) \in applied[n])

-----------------------------------------------------------------------------
(***************************************************************************)
(* The inductive invariant.  A node's yes travels once: it is asked, it    *)
(* accepts, its vote is under way, its vote is counted.                    *)
(***************************************************************************)
Attempts == \A p \in Proposals :
    /\ pc[p] = "idle" <=> attempt[p] = 0
    /\ pc[p] = "retry" => attempt[p] < MaxAttempts

\* Rounds of attempts to come.
Unborn == \A r \in Rounds :
    r[2] > attempt[r[1]] => accepted[r] = {} /\ \A q \in msgs : q.round # r

AskedOnce ==
    /\ \A q \in msgs :
        /\ q.type = "PROPOSE" => q.peer \notin accepted[q.round] \cup {Proposer(q.round)}
        /\ q.type = "VOTE" => q.peer \in accepted[q.round]
    /\ \A p \in Proposals : pc[p] = "propose" =>
        /\ Owner[p] \notin accepted[Round(p)] \cup todo[p]
        /\ \A n \in todo[p] :
            n \notin accepted[Round(p)] /\ Msg("PROPOSE", n, Round(p)) \notin msgs

Votes(r) == {n \in Nodes : Msg("VOTE", n, r) \in msgs}

\* What propose has counted, and can still count, are different nodes' votes.
Counted == \A p \in Proposals :
    /\ attempt[p] > 0 =>
        yes[p] + Cardinality(Votes(Round(p))) <= Cardinality(accepted[Round(p)])
    /\ done[p] => yes[p] >= needed

IInv ==
    /\ TypeOK
    /\ \A kind \in Kinds : budget[kind] <= MaxFaults[kind]
    /\ Attempts
    /\ Unborn
    /\ AskedOnce
    /\ Counted
    /\ MajorityAccepted
    /\ NoLostWakeup
    /\ OnlyLastRoundCommits
=============================================================================
