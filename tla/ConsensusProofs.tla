-------------------------- MODULE ConsensusProofs --------------------------
(***************************************************************************)
(* The theorems about Consensus, for any finite set of nodes, any calls of *)
(* Propose, any number of attempts and any number of faults.               *)
(***************************************************************************)
EXTENDS Consensus, FiniteSetTheorems, TLAPS

LEMMA Finite ==
    ASSUME NEW S \in SUBSET Nodes
    PROVE  IsFiniteSet(S) /\ Cardinality(S) \in Nat
BY NodesAssumption, FS_Subset, FS_CardinalityType

LEMMA Add ==
    ASSUME NEW S \in SUBSET Nodes, NEW n \in Nodes, n \notin S
    PROVE  Cardinality(S \cup {n}) = Cardinality(S) + 1
BY Finite, FS_AddElement

LEMMA Remove ==
    ASSUME NEW S \in SUBSET Nodes, NEW n \in S
    PROVE  Cardinality(S \ {n}) = Cardinality(S) - 1
BY Finite, FS_RemoveElement

LEMMA Fewer ==
    ASSUME NEW S \in SUBSET Nodes, NEW R \in SUBSET S
    PROVE  Cardinality(R) <= Cardinality(S)
BY Finite, FS_Subset

LEMMA Needed == needed \in Nat /\ needed > 0
<1>1. Cardinality(Nodes) \in Nat
  BY Finite
<1> QED
  BY <1>1 DEF needed

LEMMA RoundFacts ==
    \A r \in Rounds : /\ r[1] \in Proposals /\ r[2] \in 1..MaxAttempts
                      /\ r = <<r[1], r[2]>>
BY DEF Rounds

\* The round of the present attempt.
LEMMA RoundOf ==
    ASSUME TypeOK, NEW p \in Proposals, attempt[p] > 0
    PROVE  /\ Round(p) \in Rounds /\ Round(p)[1] = p /\ Round(p)[2] = attempt[p]
           /\ \A d \in Proposals : d # p => Round(d) # Round(p)
<1>1. attempt[p] \in 1..MaxAttempts
  BY AttemptsAssumption DEF TypeOK
<1> QED
  BY <1>1 DEF Round, Rounds

LEMMA SpendType ==
    ASSUME IInv, NEW kind \in Kinds, Spend(kind)
    PROVE  /\ budget' \in [Kinds -> Nat]
           /\ \A k \in Kinds : budget'[k] <= MaxFaults[k]
           /\ budget'[kind] < MaxFaults[kind]
<1>1. /\ budget \in [Kinds -> Nat] /\ budget[kind] > 0
      /\ budget' = [budget EXCEPT ![kind] = @ - 1]
      /\ \A k \in Kinds : budget[k] <= MaxFaults[k] /\ MaxFaults[k] \in Nat
  BY BoundsAssumption DEF IInv, TypeOK, Spend
<1> QED
  BY <1>1

LEMMA InitIInv == Init => IInv
<1> SUFFICES ASSUME Init PROVE IInv
  OBVIOUS
<1>1. TypeOK
  BY BoundsAssumption, OwnerAssumption, AttemptsAssumption DEF Init, TypeOK, PCs, Callers
<1>2. \A kind \in Kinds : budget[kind] <= MaxFaults[kind]
  BY BoundsAssumption DEF Init
<1>3. Attempts /\ Unborn /\ AskedOnce /\ Counted /\ NoLostWakeup
  BY DEF Init, Attempts, Unborn, AskedOnce, Counted, NoLostWakeup
<1>4. \A r \in Rounds : ~Committed(r)
  BY RoundFacts DEF Init, Committed
<1> QED
  BY <1>1, <1>2, <1>3, <1>4 DEF IInv, MajorityAccepted, OnlyLastRoundCommits

-----------------------------------------------------------------------------
(* What a step that commits nothing new, or only the present round, keeps. *)

LEMMA StillMajority ==
    ASSUME IInv, TypeOK',
           \A r \in Rounds : accepted[r] \subseteq accepted'[r],
           \A r \in Rounds : Committed(r)' =>
               Committed(r) \/ Cardinality(accepted'[r]) >= needed
    PROVE  MajorityAccepted'
<1> SUFFICES ASSUME NEW r \in Rounds, Committed(r) PROVE Cardinality(accepted'[r]) >= needed
  BY DEF MajorityAccepted
<1>1. accepted'[r] \in SUBSET Nodes /\ accepted[r] \in SUBSET accepted'[r]
  BY DEF TypeOK
<1>2. Cardinality(accepted[r]) >= needed
  BY DEF IInv, MajorityAccepted
<1>3. Cardinality(accepted[r]) <= Cardinality(accepted'[r])
  BY <1>1, Fewer
<1>4. Cardinality(accepted[r]) \in Nat /\ Cardinality(accepted'[r]) \in Nat
  BY <1>1, Finite
<1> QED
  BY <1>2, <1>3, <1>4, Needed

LEMMA StillLast ==
    ASSUME IInv, attempt' = attempt,
           budget' = budget \/ (/\ budget' \in [Kinds -> Nat]
                                /\ \E kind \in Kinds : Spend(kind)),
           \A r \in Rounds : Committed(r)' =>
               Committed(r) \/ (r = Round(r[1]) /\ pc'[r[1]] = "commit"),
           \A p \in Proposals : pc[p] \in {"commit", "ok", "crashed"}
               => pc'[p] \in {"commit", "ok", "crashed"}
    PROVE  OnlyLastRoundCommits'
<1>1. budget'["handler"] = MaxFaults["handler"] => budget["handler"] = MaxFaults["handler"]
  <2>1. budget["handler"] \in Nat /\ MaxFaults["handler"] \in Nat
        /\ budget["handler"] <= MaxFaults["handler"] /\ budget \in [Kinds -> Nat]
    BY BoundsAssumption DEF IInv, TypeOK, Kinds
  <2>2. ASSUME NEW kind \in Kinds, Spend(kind)
        PROVE  budget'["handler"] <= budget["handler"] /\ budget'["handler"] \in Nat
    BY <2>1, <2>2, SpendType DEF Spend, Kinds
  <2> QED
    BY <2>1, <2>2
<1> SUFFICES ASSUME budget["handler"] = MaxFaults["handler"],
                    NEW r \in Rounds, Committed(r)'
             PROVE  r = Round(r[1])' /\ pc'[r[1]] \in {"commit", "ok", "crashed"}
  BY <1>1 DEF OnlyLastRoundCommits
<1>2. Round(r[1])' = Round(r[1])
  BY DEF Round
<1>3. Committed(r) => r = Round(r[1]) /\ pc[r[1]] \in {"commit", "ok", "crashed"}
  BY DEF IInv, OnlyLastRoundCommits
<1> QED
  BY <1>2, <1>3, RoundFacts

\* Steps that ask nobody, count nothing and start no attempt.
LEMMA NarrowStep ==
    ASSUME IInv, TypeOK', \A kind \in Kinds : budget'[kind] <= MaxFaults[kind],
           UNCHANGED <<attempt, todo, yes, done, accepted>>,
           msgs' \subseteq msgs,
           \A p \in Proposals :
               \/ pc'[p] = pc[p]
               \/ pc'[p] = "retry" /\ pc[p] # "idle" /\ attempt[p] < MaxAttempts
               \/ pc'[p] \in {"ok", "failed", "crashed"} /\ pc[p] # "idle",
           \A r \in Rounds : Committed(r)' => Committed(r),
           OnlyLastRoundCommits'
    PROVE  IInv'
<1>1. Attempts'
  BY DEF IInv, Attempts
<1>2. Unborn'
  BY DEF IInv, Unborn
<1>3. AskedOnce'
  BY DEF IInv, AskedOnce, Round, Proposer
<1>4. Counted'
  <2> SUFFICES ASSUME NEW p \in Proposals, attempt[p] > 0
               PROVE  yes[p] + Cardinality(Votes(Round(p))')
                        <= Cardinality(accepted[Round(p)])
    BY DEF IInv, Counted, Round, Votes, needed
  <2>1. Votes(Round(p))' \in SUBSET Votes(Round(p)) /\ Votes(Round(p)) \in SUBSET Nodes
    BY DEF Votes, Round, Msg
  <2>2. Cardinality(Votes(Round(p))') <= Cardinality(Votes(Round(p)))
    BY <2>1, Fewer
  <2>3. /\ Cardinality(Votes(Round(p))') \in Nat /\ Cardinality(Votes(Round(p))) \in Nat
        /\ yes[p] \in Nat
    BY <2>1, Finite DEF IInv, TypeOK
  <2>4. /\ yes[p] + Cardinality(Votes(Round(p))) <= Cardinality(accepted[Round(p)])
        /\ Cardinality(accepted[Round(p)]) \in Nat
    BY RoundOf, Finite DEF IInv, Counted, TypeOK
  <2> QED
    BY <2>2, <2>3, <2>4
<1>5. MajorityAccepted'
  BY StillMajority
<1>6. NoLostWakeup'
  BY DEF IInv, NoLostWakeup, needed
<1> QED
  BY <1>1, <1>2, <1>3, <1>4, <1>5, <1>6 DEF IInv

-----------------------------------------------------------------------------
(* The steps of a call.                                                    *)

LEMMA ProposeIInv ==
    ASSUME IInv, NEW p \in Proposals, propose(p)
    PROVE  IInv'
<1> DEFINE others == alive[Owner[p]] \ {Owner[p]}
<1>1. /\ pc[p] \in {"idle", "retry"}
      /\ pc' = [pc EXCEPT ![p] = "propose"]
      /\ attempt' = [attempt EXCEPT ![p] = @ + 1]
      /\ todo' = [todo EXCEPT ![p] = others]
      /\ yes' = [yes EXCEPT ![p] = 0]
      /\ done' = [done EXCEPT ![p] = FALSE]
      /\ UNCHANGED <<up, alive, budget, accepted, applied, msgs>>
  BY DEF propose, envVars
<1>2. TypeOK /\ others \in SUBSET Nodes /\ Owner[p] \in Nodes
  BY OwnerAssumption DEF IInv, TypeOK, Callers
<1>3. attempt[p] + 1 \in 1..MaxAttempts
  BY <1>1, <1>2, AttemptsAssumption DEF IInv, TypeOK, Attempts
<1>4. TypeOK'
  <2>1. peers' \in [Proposals -> SUBSET Nodes] /\ open' \in SUBSET Proposals
    BY <1>2 DEF propose, TypeOK
  <2>2. todo' \in [Proposals -> SUBSET Nodes] /\ attempt' \in [Proposals -> 0..MaxAttempts]
    BY <1>1, <1>2, <1>3 DEF TypeOK
  <2>3. /\ pc' \in [Proposals -> PCs] /\ yes' \in [Proposals -> Nat]
        /\ done' \in [Proposals -> BOOLEAN]
    BY <1>1, <1>2 DEF TypeOK, PCs
  <2> QED
    BY <1>1, <1>2, <2>1, <2>2, <2>3 DEF TypeOK
<1>5. /\ attempt'[p] = attempt[p] + 1 /\ pc'[p] = "propose" /\ todo'[p] = others
      /\ yes'[p] = 0 /\ done'[p] = FALSE
      /\ \A d \in Proposals \ {p} :
          /\ attempt'[d] = attempt[d] /\ pc'[d] = pc[d] /\ todo'[d] = todo[d]
          /\ yes'[d] = yes[d] /\ done'[d] = done[d] /\ Round(d)' = Round(d)
  BY <1>1, <1>2 DEF TypeOK, Round
\* Nobody has heard of the new round.
<1>6. /\ Round(p)' \in Rounds /\ Round(p)'[1] = p /\ Round(p)'[2] > attempt[p]
      /\ accepted[Round(p)'] = {} /\ \A q \in msgs : q.round # Round(p)'
  <2>1. /\ Round(p)' \in Rounds /\ Round(p)'[1] = p /\ Round(p)'[2] > attempt[p]
    BY <1>2, <1>3, <1>5 DEF Round, Rounds, TypeOK
  <2> QED
    BY <2>1 DEF IInv, Unborn
<1>7. Attempts'
  BY <1>2, <1>3, <1>5 DEF IInv, Attempts
<1>8. Unborn'
  <2> SUFFICES ASSUME NEW r \in Rounds, r[2] > attempt'[r[1]]
               PROVE  r[2] > attempt[r[1]]
    BY <1>1 DEF IInv, Unborn
  <2>1. r[1] \in Proposals /\ r[2] \in Nat /\ attempt[p] \in Nat
    BY <1>2, RoundFacts DEF TypeOK
  <2> QED
    BY <1>5, <2>1
<1>9. AskedOnce'
  <2>1. \A q \in msgs : /\ q.type = "PROPOSE" => q.peer \notin accepted[q.round] \cup {Proposer(q.round)}
                        /\ q.type = "VOTE" => q.peer \in accepted[q.round]
    BY DEF IInv, AskedOnce
  <2>2. ASSUME NEW n \in Nodes PROVE Msg("PROPOSE", n, Round(p)') \notin msgs
    BY <1>6 DEF Msg
  <2>3. ASSUME NEW d \in Proposals, pc'[d] = "propose"
        PROVE  /\ Owner[d] \notin accepted[Round(d)'] \cup todo'[d]
               /\ \A n \in todo'[d] : /\ n \notin accepted[Round(d)']
                                      /\ Msg("PROPOSE", n, Round(d)') \notin msgs
    <3>1. CASE d = p
      BY <1>2, <1>5, <1>6, <2>2, <3>1
    <3>2. CASE d # p
      BY <1>5, <2>3, <3>2 DEF IInv, AskedOnce
    <3> QED
      BY <3>1, <3>2
  <2> QED
    BY <1>1, <2>1, <2>3 DEF AskedOnce, Proposer, Msg
<1>10. Counted'
  <2>1. ASSUME NEW d \in Proposals, d # p, attempt'[d] > 0
        PROVE  yes'[d] + Cardinality(Votes(Round(d))')
                 <= Cardinality(accepted'[Round(d)'])
    <3>1. Votes(Round(d))' = Votes(Round(d))
      BY <1>1, <1>5, <2>1 DEF Votes, Msg
    <3> QED
      BY <1>1, <1>5, <2>1, <3>1 DEF IInv, Counted
  <2>2. yes'[p] + Cardinality(Votes(Round(p))') <= Cardinality(accepted'[Round(p)'])
    <3>1. Votes(Round(p))' = {}
      BY <1>1, <1>6 DEF Votes, Msg
    <3> QED
      BY <1>1, <1>5, <1>6, <3>1, FS_EmptySet
  <2>3. \A d \in Proposals : done'[d] => yes'[d] >= needed
    BY <1>5 DEF IInv, Counted
  <2> QED
    BY <2>1, <2>2, <2>3 DEF Counted, needed
<1>11. ASSUME NEW r \in Rounds, Committed(r)' PROVE Committed(r)
  <2>1. ~(r[2] = attempt'[r[1]] /\ pc'[r[1]] = "commit") \/ Committed(r)
    BY <1>5, RoundFacts DEF Committed
  <2> QED
    BY <1>1, <1>11, <2>1 DEF Committed
<1>12. MajorityAccepted'
  BY <1>1, <1>4, <1>11, StillMajority
<1>13. NoLostWakeup'
  BY <1>5 DEF IInv, NoLostWakeup, needed
<1>14. OnlyLastRoundCommits'
  <2> SUFFICES ASSUME budget["handler"] = MaxFaults["handler"],
                      NEW r \in Rounds, Committed(r)'
               PROVE  r = Round(r[1])' /\ pc'[r[1]] \in {"commit", "ok", "crashed"}
    BY <1>1 DEF OnlyLastRoundCommits
  <2>1. r = Round(r[1]) /\ pc[r[1]] \in {"commit", "ok", "crashed"}
    BY <1>11 DEF IInv, OnlyLastRoundCommits
  <2> QED
    BY <1>1, <1>5, <2>1, RoundFacts
<1>15. \A kind \in Kinds : budget'[kind] <= MaxFaults[kind]
  BY <1>1 DEF IInv
<1> QED
  BY <1>4, <1>7, <1>8, <1>9, <1>10, <1>12, <1>13, <1>14, <1>15 DEF IInv

\* What a message of a broadcast can be.
LEMMA PostFacts ==
    ASSUME TypeOK, NEW p \in Proposals, NEW n \in todo[p],
           NEW type \in {"PROPOSE", "COMMIT"}, pc[p] # "idle",
           todo' = [todo EXCEPT ![p] = @ \ {n}],
           Post(Msg(type, n, Round(p)), msgs),
           UNCHANGED <<pc, attempt, peers, roundVars, envVars, accepted, applied>>,
           pc[p] = "idle" <=> attempt[p] = 0
    PROVE  /\ TypeOK'
           /\ n \in Nodes /\ Round(p) \in Rounds /\ Msg(type, n, Round(p)) \in Messages
           /\ msgs' = msgs \/ msgs' = msgs \cup {Msg(type, n, Round(p))}
           /\ \A r \in Rounds : Votes(r)' = Votes(r)
           /\ \A d \in Proposals : Round(d)' = Round(d)
<1>1. Round(p) \in Rounds
  BY RoundOf DEF TypeOK
<1>2. n \in Nodes /\ Msg(type, n, Round(p)) \in Messages
  BY <1>1 DEF TypeOK, Msg, Messages
<1>3. msgs' = msgs \/ msgs' = msgs \cup {Msg(type, n, Round(p))}
  BY DEF Post
<1>4. todo' \in [Proposals -> SUBSET Nodes]
  BY DEF TypeOK
<1>5. TypeOK'
  BY <1>2, <1>3, <1>4 DEF TypeOK, roundVars, envVars
<1>6. \A r \in Rounds : Votes(r)' = Votes(r)
  BY <1>3 DEF Votes, Msg
<1> QED
  BY <1>1, <1>2, <1>3, <1>5, <1>6 DEF Round

LEMMA SendProposeIInv ==
    ASSUME IInv, NEW p \in Proposals, SendPropose(p)
    PROVE  IInv'
<1>1. PICK n \in todo[p] :
        /\ pc[p] = "propose"
        /\ todo' = [todo EXCEPT ![p] = @ \ {n}]
        /\ Post(Msg("PROPOSE", n, Round(p)), msgs)
        /\ UNCHANGED <<pc, attempt, peers, roundVars, envVars, accepted, applied>>
  BY DEF SendPropose, Broadcast
<1>2. /\ TypeOK /\ (pc[p] = "idle" <=> attempt[p] = 0)
  BY DEF IInv, Attempts
<1> DEFINE q == Msg("PROPOSE", n, Round(p))
<1>3. /\ TypeOK'
      /\ n \in Nodes /\ Round(p) \in Rounds
      /\ msgs' = msgs \/ msgs' = msgs \cup {q}
      /\ \A r \in Rounds : Votes(r)' = Votes(r)
      /\ \A d \in Proposals : Round(d)' = Round(d)
  BY <1>1, <1>2, PostFacts
<1>4. /\ todo'[p] = todo[p] \ {n}
      /\ \A d \in Proposals \ {p} : todo'[d] = todo[d] /\ Round(d) # Round(p)
      /\ attempt[p] > 0 /\ Round(p)[1] = p /\ Round(p)[2] = attempt[p]
      /\ attempt[p] \in Nat
  <2>1. attempt[p] > 0
    BY <1>1, <1>2 DEF TypeOK
  <2> QED
    BY <1>1, <1>2, <2>1, RoundOf DEF TypeOK
<1>5. Attempts' /\ NoLostWakeup'
  BY <1>1 DEF IInv, Attempts, NoLostWakeup, roundVars, needed
<1>6. Unborn'
  <2>1. ASSUME NEW r \in Rounds, r[2] > attempt[r[1]] PROVE r # Round(p)
    BY <1>4, <2>1
  <2>2. q.round = Round(p)
    BY DEF Msg
  <2> QED
    BY <1>1, <1>3, <2>1, <2>2 DEF IInv, Unborn
<1>7. AskedOnce'
  <2>1. n \notin accepted[Round(p)] \cup {Proposer(Round(p))}
    BY <1>1, <1>4 DEF IInv, AskedOnce, Proposer
  <2>2. \A m \in msgs' : /\ m.type = "PROPOSE" => m.peer \notin accepted[m.round] \cup {Proposer(m.round)}
                         /\ m.type = "VOTE" => m.peer \in accepted[m.round]
    BY <1>3, <2>1 DEF IInv, AskedOnce, Msg
  <2>3. ASSUME NEW d \in Proposals, pc[d] = "propose"
        PROVE  /\ Owner[d] \notin accepted[Round(d)] \cup todo'[d]
               /\ \A m \in todo'[d] : /\ m \notin accepted[Round(d)]
                                      /\ Msg("PROPOSE", m, Round(d)) \notin msgs'
    <3>1. /\ Owner[d] \notin accepted[Round(d)] \cup todo[d]
          /\ \A m \in todo[d] : m \notin accepted[Round(d)] /\ Msg("PROPOSE", m, Round(d)) \notin msgs
      BY <2>3 DEF IInv, AskedOnce
    <3>2. todo'[d] \subseteq todo[d]
      BY <1>4
    <3>3. \A m \in todo'[d] : Msg("PROPOSE", m, Round(d)) # q
      BY <1>4 DEF Msg
    <3> QED
      BY <1>3, <3>1, <3>2, <3>3
  <2> QED
    BY <1>1, <1>3, <2>2, <2>3 DEF AskedOnce, Proposer, Msg
<1>8. Counted'
  <2>1. ASSUME NEW d \in Proposals, attempt[d] > 0
        PROVE  Votes(Round(d))' = Votes(Round(d))
    BY <1>2, <1>3, <2>1, RoundOf DEF Votes, Msg
  <2> QED
    BY <1>1, <1>3, <2>1 DEF IInv, Counted, roundVars, needed
<1>9. ASSUME NEW r \in Rounds, Committed(r)' PROVE Committed(r)
  BY <1>1, <1>3, <1>9 DEF Committed, Msg
<1>10. MajorityAccepted'
  BY <1>1, <1>3, <1>9, StillMajority
<1>11. OnlyLastRoundCommits'
  BY <1>1, <1>9, StillLast DEF envVars
<1> QED
  BY <1>1, <1>3, <1>5, <1>6, <1>7, <1>8, <1>10, <1>11 DEF IInv, envVars

LEMMA SendCommitIInv ==
    ASSUME IInv, NEW p \in Proposals, SendCommit(p)
    PROVE  IInv'
<1>1. PICK n \in todo[p] :
        /\ pc[p] = "commit"
        /\ todo' = [todo EXCEPT ![p] = @ \ {n}]
        /\ Post(Msg("COMMIT", n, Round(p)), msgs)
        /\ UNCHANGED <<pc, attempt, peers, roundVars, envVars, accepted, applied>>
  BY DEF SendCommit, Broadcast
<1>2. /\ TypeOK /\ (pc[p] = "idle" <=> attempt[p] = 0)
  BY DEF IInv, Attempts
<1> DEFINE q == Msg("COMMIT", n, Round(p))
<1>3. /\ TypeOK'
      /\ n \in Nodes /\ Round(p) \in Rounds
      /\ msgs' = msgs \/ msgs' = msgs \cup {q}
      /\ \A r \in Rounds : Votes(r)' = Votes(r)
      /\ \A d \in Proposals : Round(d)' = Round(d)
  BY <1>1, <1>2, PostFacts
<1>4. attempt[p] > 0 /\ Round(p)[1] = p /\ Round(p)[2] = attempt[p] /\ attempt[p] \in Nat
  <2>1. attempt[p] > 0
    BY <1>1, <1>2 DEF TypeOK
  <2> QED
    BY <1>1, <1>2, <2>1, RoundOf DEF TypeOK
<1>5. Attempts' /\ NoLostWakeup'
  BY <1>1 DEF IInv, Attempts, NoLostWakeup, roundVars, needed
<1>6. Unborn'
  <2>1. ASSUME NEW r \in Rounds, r[2] > attempt[r[1]] PROVE r # Round(p)
    BY <1>4, <2>1
  <2>2. q.round = Round(p)
    BY DEF Msg
  <2> QED
    BY <1>1, <1>3, <2>1, <2>2 DEF IInv, Unborn
<1>7. AskedOnce'
  <2>1. \A m \in msgs' : m.type # "COMMIT" => m \in msgs
    BY <1>3 DEF Msg
  <2>2. \A d \in Proposals \ {p} : todo'[d] = todo[d]
    BY <1>1, <1>2 DEF TypeOK
  <2>3. \A m \in msgs' : /\ m.type = "PROPOSE" => m.peer \notin accepted[m.round] \cup {Proposer(m.round)}
                         /\ m.type = "VOTE" => m.peer \in accepted[m.round]
    BY <2>1 DEF IInv, AskedOnce
  <2>4. ASSUME NEW d \in Proposals, pc[d] = "propose"
        PROVE  /\ Owner[d] \notin accepted[Round(d)] \cup todo'[d]
               /\ \A m \in todo'[d] : /\ m \notin accepted[Round(d)]
                                      /\ Msg("PROPOSE", m, Round(d)) \notin msgs'
    <3>1. d # p /\ todo'[d] = todo[d]
      BY <1>1, <2>2, <2>4
    <3>2. \A m \in Nodes : Msg("PROPOSE", m, Round(d)).type # "COMMIT"
      BY DEF Msg
    <3>3. todo[d] \subseteq Nodes
      BY <1>2 DEF TypeOK
    <3> QED
      BY <2>1, <2>4, <3>1, <3>2, <3>3 DEF IInv, AskedOnce
  <2> QED
    BY <1>1, <1>3, <2>3, <2>4 DEF AskedOnce, Proposer, Msg
<1>8. Counted'
  <2>1. ASSUME NEW d \in Proposals, attempt[d] > 0
        PROVE  Votes(Round(d))' = Votes(Round(d))
    BY <1>2, <1>3, <2>1, RoundOf DEF Votes, Msg
  <2> QED
    BY <1>1, <1>3, <2>1 DEF IInv, Counted, roundVars, needed
<1>9. ASSUME NEW r \in Rounds, Committed(r)' PROVE Committed(r)
  <2>1. Committed(Round(p))
    BY <1>1, <1>4 DEF Committed
  <2> QED
    BY <1>1, <1>3, <1>9, <2>1 DEF Committed, Msg
<1>10. MajorityAccepted'
  BY <1>1, <1>3, <1>9, StillMajority
<1>11. OnlyLastRoundCommits'
  BY <1>1, <1>9, StillLast DEF envVars
<1> QED
  BY <1>1, <1>3, <1>5, <1>6, <1>7, <1>8, <1>10, <1>11 DEF IInv, envVars

\* The call goes on to broadcast COMMIT.
LEMMA QuorumReachedIInv ==
    ASSUME IInv, NEW p \in Proposals, QuorumReached(p)
    PROVE  IInv'
<1>1. /\ pc[p] = "wait" /\ done[p]
      /\ done' = [done EXCEPT ![p] = FALSE]
      /\ pc' = [pc EXCEPT ![p] = "commit"]
      /\ todo' = [todo EXCEPT ![p] = peers[p]]
      /\ UNCHANGED <<attempt, peers, open, yes, up, alive, budget, accepted, applied, msgs>>
  BY DEF QuorumReached, envVars
<1>2. TypeOK /\ attempt[p] > 0
  BY <1>1 DEF IInv, TypeOK, Attempts
<1>3. TypeOK'
  BY <1>1, <1>2 DEF TypeOK, PCs
<1>4. /\ pc'[p] = "commit"
      /\ \A d \in Proposals \ {p} : pc'[d] = pc[d] /\ todo'[d] = todo[d] /\ done'[d] = done[d]
      /\ \A d \in Proposals : (done'[d] => done[d]) /\ Round(d)' = Round(d)
  BY <1>1, <1>2 DEF TypeOK, Round
<1>5. Attempts'
  BY <1>1, <1>2, <1>4 DEF IInv, Attempts
<1>6. Unborn'
  BY <1>1 DEF IInv, Unborn
<1>7. AskedOnce'
  <2>1. \A d \in Proposals : pc'[d] = "propose" => d # p /\ pc[d] = "propose"
    BY <1>4
  <2> QED
    BY <1>1, <1>4, <2>1 DEF IInv, AskedOnce, Proposer, Msg
<1>8. Counted'
  BY <1>1, <1>4 DEF IInv, Counted, Votes, Msg, needed
<1>9. ASSUME NEW r \in Rounds, Committed(r)', ~Committed(r)
      PROVE  r = Round(p) /\ r[1] = p
  BY <1>1, <1>4, <1>9, RoundFacts DEF Committed, Round
<1>10. Cardinality(accepted[Round(p)]) >= needed
  <2>1. /\ yes[p] + Cardinality(Votes(Round(p))) <= Cardinality(accepted[Round(p)])
        /\ yes[p] >= needed
    BY <1>1, <1>2 DEF IInv, Counted
  <2>2. /\ Votes(Round(p)) \in SUBSET Nodes /\ accepted[Round(p)] \in SUBSET Nodes
        /\ yes[p] \in Nat
    BY <1>2, RoundOf DEF Votes, TypeOK
  <2>3. Cardinality(Votes(Round(p))) \in Nat /\ Cardinality(accepted[Round(p)]) \in Nat
    BY <2>2, Finite
  <2> QED
    BY <2>1, <2>2, <2>3, Needed
<1>11. MajorityAccepted'
  BY <1>1, <1>3, <1>9, <1>10, StillMajority
<1>12. NoLostWakeup'
  BY <1>1, <1>4 DEF IInv, NoLostWakeup, needed
<1>13. OnlyLastRoundCommits'
  BY <1>1, <1>4, <1>9, StillLast
<1> QED
  BY <1>1, <1>3, <1>5, <1>6, <1>7, <1>8, <1>11, <1>12, <1>13 DEF IInv

LEMMA SelfVoteIInv ==
    ASSUME IInv, NEW p \in Proposals, SelfVote(p)
    PROVE  IInv'
<1>1. /\ pc[p] = "propose"
      /\ yes' = [yes EXCEPT ![p] = @ + 1]
      /\ accepted' = [accepted EXCEPT ![Round(p)] = @ \cup {Owner[p]}]
      /\ UNCHANGED <<attempt, peers, open, done, up, alive, budget, applied, msgs>>
  BY DEF SelfVote, envVars
<1>2. \/ /\ yes[p] + 1 >= needed /\ pc' = [pc EXCEPT ![p] = "commit"]
         /\ todo' = [todo EXCEPT ![p] = peers[p]]
      \/ /\ ~(yes[p] + 1 >= needed) /\ pc' = [pc EXCEPT ![p] = "wait"] /\ todo' = todo
  BY DEF SelfVote
<1>3. TypeOK /\ Owner[p] \in Nodes
  BY OwnerAssumption DEF IInv
<1>4. attempt[p] > 0 /\ yes[p] \in Nat
  BY <1>1, <1>3 DEF IInv, Attempts, TypeOK
<1>5. /\ Round(p) \in Rounds /\ Round(p)[1] = p /\ Round(p)[2] = attempt[p]
      /\ \A d \in Proposals \ {p} : Round(d) # Round(p)
      /\ attempt[p] \in Nat
  BY <1>3, <1>4, RoundOf DEF TypeOK
<1>6. /\ pc'[p] \in {"commit", "wait"} /\ yes'[p] = yes[p] + 1
      /\ \A d \in Proposals \ {p} : pc'[d] = pc[d] /\ todo'[d] = todo[d] /\ yes'[d] = yes[d]
      /\ \A d \in Proposals : Round(d)' = Round(d)
  BY <1>1, <1>2, <1>3 DEF TypeOK, Round
<1>7. /\ accepted'[Round(p)] = accepted[Round(p)] \cup {Owner[p]}
      /\ \A r \in Rounds : r # Round(p) => accepted'[r] = accepted[r]
      /\ Owner[p] \notin accepted[Round(p)]
      /\ accepted[Round(p)] \in SUBSET Nodes
  BY <1>1, <1>3, <1>5 DEF IInv, TypeOK, AskedOnce
<1>8. TypeOK'
  <2>1. accepted' \in [Rounds -> SUBSET Nodes]
    BY <1>1, <1>3, <1>5 DEF TypeOK
  <2>2. pc' \in [Proposals -> PCs] /\ todo' \in [Proposals -> SUBSET Nodes]
    BY <1>2, <1>3 DEF TypeOK, PCs
  <2>3. yes' \in [Proposals -> Nat]
    BY <1>1, <1>3, <1>4 DEF TypeOK
  <2> QED
    BY <1>1, <1>3, <2>1, <2>2, <2>3 DEF TypeOK
<1>9. Attempts'
  BY <1>1, <1>4, <1>5, <1>6 DEF IInv, Attempts
<1>10. Unborn'
  <2>1. ASSUME NEW r \in Rounds, r[2] > attempt[r[1]] PROVE r # Round(p)
    BY <1>5, <2>1
  <2> QED
    BY <1>1, <1>7, <2>1 DEF IInv, Unborn
<1>11. AskedOnce'
  <2>1. ASSUME NEW m \in msgs
        PROVE  /\ m.type = "PROPOSE" => m.peer \notin accepted'[m.round] \cup {Proposer(m.round)}
               /\ m.type = "VOTE" => m.peer \in accepted'[m.round]
    <3>1. m.round \in Rounds
      BY <1>3 DEF TypeOK, Messages
    <3>2. /\ m.type = "PROPOSE" => m.peer \notin accepted[m.round] \cup {Proposer(m.round)}
          /\ m.type = "VOTE" => m.peer \in accepted[m.round]
      BY DEF IInv, AskedOnce
    <3> QED
      BY <1>5, <1>7, <3>1, <3>2 DEF Proposer
  <2>2. ASSUME NEW d \in Proposals, pc'[d] = "propose"
        PROVE  d # p /\ pc[d] = "propose" /\ accepted'[Round(d)] = accepted[Round(d)]
    <3>1. d # p /\ pc[d] = "propose"
      BY <1>6, <2>2
    <3>2. attempt[d] > 0
      BY <1>3, <3>1 DEF IInv, Attempts, TypeOK
    <3>3. Round(d) \in Rounds
      BY <1>3, <3>2, RoundOf
    <3> QED
      BY <1>5, <1>7, <3>1, <3>3
  <2>3. ASSUME NEW d \in Proposals, pc'[d] = "propose"
        PROVE  /\ Owner[d] \notin accepted'[Round(d)] \cup todo'[d]
               /\ \A m \in todo'[d] : /\ m \notin accepted'[Round(d)]
                                      /\ Msg("PROPOSE", m, Round(d)) \notin msgs
    BY <1>6, <2>2, <2>3 DEF IInv, AskedOnce
  <2> QED
    BY <1>1, <1>6, <2>1, <2>3 DEF AskedOnce, Proposer, Msg
<1>12. /\ Cardinality(accepted'[Round(p)]) = Cardinality(accepted[Round(p)]) + 1
       /\ Cardinality(accepted[Round(p)]) \in Nat
       /\ Cardinality(Votes(Round(p))) \in Nat
       /\ yes[p] + Cardinality(Votes(Round(p))) <= Cardinality(accepted[Round(p)])
  <2>1. Votes(Round(p)) \in SUBSET Nodes
    BY DEF Votes
  <2> QED
    BY <1>3, <1>4, <1>7, <2>1, Add, Finite DEF IInv, Counted
<1>13. Counted'
  <2>2. ASSUME NEW d \in Proposals, d # p, attempt[d] > 0
        PROVE  yes'[d] + Cardinality(Votes(Round(d))) <= Cardinality(accepted'[Round(d)])
    <3>1. Round(d) \in Rounds /\ Round(d) # Round(p)
      BY <1>3, <1>5, <2>2, RoundOf
    <3> QED
      BY <1>6, <1>7, <2>2, <3>1 DEF IInv, Counted
  <2>3. yes'[p] + Cardinality(Votes(Round(p))) <= Cardinality(accepted'[Round(p)])
    BY <1>4, <1>6, <1>12
  <2>4. \A d \in Proposals : done[d] => yes'[d] >= needed
    BY <1>4, <1>6, Needed DEF IInv, Counted
  <2>5. \A d \in Proposals : Votes(Round(d))' = Votes(Round(d))
    BY <1>1 DEF Votes, Msg, Round
  <2> QED
    BY <1>1, <1>6, <2>2, <2>3, <2>4, <2>5 DEF Counted, needed
<1>14. ASSUME NEW r \in Rounds, Committed(r)', ~Committed(r)
       PROVE  r = Round(p) /\ r[1] = p /\ pc'[p] = "commit"
  BY <1>1, <1>6, <1>14, RoundFacts DEF Committed, Round
<1>15. pc'[p] = "commit" => Cardinality(accepted'[Round(p)]) >= needed
  <2>1. pc'[p] = "commit" => yes[p] + 1 >= needed
    BY <1>2, <1>3 DEF TypeOK
  <2> QED
    BY <1>4, <1>12, <2>1, Needed
<1>16. MajorityAccepted'
  <2>1. \A r \in Rounds : accepted[r] \subseteq accepted'[r]
    BY <1>7
  <2> QED
    BY <1>8, <1>14, <1>15, <2>1, StillMajority
<1>17. NoLostWakeup'
  <2>1. pc'[p] = "wait" => ~(yes'[p] >= needed)
    BY <1>2, <1>3, <1>6 DEF TypeOK
  <2> QED
    BY <1>1, <1>6, <2>1 DEF IInv, NoLostWakeup, needed
<1>18. OnlyLastRoundCommits'
  <2>1. \A d \in Proposals : pc[d] \in {"commit", "ok", "crashed"}
                             => pc'[d] \in {"commit", "ok", "crashed"}
    BY <1>1, <1>6
  <2> QED
    BY <1>1, <1>14, <2>1, StillLast
<1> QED
  BY <1>1, <1>8, <1>9, <1>10, <1>11, <1>13, <1>16, <1>17, <1>18 DEF IInv

-----------------------------------------------------------------------------
(* The handlers.                                                           *)

LEMMA HandleProposeIInv ==
    ASSUME IInv, NEW n \in Nodes, HandlePropose(n)
    PROVE  IInv'
<1>1. PICK q \in msgs :
        /\ q.type = "PROPOSE" /\ q.peer = n
        /\ accepted' = [accepted EXCEPT ![q.round] = @ \cup {n}]
        /\ Post(Msg("VOTE", n, q.round), msgs \ {q})
        /\ UNCHANGED <<callVars, roundVars, envVars, applied>>
  BY DEF HandlePropose
<1> DEFINE r == q.round
<1> DEFINE vote == Msg("VOTE", n, r)
<1>2. TypeOK /\ r \in Rounds /\ vote \in Messages /\ r[1] \in Proposals
  BY RoundFacts DEF IInv, TypeOK, Messages, Msg
<1>3. UNCHANGED <<pc, attempt, peers, todo, open, yes, done, up, alive, budget>>
  BY <1>1 DEF callVars, roundVars, envVars
<1>4. msgs' = msgs \ {q} \/ msgs' = (msgs \ {q}) \cup {vote}
  BY <1>1 DEF Post
<1>5. /\ accepted'[r] = accepted[r] \cup {n} /\ n \notin accepted[r]
      /\ accepted[r] \in SUBSET Nodes
      /\ \A s \in Rounds : s # r => accepted'[s] = accepted[s]
  BY <1>1, <1>2 DEF IInv, TypeOK, AskedOnce
<1>6. ~(r[2] > attempt[r[1]]) /\ n # Proposer(r)
  BY <1>1, <1>2 DEF IInv, Unborn, AskedOnce
<1>7. TypeOK'
  <2>1. accepted' \in [Rounds -> SUBSET Nodes]
    BY <1>1, <1>2 DEF TypeOK
  <2>2. msgs' \in SUBSET Messages
    BY <1>2, <1>4 DEF TypeOK
  <2> QED
    BY <1>1, <1>2, <1>3, <2>1, <2>2 DEF TypeOK
<1>8. Attempts' /\ NoLostWakeup'
  BY <1>3 DEF IInv, Attempts, NoLostWakeup, needed
<1>9. Unborn'
  <2>1. vote.round = r
    BY DEF Msg
  <2> QED
    BY <1>3, <1>4, <1>5, <1>6, <2>1 DEF IInv, Unborn
<1>10. AskedOnce'
  <2>1. ASSUME NEW m \in msgs'
        PROVE  /\ m.type = "PROPOSE" => m.peer \notin accepted'[m.round] \cup {Proposer(m.round)}
               /\ m.type = "VOTE" => m.peer \in accepted'[m.round]
    <3>1. CASE m = vote
      BY <1>5, <3>1 DEF Msg
    <3>2. CASE m # vote
      <4>1. m \in msgs /\ m # q /\ m.round \in Rounds
        BY <1>2, <1>4, <2>1, <3>2 DEF TypeOK, Messages
      <4>2. /\ m.type = "PROPOSE" => m.peer \notin accepted[m.round] \cup {Proposer(m.round)}
            /\ m.type = "VOTE" => m.peer \in accepted[m.round]
        BY <4>1 DEF IInv, AskedOnce
      <4>3. m.type = "PROPOSE" /\ m.round = r => m.peer # n
        BY <1>1, <1>2, <4>1 DEF TypeOK, Messages
      <4> QED
        BY <1>5, <4>1, <4>2, <4>3
    <3> QED
      BY <3>1, <3>2
  <2>2. ASSUME NEW d \in Proposals, pc[d] = "propose"
        PROVE  /\ Owner[d] \notin accepted'[Round(d)] \cup todo[d]
               /\ \A m \in todo[d] : /\ m \notin accepted'[Round(d)]
                                     /\ Msg("PROPOSE", m, Round(d)) \notin msgs'
    <3>1. /\ Owner[d] \notin accepted[Round(d)] \cup todo[d]
          /\ \A m \in todo[d] : m \notin accepted[Round(d)] /\ Msg("PROPOSE", m, Round(d)) \notin msgs
      BY <2>2 DEF IInv, AskedOnce
    <3>2. Round(d) \in Rounds /\ Round(d)[1] = d
      <4>1. attempt[d] > 0
        BY <1>2, <2>2 DEF IInv, Attempts, TypeOK
      <4> QED
        BY <1>2, <4>1, RoundOf
    <3>3. Round(d) = r => n # Owner[d] /\ n \notin todo[d]
      <4>1. q = Msg("PROPOSE", n, r)
        BY <1>1, <1>2 DEF TypeOK, Messages, Msg
      <4> QED
        BY <1>6, <3>1, <3>2, <4>1 DEF Proposer
    <3>4. \A m \in todo[d] : Msg("PROPOSE", m, Round(d)) \notin msgs'
      BY <1>4, <3>1 DEF Msg
    <3> QED
      BY <1>5, <3>1, <3>2, <3>3, <3>4
  <2> QED
    BY <1>3, <2>1, <2>2 DEF AskedOnce, Proposer, Msg, Round
<1>11. Counted'
  <2>1. ASSUME NEW d \in Proposals, attempt[d] > 0
        PROVE  yes[d] + Cardinality(Votes(Round(d))') <= Cardinality(accepted'[Round(d)])
    <3>1. /\ Round(d) \in Rounds /\ Round(d)' = Round(d)
          /\ Votes(Round(d)) \in SUBSET Nodes /\ Votes(Round(d))' \in SUBSET Nodes
          /\ accepted[Round(d)] \in SUBSET Nodes
      BY <1>2, <1>3, <2>1, RoundOf DEF Votes, Round, TypeOK
    <3>2. /\ yes[d] + Cardinality(Votes(Round(d))) <= Cardinality(accepted[Round(d)])
          /\ yes[d] \in Nat
          /\ Cardinality(Votes(Round(d))) \in Nat /\ Cardinality(Votes(Round(d))') \in Nat
          /\ Cardinality(accepted[Round(d)]) \in Nat
      BY <1>2, <2>1, <3>1, Finite DEF IInv, Counted, TypeOK
    <3>3. CASE Round(d) = r
      <4>1. n \notin Votes(Round(d))
        BY <1>5, <3>3 DEF IInv, AskedOnce, Votes, Msg
      <4>2. Votes(Round(d))' \in SUBSET (Votes(Round(d)) \cup {n})
        BY <1>4, <3>1 DEF Votes, Msg
      <4>3. Cardinality(Votes(Round(d)) \cup {n}) = Cardinality(Votes(Round(d))) + 1
        BY <3>1, <4>1, Add
      <4>4. Votes(Round(d)) \cup {n} \in SUBSET Nodes
        BY <3>1
      <4>5. Cardinality(Votes(Round(d))') <= Cardinality(Votes(Round(d)) \cup {n})
        BY <4>2, <4>4, Fewer
      <4>6. Cardinality(accepted'[Round(d)]) = Cardinality(accepted[Round(d)]) + 1
        BY <1>5, <3>3, Add
      <4> QED
        BY <3>2, <4>3, <4>5, <4>6
    <3>4. CASE Round(d) # r
      <4>1. Votes(Round(d))' \in SUBSET Votes(Round(d))
        BY <1>4, <3>1, <3>4 DEF Votes, Msg
      <4>2. Cardinality(Votes(Round(d))') <= Cardinality(Votes(Round(d)))
        BY <3>1, <4>1, Fewer
      <4> QED
        BY <1>5, <3>1, <3>2, <3>4, <4>2
    <3> QED
      BY <3>3, <3>4
  <2>2. \A d \in Proposals : Round(d)' = Round(d)
    BY <1>3 DEF Round
  <2> QED
    BY <1>3, <2>1, <2>2 DEF IInv, Counted, needed
<1>12. ASSUME NEW s \in Rounds, Committed(s)' PROVE Committed(s)
  BY <1>1, <1>3, <1>4, <1>12 DEF Committed, Msg
<1>13. MajorityAccepted'
  <2>1. \A s \in Rounds : accepted[s] \subseteq accepted'[s]
    BY <1>5
  <2> QED
    BY <1>7, <1>12, <2>1, StillMajority
<1>14. OnlyLastRoundCommits'
  BY <1>3, <1>12, StillLast
<1> QED
  BY <1>3, <1>7, <1>8, <1>9, <1>10, <1>11, <1>13, <1>14 DEF IInv

LEMMA HandleVoteIInv ==
    ASSUME IInv, NEW p \in Proposals, HandleVote(p)
    PROVE  IInv'
<1>1. PICK q \in msgs :
        /\ q.type = "VOTE" /\ q.round[1] = p
        /\ msgs' = msgs \ {q}
        /\ IF p \in open /\ q.round = Round(p)
           THEN /\ yes' = [yes EXCEPT ![p] = @ + 1]
                /\ done' = [done EXCEPT ![p] = @ \/ yes[p] + 1 >= needed]
           ELSE UNCHANGED <<yes, done>>
        /\ UNCHANGED <<callVars, open, envVars, accepted, applied>>
  BY DEF HandleVote
<1>2. TypeOK /\ q.round \in Rounds /\ q.peer \in Nodes /\ q = Msg("VOTE", q.peer, q.round)
  BY <1>1 DEF IInv, TypeOK, Messages, Msg
<1>3. UNCHANGED <<pc, attempt, peers, todo, open, up, alive, budget, accepted, applied>>
  BY <1>1 DEF callVars, envVars
<1>4. \A s \in Rounds : Committed(s)' => Committed(s)
  BY <1>1, <1>3 DEF Committed
<1>5. CASE ~(p \in open /\ q.round = Round(p))
  <2>1. UNCHANGED <<yes, done>>
    BY <1>1, <1>5
  <2>2. TypeOK'
    BY <1>1, <1>2, <1>3, <2>1 DEF TypeOK
  <2>3. OnlyLastRoundCommits'
    BY <1>3, <1>4, StillLast
  <2>4. \A kind \in Kinds : budget'[kind] <= MaxFaults[kind]
    BY <1>3 DEF IInv
  <2> QED
    BY <1>1, <1>3, <1>4, <2>1, <2>2, <2>3, <2>4, NarrowStep
<1>6. CASE p \in open /\ q.round = Round(p)
  <2>1. /\ yes' = [yes EXCEPT ![p] = @ + 1]
        /\ done' = [done EXCEPT ![p] = @ \/ yes[p] + 1 >= needed]
    BY <1>1, <1>6
  <2>2. /\ yes'[p] = yes[p] + 1 /\ yes[p] \in Nat
        /\ done'[p] = (done[p] \/ yes[p] + 1 >= needed)
        /\ \A d \in Proposals \ {p} : yes'[d] = yes[d] /\ done'[d] = done[d]
        /\ \A d \in Proposals : Round(d)' = Round(d)
    BY <1>2, <1>3, <2>1 DEF TypeOK, Round
  <2>3. TypeOK'
    <3>1. yes' \in [Proposals -> Nat]
      BY <1>2, <2>1, <2>2 DEF TypeOK
    <3>2. done' \in [Proposals -> BOOLEAN]
      BY <1>2, <2>1 DEF TypeOK
    <3> QED
      BY <1>1, <1>2, <1>3, <3>1, <3>2 DEF TypeOK
  <2>4. Attempts' /\ Unborn'
    BY <1>1, <1>3 DEF IInv, Attempts, Unborn
  <2>5. AskedOnce'
    BY <1>1, <1>3, <2>2 DEF IInv, AskedOnce, Proposer, Msg
  <2>6. attempt[p] > 0 /\ \A d \in Proposals \ {p} : attempt[d] > 0 => Round(d) # Round(p)
    <3>1. ~(q.round[2] > attempt[p])
      BY <1>1, <1>2 DEF IInv, Unborn
    <3>2. q.round[2] \in 1..MaxAttempts /\ attempt[p] \in Nat
      BY <1>2, RoundFacts DEF TypeOK
    <3>3. attempt[p] > 0
      BY <3>1, <3>2
    <3> QED
      BY <1>2, <3>3, RoundOf
  <2>7. Counted'
    <3>1. ASSUME NEW d \in Proposals, d # p, attempt[d] > 0
          PROVE  yes'[d] + Cardinality(Votes(Round(d))') <= Cardinality(accepted[Round(d)])
      <4>1. Votes(Round(d))' = Votes(Round(d))
        BY <1>1, <1>6, <2>2, <2>6, <3>1 DEF Votes, Msg
      <4> QED
        BY <2>2, <3>1, <4>1 DEF IInv, Counted
    <3>2. yes'[p] + Cardinality(Votes(Round(p))') <= Cardinality(accepted[Round(p)])
      <4>1. Votes(Round(p)) \in SUBSET Nodes /\ q.peer \in Votes(Round(p))
        BY <1>2, <1>6 DEF Votes
      <4>2. Votes(Round(p))' = Votes(Round(p)) \ {q.peer}
        BY <1>1, <1>2, <1>6, <2>2 DEF Votes, Msg
      <4>3. Cardinality(Votes(Round(p))') = Cardinality(Votes(Round(p))) - 1
        BY <4>1, <4>2, Remove
      <4>4. Cardinality(Votes(Round(p))) \in Nat
        BY <4>1, Finite
      <4>5. yes[p] + Cardinality(Votes(Round(p))) <= Cardinality(accepted[Round(p)])
        BY <2>6 DEF IInv, Counted
      <4>6. Cardinality(accepted[Round(p)]) \in Nat
        BY <1>2, <1>6, Finite DEF TypeOK
      <4> QED
        BY <2>2, <4>3, <4>4, <4>5, <4>6
    <3>3. \A d \in Proposals : done'[d] => yes'[d] >= needed
      <4>1. done[p] => yes[p] >= needed
        BY DEF IInv, Counted
      <4>2. yes[p] >= needed => yes[p] + 1 >= needed
        BY <2>2, Needed
      <4>3. done'[p] => yes[p] + 1 >= needed
        BY <2>2, <4>1, <4>2
      <4>4. \A d \in Proposals \ {p} : done'[d] => yes'[d] >= needed
        BY <2>2 DEF IInv, Counted
      <4> QED
        BY <2>2, <4>3, <4>4
    <3> QED
      BY <1>3, <2>2, <3>1, <3>2, <3>3 DEF Counted, needed
  <2>8. MajorityAccepted'
    BY <1>3, <1>4, <2>3, StillMajority
  <2>9. NoLostWakeup'
    BY <1>3, <2>2 DEF IInv, NoLostWakeup, needed
  <2>10. OnlyLastRoundCommits'
    BY <1>3, <1>4, StillLast
  <2> QED
    BY <1>3, <2>3, <2>4, <2>5, <2>7, <2>8, <2>9, <2>10 DEF IInv
<1> QED
  BY <1>5, <1>6

-----------------------------------------------------------------------------
(* The ends of an attempt, the COMMITs and the faults: all are narrow.     *)

LEMMA VoteTimeoutIInv ==
    ASSUME IInv, NEW p \in Proposals, VoteTimeout(p)
    PROVE  IInv'
<1>1. /\ pc[p] = "wait"
      /\ pc' = [pc EXCEPT ![p] = IF attempt[p] < MaxAttempts THEN "retry" ELSE "failed"]
      /\ open' = open \ {p}
      /\ UNCHANGED <<attempt, peers, todo, yes, done, up, alive, budget, accepted,
                     applied, msgs>>
  BY DEF VoteTimeout, AttemptFails, envVars
<1>2. TypeOK'
  BY <1>1 DEF IInv, TypeOK, PCs
<1>3. \A r \in Rounds : Committed(r)' => Committed(r)
  BY <1>1, RoundFacts DEF IInv, TypeOK, Committed
<1>4. /\ pc'[p] \in {"retry", "failed"} /\ (pc'[p] = "retry" => attempt[p] < MaxAttempts)
      /\ \A d \in Proposals \ {p} : pc'[d] = pc[d]
  BY <1>1 DEF IInv, TypeOK
<1>5. OnlyLastRoundCommits'
  BY <1>1, <1>3, <1>4, StillLast
<1> QED
  BY <1>1, <1>2, <1>3, <1>4, <1>5, NarrowStep DEF IInv

LEMMA ApplyIInv ==
    ASSUME IInv, NEW p \in Proposals, Apply(p)
    PROVE  IInv'
<1>1. /\ pc[p] = "commit"
      /\ applied' = [applied EXCEPT ![Owner[p]] = @ \cup {Round(p)}]
      /\ pc' = [pc EXCEPT ![p] = "ok"]
      /\ open' = open \ {p}
      /\ UNCHANGED <<attempt, peers, todo, yes, done, up, alive, budget, accepted, msgs>>
  BY DEF Apply, envVars
<1>2. TypeOK /\ attempt[p] > 0
  BY <1>1 DEF IInv, TypeOK, Attempts
<1>3. Round(p) \in Rounds /\ Round(p)[1] = p /\ Round(p)[2] = attempt[p]
  BY <1>2, RoundOf
<1>4. TypeOK'
  <2>1. applied' \in [Nodes -> SUBSET Rounds]
    BY <1>1, <1>2, <1>3 DEF TypeOK
  <2>2. pc' \in [Proposals -> PCs]
    BY <1>1, <1>2 DEF TypeOK, PCs
  <2> QED
    BY <1>1, <1>2, <2>1, <2>2 DEF TypeOK
<1>5. ASSUME NEW r \in Rounds, Committed(r)' PROVE Committed(r)
  <2>1. Committed(Round(p))
    BY <1>1, <1>3 DEF Committed
  <2>2. \A n \in Nodes : r \in applied'[n] => r \in applied[n] \/ r = Round(p)
    BY <1>1, <1>2 DEF TypeOK
  <2>3. pc'[r[1]] = "commit" => pc[r[1]] = "commit"
    BY <1>1, <1>2, RoundFacts DEF TypeOK
  <2> QED
    BY <1>1, <1>5, <2>1, <2>2, <2>3 DEF Committed
<1>6. pc'[p] = "ok" /\ \A d \in Proposals \ {p} : pc'[d] = pc[d]
  BY <1>1, <1>2 DEF TypeOK
<1>7. OnlyLastRoundCommits'
  BY <1>1, <1>5, <1>6, StillLast
<1> QED
  BY <1>1, <1>4, <1>5, <1>6, <1>7, NarrowStep DEF IInv

\* Errors of a database: OnlyLastRoundCommits says nothing any more.
LEMMA ApplyFailsIInv ==
    ASSUME IInv, NEW p \in Proposals, ApplyFails(p)
    PROVE  IInv'
<1>1. /\ pc[p] = "commit" /\ Spend("handler")
      /\ pc' = [pc EXCEPT ![p] = IF attempt[p] < MaxAttempts THEN "retry" ELSE "failed"]
      /\ open' = open \ {p}
      /\ UNCHANGED <<attempt, peers, todo, yes, done, up, alive, accepted, applied, msgs>>
  BY DEF ApplyFails, AttemptFails
<1>2. /\ budget' \in [Kinds -> Nat] /\ \A k \in Kinds : budget'[k] <= MaxFaults[k]
      /\ budget'["handler"] # MaxFaults["handler"]
  <2>1. "handler" \in Kinds /\ MaxFaults["handler"] \in Nat
    BY BoundsAssumption DEF Kinds
  <2>2. budget'["handler"] < MaxFaults["handler"] /\ budget'["handler"] \in Nat
    BY <1>1, <2>1, SpendType
  <2> QED
    BY <1>1, <2>1, <2>2, SpendType
<1>3. TypeOK'
  BY <1>1, <1>2 DEF IInv, TypeOK, PCs
<1>4. \A r \in Rounds : Committed(r)' => Committed(r)
  BY <1>1, RoundFacts DEF IInv, TypeOK, Committed
<1>5. /\ pc'[p] \in {"retry", "failed"} /\ (pc'[p] = "retry" => attempt[p] < MaxAttempts)
      /\ \A d \in Proposals \ {p} : pc'[d] = pc[d]
  BY <1>1 DEF IInv, TypeOK
<1>6. OnlyLastRoundCommits'
  BY <1>2 DEF OnlyLastRoundCommits
<1> QED
  BY <1>1, <1>2, <1>3, <1>4, <1>5, <1>6, NarrowStep

LEMMA HandleCommitIInv ==
    ASSUME IInv, NEW n \in Nodes, HandleCommit(n)
    PROVE  IInv'
<1>1. PICK q \in msgs :
        /\ q.type = "COMMIT"
        /\ msgs' = msgs \ {q}
        /\ applied' = [applied EXCEPT ![n] = @ \cup {q.round}]
        /\ UNCHANGED <<callVars, roundVars, envVars, accepted>>
  BY DEF HandleCommit
<1>2. UNCHANGED <<pc, attempt, peers, todo, open, yes, done, up, alive, budget, accepted>>
  BY <1>1 DEF callVars, roundVars, envVars
<1>3. TypeOK'
  BY <1>1, <1>2 DEF IInv, TypeOK, Messages
<1>4. ASSUME NEW r \in Rounds, Committed(r)' PROVE Committed(r)
  <2>1. \A m \in Nodes : r \in applied'[m] => r \in applied[m] \/ r = q.round
    BY <1>1 DEF IInv, TypeOK
  <2> QED
    BY <1>1, <1>2, <1>4, <2>1 DEF Committed
<1>5. OnlyLastRoundCommits'
  BY <1>2, <1>4, StillLast
<1> QED
  BY <1>1, <1>2, <1>3, <1>4, <1>5, NarrowStep DEF IInv

\* Faults, and what the failure detector makes of them.
LEMMA FaultIInv ==
    ASSUME IInv,
           \/ \E n \in Nodes : CommitFails(n) \/ Crash(n) \/ Restart(n)
           \/ \E n \in Callers, m \in Nodes : MarkDead(n, m) \/ MarkAlive(n, m)
           \/ Lose
    PROVE  IInv'
<1>1. /\ UNCHANGED <<attempt, peers, todo, yes, done, accepted, applied>>
      /\ msgs' \subseteq msgs /\ open' \subseteq open
      /\ \A p \in Proposals :
            pc'[p] = pc[p] \/ (pc'[p] = "crashed" /\ pc[p] \notin {"idle", "ok", "failed"})
  BY DEF CommitFails, Crash, Restart, MarkDead, MarkAlive, Lose, callVars, roundVars, Returned
<1>2. \/ budget' = budget
      \/ \E kind \in Kinds : Spend(kind)
  BY DEF CommitFails, Crash, Restart, MarkDead, MarkAlive, Lose, Kinds
<1>3. budget' \in [Kinds -> Nat] /\ \A k \in Kinds : budget'[k] <= MaxFaults[k]
  BY <1>2, SpendType DEF IInv, TypeOK
<1>4. TypeOK'
  <2>1. up' \in SUBSET Nodes
    BY DEF CommitFails, Crash, Restart, MarkDead, MarkAlive, Lose, IInv, TypeOK
  <2>2. alive' \in [Callers -> SUBSET Nodes]
    BY DEF CommitFails, Crash, Restart, MarkDead, MarkAlive, Lose, IInv, TypeOK
  <2>3. pc' \in [Proposals -> PCs]
    BY DEF CommitFails, Crash, Restart, MarkDead, MarkAlive, Lose, IInv, TypeOK, PCs, callVars
  <2> QED
    BY <1>1, <1>3, <2>1, <2>2, <2>3 DEF IInv, TypeOK
<1>5. \A r \in Rounds : Committed(r)' => Committed(r)
  BY <1>1, RoundFacts DEF Committed
<1>6. OnlyLastRoundCommits'
  BY <1>1, <1>2, <1>3, <1>5, StillLast
<1> QED
  BY <1>1, <1>3, <1>4, <1>5, <1>6, NarrowStep

LEMMA NextIInv == IInv /\ [Next]_vars => IInv'
<1> SUFFICES ASSUME IInv, [Next]_vars PROVE IInv'
  OBVIOUS
<1>1. ASSUME NEW p \in Proposals, Propose(p) PROVE IInv'
  BY <1>1, ProposeIInv, SendProposeIInv, SelfVoteIInv, QuorumReachedIInv,
     SendCommitIInv, ApplyIInv DEF Propose
<1>2. ASSUME NEW p \in Proposals, VoteTimeout(p) \/ ApplyFails(p) \/ HandleVote(p)
      PROVE  IInv'
  BY <1>2, VoteTimeoutIInv, ApplyFailsIInv, HandleVoteIInv
<1>3. ASSUME NEW n \in Nodes, HandlePropose(n) \/ HandleCommit(n) PROVE IInv'
  BY <1>3, HandleProposeIInv, HandleCommitIInv
<1>4. CASE \/ \E n \in Nodes : CommitFails(n) \/ Crash(n) \/ Restart(n)
           \/ \E n \in Callers, m \in Nodes : MarkDead(n, m) \/ MarkAlive(n, m)
           \/ Lose
  BY <1>4, FaultIInv
<1>5. CASE UNCHANGED vars
  <2>1. UNCHANGED <<pc, attempt, peers, todo, open, yes, done, up, alive, budget,
                    accepted, applied, msgs>>
    BY <1>5 DEF vars, callVars, roundVars, envVars
  <2>2. TypeOK'
    BY <2>1 DEF IInv, TypeOK
  <2>3. \A r \in Rounds : Committed(r)' => Committed(r)
    BY <2>1 DEF Committed
  <2>4. OnlyLastRoundCommits'
    BY <2>1, <2>3, StillLast
  <2> QED
    BY <2>1, <2>2, <2>3, <2>4, NarrowStep DEF IInv
<1> QED
  BY <1>1, <1>2, <1>3, <1>4, <1>5 DEF Next

\* The invariant that follows a yes from the question to the count holds of
\* every behaviour of Propose, its handlers and the faults they meet.
THEOREM Invariance == Spec => []IInv
<1>1. Init => IInv
  BY InitIInv
<1>2. IInv /\ [Next]_vars => IInv'
  BY NextIInv
<1> QED
  BY <1>1, <1>2, PTL DEF Spec

\* The variables of Propose stay within their types.
THEOREM TypeCorrectness == Spec => []TypeOK
<1>1. IInv => TypeOK
  BY DEF IInv
<1> QED
  BY <1>1, Invariance, PTL

\* No node executes an operation that a majority of all nodes has not accepted
\* in the very round it is executed for (dispatcher.go:24).
THEOREM Majority == Spec => []MajorityAccepted
<1>1. IInv => MajorityAccepted
  BY DEF IInv
<1> QED
  BY <1>1, Invariance, PTL

\* A quorum that is complete is never slept through (consensus.go:121 and 170).
THEOREM Wakeup == Spec => []NoLostWakeup
<1>1. IInv => NoLostWakeup
  BY DEF IInv
<1> QED
  BY <1>1, Invariance, PTL

\* Without errors of a database, an operation is committed by one attempt only,
\* and never by a call that returned an error (consensus.go:71).
THEOREM OneCommit == Spec => []OnlyLastRoundCommits
<1>1. IInv => OnlyLastRoundCommits
  BY DEF IInv
<1> QED
  BY <1>1, Invariance, PTL
=============================================================================
