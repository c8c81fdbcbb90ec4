--------------------------- MODULE ElectionProofs ---------------------------
(***************************************************************************)
(* The theorems about Election, for any nodes, any number of calls of      *)
(* StartElection and any scenarios of faults.                              *)
(***************************************************************************)
EXTENDS Election, TLAPS

\* The types of the variables that a step may change, in two parts.
EngineType ==
    /\ running \in [Nodes -> BOOLEAN]
    /\ okTimer \in [Nodes -> 0..MaxCalls]
    /\ stage \in [Nodes -> [Calls -> Stages]]
    /\ calls \in [Nodes -> 0..MaxCalls]

WorldType ==
    /\ up \in SUBSET Nodes
    /\ boot \in [Nodes -> Nat]
    /\ alive \in [Nodes -> SUBSET Nodes]
    /\ master \in [Nodes -> Nodes]
    /\ claim \in SUBSET Nodes
    /\ msgs \in SUBSET Messages

FaultType == budget \in [Kinds -> Nat] /\ happened \in SUBSET Kinds

LEMMA Parts == TypeOK <=> (EngineType /\ WorldType /\ FaultType)
BY DEF TypeOK, EngineType, WorldType, FaultType

LEMMA PartsNext == EngineType' /\ WorldType' /\ FaultType' => TypeOK'
BY DEF TypeOK, EngineType, WorldType, FaultType

LEMMA SpendType ==
    ASSUME FaultType, NEW kind \in Kinds, Spend(kind)
    PROVE  FaultType'
BY DEF FaultType, Spend

LEMMA MsgType ==
    ASSUME NEW n \in Nodes, NEW p \in Nodes, NEW b \in Nat, NEW k \in 0..MaxCalls,
           NEW type \in {"ELECTION", "OK", "COORDINATOR"}
    PROVE  /\ Msg(type, n, p, b, k) \in Messages
           /\ Msg(type, n, p, b, k).type = type
           /\ Msg(type, n, p, b, k).from = n
           /\ Msg(type, n, p, b, k).to = p
BY DEF Msg, Messages

LEMMA SpawnType ==
    ASSUME EngineType, NEW n \in Nodes, Spawn(n)
    PROVE  /\ calls' \in [Nodes -> 0..MaxCalls]
           /\ stage' \in [Nodes -> [Calls -> Stages]]
<1>1. calls[n] + 1 \in Calls
  BY BoundsAssumption DEF EngineType, Spawn, Calls
<1>2. calls' \in [Nodes -> 0..MaxCalls]
  BY <1>1 DEF EngineType, Spawn, Calls
<1>3. stage' \in [Nodes -> [Calls -> Stages]]
  BY <1>1 DEF EngineType, Spawn, Stages
<1> QED
  BY <1>2, <1>3

LEMMA StopTimerType ==
    ASSUME NEW n \in Nodes, NEW st \in [Nodes -> [Calls -> Stages]]
    PROVE  StopTimer(n, st) \in [Nodes -> [Calls -> Stages]]
BY DEF StopTimer, Stages

LEMMA AdvanceType ==
    ASSUME EngineType, NEW n \in Nodes, NEW k \in Calls,
           NEW from \in Stages, NEW to \in Stages, Advance(n, k, from, to)
    PROVE  stage' \in [Nodes -> [Calls -> Stages]]
BY DEF EngineType, Advance

LEMMA AnnounceType ==
    ASSUME WorldType, NEW n \in Nodes, NEW k \in 0..MaxCalls, Announce(n, k)
    PROVE  master' \in [Nodes -> Nodes] /\ msgs' \in SUBSET Messages
<1>1. master' \in [Nodes -> Nodes]
  BY DEF WorldType, Announce
<1>2. boot[n] \in Nat
  BY DEF WorldType
<1>3. ASSUME NEW p \in Nodes PROVE Msg("COORDINATOR", n, p, boot[n], k) \in Messages
  BY <1>2, MsgType
<1>4. msgs' \in SUBSET Messages
  BY <1>3 DEF WorldType, Announce, Post
<1> QED
  BY <1>1, <1>4

-----------------------------------------------------------------------------
(* Type correctness.                                                       *)

LEMMA InitType == Init => TypeOK
<1> SUFFICES ASSUME Init PROVE TypeOK
  OBVIOUS
<1>1. EngineType
  BY BoundsAssumption DEF Init, EngineType, Calls, Stages
<1>2. WorldType
  BY BoundsAssumption, MasterAssumption DEF Init, WorldType
<1>3. FaultType
  BY BoundsAssumption DEF Init, FaultType
<1> QED
  BY <1>1, <1>2, <1>3, Parts

\* The steps of a call of StartElection.
LEMMA CallType ==
    ASSUME TypeOK, NEW n \in Nodes, NEW k \in Calls,
           \/ Begin(n, k) \/ AlreadyRunning(n, k) \/ NobodyLower(n, k)
           \/ Canvass(n, k) \/ ArmTimer(n, k)
    PROVE  TypeOK'
<1>1. EngineType /\ WorldType /\ FaultType
  BY Parts
<1>2. stage' \in [Nodes -> [Calls -> Stages]]
  BY <1>1, AdvanceType
     DEF Begin, AlreadyRunning, NobodyLower, Canvass, ArmTimer, Stages
<1>3. k \in 0..MaxCalls
  BY BoundsAssumption DEF Calls
<1>4. /\ running' \in [Nodes -> BOOLEAN]
  BY <1>1 DEF EngineType, Begin, AlreadyRunning, NobodyLower, Canvass, ArmTimer
<1>5. /\ okTimer' \in [Nodes -> 0..MaxCalls]
      /\ calls' \in [Nodes -> 0..MaxCalls]
  BY <1>1, <1>3 DEF EngineType, Begin, AlreadyRunning, NobodyLower, Canvass, ArmTimer
<1>6. msgs' \in SUBSET Messages
  <2>1. CASE Canvass(n, k)
    <3>1. boot[n] \in Nat
      BY <1>1 DEF WorldType
    <3>2. ASSUME NEW p \in lowerNodes(n) PROVE Msg("ELECTION", n, p, boot[n], k) \in Messages
      <4>1. p \in Nodes
        BY <1>1 DEF WorldType, lowerNodes
      <4> QED
        BY <3>1, <4>1, <1>3, MsgType
    <3> QED
      BY <2>1, <3>2, <1>1 DEF Canvass, Post, WorldType
  <2> QED
    BY <2>1, <1>1 DEF WorldType, Begin, AlreadyRunning, NobodyLower, ArmTimer
<1>7. UNCHANGED <<up, boot, alive, master, claim, budget, happened>>
  BY DEF Begin, AlreadyRunning, NobodyLower, Canvass, ArmTimer, envVars, stateVars, faultVars
<1>8. EngineType' /\ WorldType' /\ FaultType'
  BY <1>1, <1>2, <1>4, <1>5, <1>6, <1>7 DEF EngineType, WorldType, FaultType
<1> QED
  BY <1>8, PartsNext

LEMMA TimerFiresType ==
    ASSUME TypeOK, NEW n \in Nodes, NEW k \in Calls, TimerFires(n, k)
    PROVE  TypeOK'
<1>1. EngineType /\ WorldType /\ FaultType
  BY Parts
<1>2. stage' \in [Nodes -> [Calls -> Stages]]
  BY <1>1, AdvanceType DEF TimerFires, Stages
<1>3. FaultType'
  <2>1. Spend("late") \/ UNCHANGED faultVars
    BY DEF TimerFires, Expired
  <2>2. CASE Spend("late")
    BY <1>1, <2>2, SpendType DEF Kinds
  <2>3. CASE UNCHANGED faultVars
    BY <1>1, <2>3 DEF FaultType, faultVars
  <2> QED
    BY <2>1, <2>2, <2>3
<1>4. EngineType'
  BY <1>1, <1>2 DEF TimerFires, EngineType
<1>5. WorldType'
  BY <1>1 DEF TimerFires, WorldType, stateVars
<1> QED
  BY <1>3, <1>4, <1>5, PartsNext

LEMMA VictoryType ==
    ASSUME TypeOK, NEW n \in Nodes, NEW k \in Calls, declareVictory(n, k)
    PROVE  TypeOK'
<1>1. EngineType /\ WorldType /\ FaultType
  BY Parts
<1>2. [stage EXCEPT ![n][k] = "done"] \in [Nodes -> [Calls -> Stages]]
  BY <1>1 DEF EngineType, Stages
<1>3. stage' \in [Nodes -> [Calls -> Stages]]
  BY <1>2, StopTimerType DEF declareVictory
<1>4. k \in 0..MaxCalls
  BY BoundsAssumption DEF Calls
<1>5. master' \in [Nodes -> Nodes] /\ msgs' \in SUBSET Messages
  BY <1>1, <1>4, AnnounceType DEF declareVictory
<1>6. EngineType'
  BY <1>1, <1>3 DEF declareVictory, EngineType
<1>7. WorldType'
  BY <1>1, <1>5 DEF declareVictory, WorldType, envVars
<1>8. FaultType'
  BY <1>1 DEF declareVictory, FaultType, envVars, faultVars
<1> QED
  BY <1>6, <1>7, <1>8, PartsNext

LEMMA ClaimType ==
    ASSUME TypeOK, NEW n \in Nodes, ClaimMastership(n)
    PROVE  TypeOK'
<1>1. EngineType /\ WorldType /\ FaultType
  BY Parts
<1>2. 0 \in 0..MaxCalls
  BY BoundsAssumption
<1>3. master' \in [Nodes -> Nodes] /\ msgs' \in SUBSET Messages
  BY <1>1, <1>2, AnnounceType DEF ClaimMastership
<1>4. EngineType'
  BY <1>1 DEF ClaimMastership, EngineType, engineVars
<1>5. WorldType'
  BY <1>1, <1>3 DEF ClaimMastership, WorldType
<1>6. FaultType'
  BY <1>1 DEF ClaimMastership, FaultType, faultVars
<1> QED
  BY <1>4, <1>5, <1>6, PartsNext

LEMMA HandleElectionType ==
    ASSUME TypeOK, NEW n \in Nodes, HandleElection(n)
    PROVE  TypeOK'
<1>1. EngineType /\ WorldType /\ FaultType
  BY Parts
<1>2. PICK q \in msgs : /\ q.type = "ELECTION" /\ q.to = n
                        /\ IF n >= q.from
                           THEN msgs' = msgs \ {q} /\ UNCHANGED <<calls, stage>>
                           ELSE /\ msgs' = (msgs \ {q}) \cup
                                     {r \in {Msg("OK", n, q.from, q.boot, q.seq)} : r.to \in up}
                                /\ Spawn(n)
  BY DEF HandleElection
<1>3. q.from \in Nodes /\ q.boot \in Nat /\ q.seq \in 0..MaxCalls
  BY <1>1, <1>2 DEF WorldType, Messages
<1>4. Msg("OK", n, q.from, q.boot, q.seq) \in Messages
  BY <1>3, MsgType
<1>5. msgs' \in SUBSET Messages
  BY <1>1, <1>2, <1>4 DEF WorldType
<1>6. /\ calls' \in [Nodes -> 0..MaxCalls]
      /\ stage' \in [Nodes -> [Calls -> Stages]]
  <2>1. CASE Spawn(n)
    BY <1>1, <2>1, SpawnType
  <2>2. CASE UNCHANGED <<calls, stage>>
    BY <1>1, <2>2 DEF EngineType
  <2> QED
    BY <1>2, <2>1, <2>2
<1>7. EngineType'
  BY <1>1, <1>6 DEF HandleElection, EngineType
<1>8. WorldType'
  BY <1>1, <1>5 DEF HandleElection, WorldType, stateVars, envVars
<1>9. FaultType'
  BY <1>1 DEF HandleElection, FaultType, envVars, faultVars
<1> QED
  BY <1>7, <1>8, <1>9, PartsNext

LEMMA HandleElectionOKType ==
    ASSUME TypeOK, NEW n \in Nodes, HandleElectionOK(n)
    PROVE  TypeOK'
<1>1. EngineType /\ WorldType /\ FaultType
  BY Parts
<1>2. stage' \in [Nodes -> [Calls -> Stages]]
  BY <1>1, StopTimerType DEF EngineType, HandleElectionOK
<1>3. 0 \in 0..MaxCalls
  BY BoundsAssumption
<1>4. EngineType'
  BY <1>1, <1>2, <1>3 DEF HandleElectionOK, EngineType
<1>5. WorldType'
  BY <1>1 DEF HandleElectionOK, WorldType, stateVars, envVars
<1>6. FaultType'
  BY <1>1 DEF HandleElectionOK, FaultType, envVars, faultVars
<1> QED
  BY <1>4, <1>5, <1>6, PartsNext

LEMMA HandleCoordinatorType ==
    ASSUME TypeOK, NEW n \in Nodes, HandleCoordinator(n)
    PROVE  TypeOK'
<1>1. EngineType /\ WorldType /\ FaultType
  BY Parts
<1>2. EngineType'
  BY <1>1 DEF HandleCoordinator, EngineType, engineVars
<1>3. WorldType'
  BY <1>1 DEF HandleCoordinator, WorldType, Messages, envVars
<1>4. FaultType'
  BY <1>1 DEF HandleCoordinator, FaultType, envVars, faultVars
<1> QED
  BY <1>2, <1>3, <1>4, PartsNext

\* The steps of the failure detector and of the environment.
LEMMA DeclareDeadType ==
    ASSUME EngineType, WorldType, NEW n \in Nodes, NEW p \in Nodes, declareDead(n, p)
    PROVE  EngineType' /\ WorldType'
<1>1. /\ calls' \in [Nodes -> 0..MaxCalls]
      /\ stage' \in [Nodes -> [Calls -> Stages]]
  <2>1. CASE Spawn(n)
    BY <2>1, SpawnType
  <2>2. CASE UNCHANGED <<calls, stage>>
    BY <2>2 DEF EngineType
  <2> QED
    BY <2>1, <2>2 DEF declareDead
<1>2. EngineType'
  BY <1>1 DEF declareDead, EngineType
<1>3. WorldType'
  BY DEF declareDead, WorldType
<1> QED
  BY <1>2, <1>3

LEMMA DetectType ==
    ASSUME TypeOK, NEW n \in Nodes, NEW p \in Nodes, Detect(n, p) \/ Suspect(n, p)
    PROVE  TypeOK'
<1>1. EngineType /\ WorldType /\ FaultType
  BY Parts
<1>2. EngineType' /\ WorldType'
  BY <1>1, DeclareDeadType DEF Detect, Suspect
<1>3. Spend("late") \/ Spend("suspect") \/ UNCHANGED faultVars
  BY DEF Detect, Suspect
<1>4. FaultType'
  <2>1. CASE UNCHANGED faultVars
    BY <1>1, <2>1 DEF FaultType, faultVars
  <2>2. CASE Spend("late") \/ Spend("suspect")
    BY <1>1, <2>2, SpendType DEF Kinds
  <2> QED
    BY <1>3, <2>1, <2>2
<1> QED
  BY <1>2, <1>4, PartsNext

LEMMA MarkAliveType ==
    ASSUME TypeOK, NEW n \in Nodes, NEW p \in Nodes, MarkAlive(n, p)
    PROVE  TypeOK'
<1>1. EngineType /\ WorldType /\ FaultType
  BY Parts
<1>2. EngineType'
  BY <1>1 DEF MarkAlive, EngineType, engineVars
<1>3. WorldType'
  BY <1>1 DEF MarkAlive, WorldType, envVars
<1>4. FaultType'
  BY <1>1 DEF MarkAlive, FaultType, envVars, faultVars
<1> QED
  BY <1>2, <1>3, <1>4, PartsNext

LEMMA CrashType ==
    ASSUME TypeOK, NEW n \in Nodes, Crash(n)
    PROVE  TypeOK'
<1>1. EngineType /\ WorldType /\ FaultType
  BY Parts
<1>2. 0 \in 0..MaxCalls
  BY BoundsAssumption
<1>3. [k \in Calls |-> "unused"] \in [Calls -> Stages]
  BY DEF Stages
<1>4. stage' \in [Nodes -> [Calls -> Stages]]
  BY <1>1, <1>3 DEF Crash, EngineType
<1>5. EngineType'
  BY <1>1, <1>2, <1>4 DEF Crash, EngineType
<1>6. WorldType'
  BY <1>1 DEF Crash, WorldType, stateVars
<1>7. FaultType'
  BY <1>1, SpendType DEF Crash, Kinds
<1> QED
  BY <1>5, <1>6, <1>7, PartsNext

LEMMA RestartType ==
    ASSUME TypeOK, NEW n \in Nodes, Restart(n)
    PROVE  TypeOK'
<1>1. EngineType /\ WorldType /\ FaultType
  BY Parts
<1>2. EngineType'
  BY <1>1 DEF Restart, EngineType, engineVars
<1>3. WorldType'
  BY <1>1, MasterAssumption DEF Restart, WorldType
<1>4. FaultType'
  BY <1>1, SpendType DEF Restart, Kinds
<1> QED
  BY <1>2, <1>3, <1>4, PartsNext

LEMMA LoseType ==
    ASSUME TypeOK, Lose
    PROVE  TypeOK'
<1>1. EngineType /\ WorldType /\ FaultType
  BY Parts
<1>2. EngineType'
  BY <1>1 DEF Lose, EngineType, engineVars
<1>3. WorldType'
  BY <1>1 DEF Lose, WorldType, stateVars
<1>4. FaultType'
  BY <1>1, SpendType DEF Lose, Kinds
<1> QED
  BY <1>2, <1>3, <1>4, PartsNext

LEMMA NextType == TypeOK /\ [Next]_vars => TypeOK'
<1> SUFFICES ASSUME TypeOK, [Next]_vars PROVE TypeOK'
  OBVIOUS
<1>1. ASSUME NEW n \in Nodes, StartElection(n) \/ Elapse(n) \/ Win(n) PROVE TypeOK'
  BY <1>1, CallType, TimerFiresType, VictoryType DEF StartElection, Elapse, Win
<1>2. ASSUME NEW n \in Nodes, ClaimMastership(n) \/ Handle(n) PROVE TypeOK'
  BY <1>2, ClaimType, HandleElectionType, HandleElectionOKType, HandleCoordinatorType
     DEF Handle
<1>3. ASSUME NEW n \in Nodes, Crash(n) \/ Restart(n) PROVE TypeOK'
  BY <1>3, CrashType, RestartType
<1>4. ASSUME NEW n \in Nodes, NEW p \in Nodes,
             Detect(n, p) \/ Suspect(n, p) \/ MarkAlive(n, p)
      PROVE  TypeOK'
  BY <1>4, DetectType, MarkAliveType
<1>5. CASE Lose
  BY <1>5, LoseType
<1>6. CASE UNCHANGED vars
  BY <1>6 DEF vars, engineVars, stateVars, envVars, faultVars, TypeOK
<1> QED
  BY <1>1, <1>2, <1>3, <1>4, <1>5, <1>6 DEF Next

\* The variables of every engine stay within their types, in all scenarios.
THEOREM TypeCorrectness == Spec => []TypeOK
BY InitType, NextType, PTL DEF Spec

-----------------------------------------------------------------------------
(* The running flag has an owner.  A step of a call keeps the call pending  *)
(* or clears the flag; whatever stops a timer clears the flag as well.     *)

\* A step that leaves running and the stages alone keeps the owners.
LEMMA SameOwners ==
    ASSUME RunningHasOwner, UNCHANGED <<running, stage>>
    PROVE  RunningHasOwner'
BY DEF RunningHasOwner, Pending

\* A step of one call moves that call alone, and sets no flag but its own.
LEMMA CallOwners ==
    ASSUME TypeOK, RunningHasOwner, NEW n \in Nodes, NEW k \in Calls,
           NEW from \in Stages, NEW to \in Stages, Advance(n, k, from, to),
           \A m \in Nodes : running'[m] => running[m] \/ m = n,
           running'[n] => \/ to \in {"canvass", "arm", "timer", "victory"}
                          \/ running[n] /\ from \notin {"canvass", "arm", "timer", "victory"}
    PROVE  RunningHasOwner'
<1> SUFFICES ASSUME NEW m \in Nodes, running'[m]
             PROVE  \E j \in Calls : Pending(m, j)'
  BY DEF RunningHasOwner
<1>1. stage \in [Nodes -> [Calls -> Stages]]
  BY DEF TypeOK
<1>2. /\ stage'[n][k] = to
      /\ \A i \in Nodes, j \in Calls : <<i, j>> # <<n, k>> => stage'[i][j] = stage[i][j]
  BY <1>1 DEF Advance
<1>3. CASE m = n /\ to \in {"canvass", "arm", "timer", "victory"}
  BY <1>2, <1>3 DEF Pending
<1>4. CASE running[m] /\ (m = n => from \notin {"canvass", "arm", "timer", "victory"})
  <2>1. PICK j \in Calls : Pending(m, j)
    BY <1>4 DEF RunningHasOwner
  <2>2. <<m, j>> # <<n, k>>
    BY <1>4, <2>1 DEF Pending, Advance
  <2> QED
    BY <1>2, <2>1, <2>2 DEF Pending
<1> QED
  BY <1>3, <1>4

LEMMA StartElectionOwners ==
    ASSUME TypeOK, RunningHasOwner, NEW n \in Nodes, NEW k \in Calls,
           \/ Begin(n, k) \/ AlreadyRunning(n, k) \/ NobodyLower(n, k)
           \/ Canvass(n, k) \/ ArmTimer(n, k) \/ TimerFires(n, k)
    PROVE  RunningHasOwner'
<1>1. CASE Begin(n, k)
  <2>1. \A m \in Nodes : running'[m] => running[m] \/ m = n
    BY <1>1 DEF Begin, TypeOK
  <2> QED
    BY <1>1, <2>1, CallOwners DEF Begin, Stages
<1>2. CASE AlreadyRunning(n, k)
  BY <1>2, CallOwners DEF AlreadyRunning, Stages
<1>3. CASE NobodyLower(n, k)
  BY <1>3, CallOwners DEF NobodyLower, Stages
<1>4. CASE Canvass(n, k)
  BY <1>4, CallOwners DEF Canvass, Stages
<1>5. CASE ArmTimer(n, k)
  BY <1>5, CallOwners DEF ArmTimer, Stages
<1>6. CASE TimerFires(n, k)
  <2>1. CASE running[n]
    BY <1>6, <2>1, CallOwners DEF TimerFires, Stages
  <2>2. CASE ~running[n]
    BY <1>6, <2>2, CallOwners DEF TimerFires, Stages
  <2> QED
    BY <2>1, <2>2
<1> QED
  BY <1>1, <1>2, <1>3, <1>4, <1>5, <1>6

\* The flag of n is cleared, and the stages of all other nodes stay.
LEMMA ClearedOwners ==
    ASSUME TypeOK, RunningHasOwner, NEW n \in Nodes, ~running'[n],
           \A m \in Nodes \ {n} : running'[m] = running[m] /\ stage'[m] = stage[m]
    PROVE  RunningHasOwner'
BY DEF RunningHasOwner, Pending

LEMMA ClearingOwners ==
    ASSUME TypeOK, RunningHasOwner, NEW n \in Nodes,
           Win(n) \/ HandleElectionOK(n) \/ Crash(n)
    PROVE  RunningHasOwner'
<1>1. running' = [running EXCEPT ![n] = FALSE]
  BY DEF Win, declareVictory, HandleElectionOK, Crash
<1>2. ~running'[n] /\ \A m \in Nodes \ {n} : running'[m] = running[m]
  BY <1>1 DEF TypeOK
<1>3. \A m \in Nodes \ {n} : stage'[m] = stage[m]
  <2>1. CASE Win(n)
    <3>1. PICK k \in Calls : stage' = StopTimer(n, [stage EXCEPT ![n][k] = "done"])
      BY <2>1 DEF Win, declareVictory
    <3> QED
      BY <3>1 DEF StopTimer, TypeOK
  <2>2. CASE HandleElectionOK(n)
    BY <2>2 DEF HandleElectionOK, StopTimer, TypeOK
  <2>3. CASE Crash(n)
    BY <2>3 DEF Crash, TypeOK
  <2> QED
    BY <2>1, <2>2, <2>3
<1> QED
  BY <1>2, <1>3, ClearedOwners

\* A goroutine that has not looked at the flag yet owns nothing.
LEMMA SpawnOwners ==
    ASSUME TypeOK, RunningHasOwner, NEW n \in Nodes, UNCHANGED running,
           Spawn(n) \/ UNCHANGED <<calls, stage>>, Unstarted
    PROVE  RunningHasOwner'
<1> SUFFICES ASSUME NEW m \in Nodes, running'[m]
             PROVE  \E j \in Calls : Pending(m, j)'
  BY DEF RunningHasOwner
<1>1. PICK j \in Calls : Pending(m, j)
  BY DEF RunningHasOwner
<1>2. calls[n] \in Nat /\ j \in Nat
  BY BoundsAssumption DEF TypeOK, Calls
<1>3. m = n => j # calls[n] + 1
  BY <1>1, <1>2 DEF Unstarted, Pending
<1>4. stage'[m][j] = stage[m][j]
  BY <1>3 DEF TypeOK, Spawn
<1> QED
  BY <1>1, <1>4 DEF Pending

LEMMA NextOwners ==
    ASSUME TypeOK, Unstarted, RunningHasOwner, [Next]_vars
    PROVE  RunningHasOwner'
<1>1. ASSUME NEW n \in Nodes, StartElection(n) \/ Elapse(n) PROVE RunningHasOwner'
  BY <1>1, StartElectionOwners DEF StartElection, Elapse
<1>2. ASSUME NEW n \in Nodes, Win(n) \/ HandleElectionOK(n) \/ Crash(n) PROVE RunningHasOwner'
  BY <1>2, ClearingOwners
<1>3. ASSUME NEW n \in Nodes, HandleElection(n) PROVE RunningHasOwner'
  BY <1>3, SpawnOwners DEF HandleElection
<1>4. ASSUME NEW n \in Nodes, NEW p \in Nodes, Detect(n, p) \/ Suspect(n, p)
      PROVE  RunningHasOwner'
  BY <1>4, SpawnOwners DEF Detect, Suspect, declareDead
<1>5. ASSUME NEW n \in Nodes, ClaimMastership(n) \/ HandleCoordinator(n) \/ Restart(n)
      PROVE  RunningHasOwner'
  BY <1>5, SameOwners DEF ClaimMastership, HandleCoordinator, Restart, engineVars
<1>6. ASSUME NEW n \in Nodes, NEW p \in Nodes, MarkAlive(n, p) PROVE RunningHasOwner'
  BY <1>6, SameOwners DEF MarkAlive, engineVars
<1>7. CASE Lose \/ UNCHANGED vars
  BY <1>7, SameOwners DEF Lose, vars, engineVars
<1> QED
  BY <1>1, <1>2, <1>3, <1>4, <1>5, <1>6, <1>7 DEF Next, Handle

-----------------------------------------------------------------------------
(* Calls are numbered in order.                                            *)

LEMMA AdvanceUnstarted ==
    ASSUME TypeOK, Unstarted, NEW n \in Nodes, NEW k \in Calls,
           NEW from \in Stages, NEW to \in Stages, from # "unused",
           Advance(n, k, from, to), UNCHANGED calls
    PROVE  Unstarted'
BY DEF Unstarted, Advance, TypeOK

LEMMA SpawnUnstarted ==
    ASSUME TypeOK, Unstarted, NEW n \in Nodes, Spawn(n) \/ UNCHANGED <<calls, stage>>
    PROVE  Unstarted'
<1>1. CASE UNCHANGED <<calls, stage>>
  BY <1>1 DEF Unstarted
<1>2. CASE Spawn(n)
  <2>1. \A m \in Nodes : calls[m] \in Nat /\ calls'[m] \in Nat /\ calls[m] <= calls'[m]
    BY <1>2, BoundsAssumption DEF Spawn, TypeOK
  <2>2. calls'[n] = calls[n] + 1
    BY <1>2 DEF Spawn, TypeOK
  <2>3. \A m \in Nodes, k \in Calls : <<m, k>> # <<n, calls[n] + 1>> => stage'[m][k] = stage[m][k]
    BY <1>2 DEF Spawn, TypeOK
  <2>4. \A k \in Calls : k \in Nat
    BY BoundsAssumption DEF Calls
  <2> QED
    BY <2>1, <2>2, <2>3, <2>4 DEF Unstarted
<1> QED
  BY <1>1, <1>2

LEMMA StopTimerUnstarted ==
    ASSUME Unstarted, NEW n \in Nodes, NEW st \in [Nodes -> [Calls -> Stages]],
           \A m \in Nodes, k \in Calls : k > calls[m] => st[m][k] = "unused",
           stage' = StopTimer(n, st), UNCHANGED calls
    PROVE  Unstarted'
BY DEF Unstarted, StopTimer

LEMMA NextUnstarted ==
    ASSUME TypeOK, Unstarted, [Next]_vars
    PROVE  Unstarted'
<1>1. ASSUME NEW n \in Nodes, StartElection(n) PROVE Unstarted'
  BY <1>1, AdvanceUnstarted
     DEF StartElection, Begin, AlreadyRunning, NobodyLower, Canvass, ArmTimer, Stages
<1>2. ASSUME NEW n \in Nodes, Elapse(n) PROVE Unstarted'
  BY <1>2, AdvanceUnstarted DEF Elapse, TimerFires, Stages
<1>3. ASSUME NEW n \in Nodes, Win(n) PROVE Unstarted'
  <2>1. PICK k \in Calls : declareVictory(n, k)
    BY <1>3 DEF Win
  <2> DEFINE st == [stage EXCEPT ![n][k] = "done"]
  <2>2. st \in [Nodes -> [Calls -> Stages]]
    BY DEF TypeOK, Stages
  <2>3. \A m \in Nodes, j \in Calls : j > calls[m] => st[m][j] = "unused"
    BY <2>1 DEF Unstarted, TypeOK, declareVictory
  <2>4. stage' = StopTimer(n, st) /\ UNCHANGED calls
    BY <2>1 DEF declareVictory
  <2> HIDE DEF st
  <2> QED
    BY <2>2, <2>3, <2>4, StopTimerUnstarted
<1>4. ASSUME NEW n \in Nodes, HandleElection(n) PROVE Unstarted'
  BY <1>4, SpawnUnstarted DEF HandleElection
<1>5. ASSUME NEW n \in Nodes, HandleElectionOK(n) PROVE Unstarted'
  <2>1. stage \in [Nodes -> [Calls -> Stages]]
    BY DEF TypeOK
  <2>2. stage' = StopTimer(n, stage) /\ UNCHANGED calls
    BY <1>5 DEF HandleElectionOK
  <2> QED
    BY <2>1, <2>2, StopTimerUnstarted DEF Unstarted
<1>6. ASSUME NEW n \in Nodes, Crash(n) PROVE Unstarted'
  BY <1>6 DEF Crash, Unstarted, TypeOK
<1>7. ASSUME NEW n \in Nodes, NEW p \in Nodes, Detect(n, p) \/ Suspect(n, p)
      PROVE  Unstarted'
  BY <1>7, SpawnUnstarted DEF Detect, Suspect, declareDead
<1>8. ASSUME UNCHANGED <<calls, stage>> PROVE Unstarted'
  BY <1>8 DEF Unstarted
<1>9. ASSUME NEW n \in Nodes, ClaimMastership(n) \/ HandleCoordinator(n) \/ Restart(n)
      PROVE  Unstarted'
  BY <1>8, <1>9 DEF ClaimMastership, HandleCoordinator, Restart, engineVars
<1>10. ASSUME NEW n \in Nodes, NEW p \in Nodes, MarkAlive(n, p) PROVE Unstarted'
  BY <1>8, <1>10 DEF MarkAlive, engineVars
<1>11. CASE Lose \/ UNCHANGED vars
  BY <1>8, <1>11 DEF Lose, vars, engineVars
<1> QED
  BY <1>1, <1>2, <1>3, <1>4, <1>5, <1>6, <1>7, <1>9, <1>10, <1>11 DEF Next, Handle

-----------------------------------------------------------------------------
(* Who is asked answers, or was asked in vain.                             *)

\* No fault but a crash has happened, and none happens.
LEMMA OnlyCrashes ==
    ASSUME TypeOK, [Next]_vars, happened' \subseteq {"crash"}
    PROVE  /\ happened \subseteq {"crash"}
           /\ ~Lose
           /\ \A n \in Nodes : ~Restart(n)
           /\ \A n, p \in Nodes : ~Suspect(n, p)
<1>1. ASSUME NEW kind \in Kinds, Spend(kind)
      PROVE  happened \subseteq happened' /\ kind \in happened'
  BY <1>1 DEF Spend
<1>2. ~Lose /\ \A n \in Nodes : ~Restart(n)
  BY <1>1 DEF Lose, Restart, Kinds
<1>3. \A n, p \in Nodes : ~Suspect(n, p)
  BY <1>1 DEF Suspect, Kinds
<1>4. ASSUME NEW n \in Nodes, StartElection(n) \/ Win(n) \/ ClaimMastership(n) \/ Handle(n)
      PROVE  happened' = happened
  BY <1>4 DEF StartElection, Begin, AlreadyRunning, NobodyLower, Canvass, ArmTimer, Win,
     declareVictory, ClaimMastership, Handle, HandleElection, HandleElectionOK,
     HandleCoordinator, envVars, faultVars
<1>5. ASSUME NEW n \in Nodes, Elapse(n) \/ Crash(n)
      PROVE  happened \subseteq happened'
  BY <1>1, <1>5 DEF Elapse, TimerFires, Expired, Crash, Kinds, faultVars
<1>6. ASSUME NEW n \in Nodes, NEW p \in Nodes, Detect(n, p) \/ MarkAlive(n, p)
      PROVE  happened \subseteq happened'
  BY <1>1, <1>6 DEF Detect, MarkAlive, Kinds, envVars, faultVars
<1>7. CASE UNCHANGED vars
  BY <1>2, <1>3, <1>7 DEF vars, envVars, faultVars
<1> QED
  BY <1>2, <1>3, <1>4, <1>5, <1>6, <1>7 DEF Next

\* A view loses only who has crashed.
LEMMA DoubtStep ==
    ASSUME TypeOK, NobodyDoubted, [Next]_vars, happened' \subseteq {"crash"}
    PROVE  NobodyDoubted' /\ up' \subseteq up /\ boot' = boot
<1>1. ASSUME NEW n \in Nodes,
             \/ StartElection(n) \/ Elapse(n) \/ Win(n) \/ ClaimMastership(n) \/ Handle(n)
      PROVE  UNCHANGED <<up, alive, boot>>
  BY <1>1 DEF StartElection, Begin, AlreadyRunning, NobodyLower, Canvass, ArmTimer, Elapse,
     TimerFires, Win, declareVictory, ClaimMastership, Handle, HandleElection,
     HandleElectionOK, HandleCoordinator, envVars, stateVars
<1>2. ASSUME NEW n \in Nodes, Crash(n)
      PROVE  up' \subseteq up /\ UNCHANGED <<alive, boot>>
  BY <1>2 DEF Crash, stateVars
<1>3. ASSUME NEW n \in Nodes, NEW p \in Nodes, Detect(n, p) \/ MarkAlive(n, p)
      PROVE  /\ UNCHANGED <<up, boot>>
             /\ \A m \in up : alive[m] \cap up \subseteq alive'[m]
  <2>1. alive \in [Nodes -> SUBSET Nodes] /\ up \subseteq Nodes
    BY DEF TypeOK
  <2>2. CASE Detect(n, p)
    BY <2>1, <2>2 DEF Detect, declareDead
  <2>3. CASE MarkAlive(n, p)
    BY <2>1, <2>3 DEF MarkAlive, envVars
  <2> QED
    BY <1>3, <2>2, <2>3
<1>4. CASE UNCHANGED vars
  BY <1>4 DEF vars, envVars, stateVars, NobodyDoubted
<1> QED
  BY <1>1, <1>2, <1>3, <1>4, OnlyCrashes DEF Next, NobodyDoubted

\* The step of another call keeps what has stepped a call down.
LEMMA AdvanceStepsDown ==
    ASSUME TypeOK, NEW n \in Nodes, NEW k \in Calls, NEW i \in Nodes, NEW j \in Calls,
           NEW from \in Stages, NEW to \in Stages, Advance(i, j, from, to), running' = running,
           \/ from \notin {"canvass", "arm", "timer", "victory"}
           \/ to \in {"canvass", "arm", "timer", "victory"}
           \/ i = n /\ (j = k \/ ~running[n])
    PROVE  SteppedDown(n, k) => SteppedDown(n, k)'
<1>1. CASE ~running[n]
  BY <1>1 DEF SteppedDown
<1>2. ASSUME NEW l \in Calls \ {k}, Pending(n, l), running[n] PROVE Pending(n, l)'
  BY <1>2 DEF Advance, Pending, TypeOK
<1> QED
  BY <1>1, <1>2 DEF SteppedDown

\* So does a goroutine that is only started.
LEMMA SpawnStepsDown ==
    ASSUME TypeOK, Unstarted, NEW n \in Nodes, NEW k \in Calls, NEW i \in Nodes,
           Spawn(i) \/ UNCHANGED <<calls, stage>>, running' = running
    PROVE  /\ SteppedDown(n, k) => SteppedDown(n, k)'
           /\ stage'[n][k] \in {"arm", "timer"} => stage'[n][k] = stage[n][k]
<1>1. CASE UNCHANGED <<calls, stage>>
  BY <1>1 DEF SteppedDown, Pending
<1>2. CASE Spawn(i)
  <2>1. /\ calls[i] + 1 \in Calls /\ calls[i] + 1 > calls[i]
    BY <1>2, BoundsAssumption DEF Spawn, Calls, TypeOK
  <2>2. /\ stage[i][calls[i] + 1] = "unused" /\ stage'[i][calls[i] + 1] = "start"
        /\ \A m \in Nodes, l \in Calls :
              <<m, l>> # <<i, calls[i] + 1>> => stage'[m][l] = stage[m][l]
    BY <1>2, <2>1 DEF Spawn, Unstarted, TypeOK
  <2> QED
    BY <2>2 DEF SteppedDown, Pending
<1> QED
  BY <1>1, <1>2

\* What stops a timer of n clears its flag; of another node, concerns n not.
LEMMA ClearingStepsDown ==
    ASSUME TypeOK, NEW n \in Nodes, NEW k \in Calls, NEW i \in Nodes,
           Win(i) \/ HandleElectionOK(i) \/ Crash(i)
    PROVE  /\ SteppedDown(n, k) => SteppedDown(n, k)'
           /\ i = n => SteppedDown(n, k)'
           /\ i # n => stage'[n] = stage[n]
<1>1. running' = [running EXCEPT ![i] = FALSE]
  BY DEF Win, declareVictory, HandleElectionOK, Crash
<1>2. i # n => stage'[n] = stage[n]
  <2>1. CASE Win(i)
    <3>1. PICK l \in Calls : stage' = StopTimer(i, [stage EXCEPT ![i][l] = "done"])
      BY <2>1 DEF Win, declareVictory
    <3> QED
      BY <3>1 DEF StopTimer, TypeOK
  <2>2. CASE HandleElectionOK(i)
    BY <2>2 DEF HandleElectionOK, StopTimer, TypeOK
  <2>3. CASE Crash(i)
    BY <2>3 DEF Crash, TypeOK
  <2> QED
    BY <2>1, <2>2, <2>3
<1>3. CASE i = n
  BY <1>1, <1>3 DEF SteppedDown, TypeOK
<1>4. CASE i # n
  BY <1>1, <1>2, <1>4 DEF SteppedDown, Pending, TypeOK
<1> QED
  BY <1>2, <1>3, <1>4

\* A question turns into its answer, and an answer stays until it is handled.
LEMMA AskedStep ==
    ASSUME TypeOK, [Next]_vars, NEW n \in up, NEW m \in up, NEW k \in Calls, m < n,
           n \in up', m \in up', boot' = boot, ~Lose, ~HandleElectionOK(n),
           AskedIn(n, m, k)
    PROVE  AskedIn(n, m, k)'
<1>1. PICK q \in msgs : /\ q.seq = k
                        /\ \/ q.type = "ELECTION" /\ q.from = n /\ q.to = m /\ q.boot = boot[n]
                           \/ q.type = "OK" /\ q.to = n
  BY DEF AskedIn
<1>2. ASSUME q \in msgs' PROVE AskedIn(n, m, k)'
  BY <1>1, <1>2 DEF AskedIn
<1>3. ASSUME NEW i \in Nodes,
             StartElection(i) \/ Elapse(i) \/ Win(i) \/ ClaimMastership(i) \/ Restart(i)
      PROVE  msgs \subseteq msgs'
  BY <1>3 DEF StartElection, Begin, AlreadyRunning, NobodyLower, Canvass, ArmTimer, Elapse,
     TimerFires, Win, declareVictory, ClaimMastership, Announce, Post, Restart
<1>4. ASSUME NEW i \in Nodes, NEW p \in Nodes, Detect(i, p) \/ Suspect(i, p) \/ MarkAlive(i, p)
      PROVE  msgs \subseteq msgs'
  BY <1>4 DEF Detect, Suspect, declareDead, MarkAlive
<1>5. ASSUME NEW i \in Nodes, HandleCoordinator(i) \/ (HandleElectionOK(i) /\ i # n)
      PROVE  q \in msgs'
  BY <1>1, <1>5 DEF HandleCoordinator, HandleElectionOK
<1>6. ASSUME NEW i \in Nodes, Crash(i) PROVE q \in msgs'
  <2>1. i # n /\ i # m
    BY <1>6 DEF Crash, TypeOK
  <2> QED
    BY <1>1, <1>6, <2>1 DEF Crash
<1>7. ASSUME NEW i \in Nodes, HandleElection(i), q \notin msgs' PROVE AskedIn(n, m, k)'
  <2>1. PICK r \in msgs : /\ r.type = "ELECTION"
                          /\ IF i >= r.from
                             THEN msgs' = msgs \ {r}
                             ELSE msgs' = (msgs \ {r}) \cup
                                    {o \in {Msg("OK", i, r.from, r.boot, r.seq)} : o.to \in up}
                          /\ r.to = i
    BY <1>7 DEF HandleElection
  <2>2. r = q
    BY <1>7, <2>1
  <2>3. q.from = n /\ i = m
    BY <1>1, <2>1, <2>2
  <2>4. n \in Nat /\ m \in Nat
    BY NodesAssumption DEF TypeOK
  <2>5. ~(i >= r.from)
    BY <2>2, <2>3, <2>4
  <2> DEFINE ok == Msg("OK", i, n, q.boot, q.seq)
  <2>6. ok.to = n /\ ok.type = "OK" /\ ok.seq = k
    BY <1>1 DEF Msg
  <2>7. ok \in msgs'
    BY <2>1, <2>2, <2>3, <2>5, <2>6
  <2> QED
    BY <2>6, <2>7 DEF AskedIn
<1>8. CASE UNCHANGED vars
  BY <1>2, <1>8 DEF vars
<1> QED
  BY <1>2, <1>3, <1>4, <1>5, <1>6, <1>7, <1>8 DEF Next, Handle

\* What steps a call of n down, and how a call gets to its timer.
LEMMA SteppedStep ==
    ASSUME TypeOK, Unstarted, [Next]_vars, NEW n \in Nodes, NEW k \in Calls,
           ~Lose, \A i \in Nodes : ~Restart(i)
    PROVE  /\ SteppedDown(n, k) /\ stage[n][k] # "start" => SteppedDown(n, k)'
           /\ HandleElectionOK(n) => SteppedDown(n, k)'
           /\ stage'[n][k] \in {"arm", "timer"} =>
                \/ stage[n][k] \in {"arm", "timer"}
                \/ Canvass(n, k)
                \/ SteppedDown(n, k)'
<1> DEFINE Goal == /\ SteppedDown(n, k) /\ stage[n][k] # "start" => SteppedDown(n, k)'
                   /\ stage'[n][k] \in {"arm", "timer"} =>
                        \/ stage[n][k] \in {"arm", "timer"}
                        \/ Canvass(n, k)
                        \/ SteppedDown(n, k)'
<1>1. ASSUME UNCHANGED <<stage, running>> PROVE Goal
  BY <1>1 DEF SteppedDown, Pending
<1>2. ASSUME NEW i \in Nodes, NEW j \in Calls, Begin(i, j) PROVE Goal
  <2>1. /\ \A l \in Calls : Pending(n, l) => Pending(n, l)'
        /\ stage'[n][k] \in {"arm", "timer"} => stage'[n][k] = stage[n][k]
    BY <1>2 DEF Begin, Advance, Pending, TypeOK
  <2>2. CASE i = n /\ j # k
    BY <1>2, <2>1, <2>2 DEF Begin, Advance, SteppedDown, Pending, TypeOK
  <2>3. CASE i # n
    BY <1>2, <2>1, <2>3 DEF Begin, SteppedDown, TypeOK
  <2>4. CASE i = n /\ j = k
    BY <1>2, <2>1, <2>4 DEF Begin, Advance
  <2> QED
    BY <2>2, <2>3, <2>4
<1>3. ASSUME NEW i \in Nodes, NEW j \in Calls,
             AlreadyRunning(i, j) \/ NobodyLower(i, j) \/ Canvass(i, j) \/ ArmTimer(i, j)
      PROVE  Goal
  <2>1. SteppedDown(n, k) => SteppedDown(n, k)'
    BY <1>3, AdvanceStepsDown DEF AlreadyRunning, NobodyLower, Canvass, ArmTimer, Stages
  <2>2. <<i, j>> # <<n, k>> => stage'[n][k] = stage[n][k]
    BY <1>3 DEF AlreadyRunning, NobodyLower, Canvass, ArmTimer, Advance, TypeOK
  <2>3. <<i, j>> = <<n, k>> => stage'[n][k] \in {"done", "victory"} \/ Canvass(n, k) \/ stage[n][k] = "arm"
    BY <1>3 DEF AlreadyRunning, NobodyLower, ArmTimer, Advance, TypeOK
  <2> QED
    BY <2>1, <2>2, <2>3
<1>4. ASSUME NEW i \in Nodes, NEW j \in Calls, TimerFires(i, j) PROVE Goal
  <2>1. CASE running[i]
    BY <1>4, <2>1, AdvanceStepsDown DEF TimerFires, Stages, Advance, TypeOK
  <2>2. CASE ~running[i]
    <3>1. SteppedDown(n, k) => SteppedDown(n, k)'
      BY <1>4, <2>2 DEF TimerFires, Advance, SteppedDown, Pending, TypeOK
    <3> QED
      BY <1>4, <2>2, <3>1 DEF TimerFires, Advance, TypeOK
  <2> QED
    BY <2>1, <2>2
<1>5. ASSUME NEW i \in Nodes, Win(i) \/ HandleElectionOK(i) \/ Crash(i)
      PROVE  Goal /\ (HandleElectionOK(n) => SteppedDown(n, k)')
  BY <1>5, ClearingStepsDown
<1>6. ASSUME NEW i \in Nodes, HandleElection(i) PROVE Goal
  BY <1>6, SpawnStepsDown DEF HandleElection
<1>7. ASSUME NEW i \in Nodes, NEW p \in Nodes, Detect(i, p) \/ Suspect(i, p) PROVE Goal
  BY <1>7, SpawnStepsDown DEF Detect, Suspect, declareDead
<1>8. ASSUME NEW i \in Nodes, ClaimMastership(i) \/ HandleCoordinator(i) PROVE Goal
  BY <1>1, <1>8 DEF ClaimMastership, HandleCoordinator, engineVars
<1>9. ASSUME NEW i \in Nodes, NEW p \in Nodes, MarkAlive(i, p) PROVE Goal
  BY <1>1, <1>9 DEF MarkAlive, engineVars
<1>10. ASSUME UNCHANGED vars PROVE Goal
  <2>1. UNCHANGED <<stage, running>>
    BY <1>10 DEF vars, engineVars
  <2> QED
    BY <1>1, <2>1
<1> HIDE DEF Goal
<1>11. Goal
  BY <1>2, <1>3, <1>4, <1>5, <1>6, <1>7, <1>8, <1>9, <1>10
     DEF Next, StartElection, Elapse, Handle
<1>12. HandleElectionOK(n) => SteppedDown(n, k)'
  BY <1>5
<1> QED
  BY <1>11, <1>12 DEF Goal

\* Whoever canvasses asks all smaller live nodes.
LEMMA CanvassAsks ==
    ASSUME TypeOK, NobodyDoubted, NEW n \in up, NEW k \in Calls, Canvass(n, k),
           NEW m \in up, m < n
    PROVE  AskedIn(n, m, k)'
<1>1. m \in lowerNodes(n)
  BY NodesAssumption DEF NobodyDoubted, lowerNodes, TypeOK
<1> DEFINE q == Msg("ELECTION", n, m, boot[n], k)
<1>2. q.type = "ELECTION" /\ q.from = n /\ q.to = m /\ q.boot = boot[n] /\ q.seq = k
  BY DEF Msg
<1>3. q \in msgs'
  BY <1>1, <1>2 DEF Canvass, Post
<1>4. boot' = boot
  BY DEF Canvass, envVars
<1> QED
  BY <1>2, <1>3, <1>4 DEF AskedIn

LEMMA AnswerStep ==
    ASSUME IInv, NobodyDoubted, AllAnswer, [Next]_vars, happened' \subseteq {"crash"}
    PROVE  AllAnswer'
<1> SUFFICES ASSUME NEW n \in up', NEW k \in Calls, stage'[n][k] \in {"arm", "timer"},
                    NEW m \in up', m < n
             PROVE  AskedIn(n, m, k)' \/ SteppedDown(n, k)'
  BY DEF AllAnswer
<1>1. /\ n \in up /\ m \in up /\ n \in Nodes /\ boot' = boot
      /\ ~Lose /\ \A i \in Nodes : ~Restart(i)
  BY DoubtStep, OnlyCrashes DEF IInv, TypeOK
<1>2. CASE Canvass(n, k)
  BY <1>1, <1>2, CanvassAsks DEF IInv
<1>3. CASE stage[n][k] \in {"arm", "timer"}
  <2>1. CASE SteppedDown(n, k) \/ HandleElectionOK(n)
    BY <1>1, <1>3, <2>1, SteppedStep DEF IInv
  <2>2. CASE AskedIn(n, m, k) /\ ~HandleElectionOK(n)
    BY <1>1, <2>2, AskedStep DEF IInv
  <2> QED
    BY <1>1, <1>3, <2>1, <2>2 DEF AllAnswer
<1> QED
  BY <1>1, <1>2, <1>3, SteppedStep DEF IInv

\* Only the timer's function leads from the timer to a victory.
LEMMA OnlyTimerFires ==
    ASSUME TypeOK, Unstarted, [Next]_vars, NEW n \in Nodes, NEW k \in Calls,
           stage[n][k] = "timer", stage'[n][k] = "victory"
    PROVE  TimerFires(n, k)
<1>1. ASSUME NEW i \in Nodes, NEW j \in Calls,
             \/ Begin(i, j) \/ AlreadyRunning(i, j) \/ NobodyLower(i, j)
             \/ Canvass(i, j) \/ ArmTimer(i, j)
      PROVE  FALSE
  <2>1. PICK from, to \in Stages : Advance(i, j, from, to) /\ (from # "timer" \/ to # "victory")
    BY <1>1 DEF Begin, AlreadyRunning, NobodyLower, Canvass, ArmTimer, Stages
  <2> QED
    BY <2>1 DEF Advance, TypeOK
<1>2. ASSUME NEW i \in Nodes, NEW j \in Calls, TimerFires(i, j) PROVE TimerFires(n, k)
  <2>1. <<i, j>> = <<n, k>>
    BY <1>2 DEF TimerFires, Advance, TypeOK
  <2> QED
    BY <1>2, <2>1
<1>3. ASSUME NEW i \in Nodes, Win(i) \/ HandleElectionOK(i) \/ Crash(i) PROVE FALSE
  <2>1. CASE Win(i)
    <3>1. PICK l \in Calls : stage' = StopTimer(i, [stage EXCEPT ![i][l] = "done"])
      BY <2>1 DEF Win, declareVictory
    <3>2. stage'[n][k] \in {"done", stage[n][k]}
      BY <3>1 DEF StopTimer, TypeOK
    <3> QED
      BY <3>2
  <2>2. CASE HandleElectionOK(i)
    BY <2>2 DEF HandleElectionOK, StopTimer, TypeOK
  <2>3. CASE Crash(i)
    BY <2>3 DEF Crash, TypeOK
  <2> QED
    BY <1>3, <2>1, <2>2, <2>3
<1>4. ASSUME NEW i \in Nodes, Spawn(i) PROVE stage'[n][k] # "victory"
  BY <1>4 DEF Spawn, TypeOK
<1>5. ASSUME UNCHANGED stage PROVE FALSE
  BY <1>5
<1>6. ASSUME NEW i \in Nodes, HandleElection(i) PROVE FALSE
  BY <1>4, <1>5, <1>6 DEF HandleElection
<1>7. ASSUME NEW i \in Nodes, NEW p \in Nodes, Detect(i, p) \/ Suspect(i, p) \/ MarkAlive(i, p)
      PROVE  FALSE
  BY <1>4, <1>5, <1>7 DEF Detect, Suspect, declareDead, MarkAlive, engineVars
<1>8. ASSUME NEW i \in Nodes, ClaimMastership(i) \/ HandleCoordinator(i) \/ Restart(i)
      PROVE  FALSE
  BY <1>5, <1>8 DEF ClaimMastership, HandleCoordinator, Restart, engineVars
<1>9. CASE Lose \/ UNCHANGED vars
  BY <1>5, <1>9 DEF Lose, vars, engineVars
<1> QED
  BY <1>1, <1>2, <1>3, <1>6, <1>7, <1>8, <1>9 DEF Next, StartElection, Elapse, Handle

-----------------------------------------------------------------------------
(* The theorems.                                                           *)

LEMMA InitIInv == Init => IInv
<1> SUFFICES ASSUME Init PROVE IInv
  OBVIOUS
<1>1. Unstarted /\ RunningHasOwner
  BY DEF Init, Unstarted, RunningHasOwner
<1> QED
  BY <1>1, InitType DEF IInv

LEMMA NextIInv == IInv /\ [Next]_vars => IInv'
BY NextType, NextUnstarted, NextOwners DEF IInv

\* The inductive invariant of the election, whatever crashes, is lost or late.
THEOREM Invariance == Spec => []IInv
BY InitIInv, NextIInv, PTL DEF Spec

\* Whenever running is set a goroutine or a timer of this process will still
\* clear it, so that no node stays out of later elections (election.go:46).
THEOREM RunningIsOwned == Spec => []RunningHasOwner
<1>1. IInv => RunningHasOwner
  BY DEF IInv
<1> QED
  BY <1>1, Invariance, PTL

LEMMA InitUInv == Init => UInv
<1> SUFFICES ASSUME Init PROVE NobodyDoubted /\ AllAnswer
  BY DEF UInv
<1>1. up \subseteq Nodes
  BY BoundsAssumption DEF Init
<1> QED
  BY <1>1 DEF Init, NobodyDoubted, AllAnswer

LEMMA NextUInv == IInv /\ UInv /\ [Next]_vars => UInv'
<1> SUFFICES ASSUME IInv, UInv, [Next]_vars, happened' \subseteq {"crash"}
             PROVE  NobodyDoubted' /\ AllAnswer'
  BY DEF UInv
<1> QED
  BY OnlyCrashes, DoubtStep, AnswerStep DEF UInv, IInv

\* What a timer that still finds running set says of its node (election.go:72).
LEMMA Usurping ==
    ASSUME IInv, UInv, [Next]_vars, happened' \subseteq {"crash"},
           NEW n \in up, NEW k \in Calls, stage[n][k] = "timer", stage'[n][k] = "victory",
           n # Smallest(up)
    PROVE  \E j \in Calls \ {k} : Pending(n, j)
<1>1. happened \subseteq {"crash"} /\ up \subseteq Nodes
  BY OnlyCrashes DEF IInv, TypeOK
<1>2. PICK m \in up : m < n
  <2>1. up \subseteq Nat
    BY <1>1, NodesAssumption
  <2>2. ASSUME \A m \in up : n <= m PROVE n = Smallest(up)
    <3>1. \A x \in up : (\A m \in up : x <= m) => x = n
      BY <2>1, <2>2
    <3> QED
      BY <2>2, <3>1 DEF Smallest
  <2> QED
    BY <2>1, <2>2
<1>3. TimerFires(n, k)
  BY <1>1, OnlyTimerFires DEF IInv
<1>4. running[n]
  BY <1>1, <1>3 DEF TimerFires, Advance, IInv, TypeOK
<1>5. ~AskedIn(n, m, k)
  <2> SUFFICES ASSUME AskedIn(n, m, k) PROVE FALSE
    OBVIOUS
  <2>1. k \in Nat
    BY BoundsAssumption DEF Calls
  <2>2. Spend("late")
    BY <1>3, <2>1 DEF TimerFires, Expired, AskedIn
  <2> QED
    BY <2>2 DEF Spend, IInv, TypeOK
<1> QED
  BY <1>1, <1>2, <1>4, <1>5 DEF UInv, AllAnswer, SteppedDown

\* With crashes alone, a timer makes a node the master over a smaller live one
\* only if another call of that node has set running again.
THEOREM UsurpersAreStale == Spec => OnlyStaleTimersUsurp
<1>1. IInv /\ UInv /\ [Next]_vars =>
        [happened' \subseteq {"crash"} =>
          \A n \in up, k \in Calls :
            stage[n][k] = "timer" /\ stage'[n][k] = "victory" /\ n # Smallest(up)
                => \E j \in Calls \ {k} : Pending(n, j)]_vars
  BY Usurping
<1>2. Spec => []UInv
  BY InitUInv, NextUInv, Invariance, PTL DEF Spec
<1> QED
  BY <1>1, <1>2, Invariance, PTL DEF Spec, OnlyStaleTimersUsurp
=============================================================================
