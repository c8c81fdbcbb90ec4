-------------------------- MODULE HeartbeatProofs --------------------------
(***************************************************************************)
(* The theorems about Heartbeat, for any peers, any number of overlapping  *)
(* pings, any maxMissed and any number of faults.                          *)
(***************************************************************************)
EXTENDS Heartbeat, TLAPS

-----------------------------------------------------------------------------
(* Type correctness.                                                       *)

LEMMA SpendType ==
    ASSUME TypeOK, NEW kind \in Kinds, Spend(kind)
    PROVE  budget' \in [Kinds -> Nat]
BY DEF TypeOK, Spend

LEMMA GoType ==
    ASSUME TypeOK, NEW p \in Peers, NEW k \in Slots,
           NEW from, NEW to \in Stages, Go(p, k, from, to)
    PROVE  stage' \in [Peers -> [Slots -> Stages]]
BY DEF TypeOK, Go

LEMMA TroubleType ==
    ASSUME TypeOK, NEW p \in Peers, NEW kind \in Kinds, Trouble(p, kind)
    PROVE  trouble' \in [Peers -> Nat] /\ budget' \in [Kinds -> Nat]
BY SpendType DEF TypeOK, Trouble

LEMMA NoneType == None \in [Reactions -> Nat]
BY DEF None

LEMMA InitType == Init => TypeOK
<1> SUFFICES ASSUME Init PROVE TypeOK
  OBVIOUS
<1>1. /\ up \in SUBSET Peers /\ alive \in SUBSET Peers
      /\ master \in Peers \cup {Self} /\ inFlight \in SUBSET Peers
      /\ full \in [Peers -> SUBSET Slots] /\ refs \in [Peers -> SUBSET Slots]
      /\ pongChs \in [Peers -> Slots \cup {NoSlot}]
  BY DEF Init
<1>2. stage \in [Peers -> [Slots -> Stages]]
  BY DEF Init, Stages
<1>3. /\ missed \in [Peers -> 0..MaxMissed] /\ trouble \in [Peers -> Nat]
      /\ pings \in [Peers -> Nat] /\ pongs \in [Peers -> Nat]
  BY MissedAssumption DEF Init
<1>4. reactions \in [Peers -> [Reactions -> Nat]]
  BY NoneType DEF Init
<1>5. budget \in [Kinds -> Nat]
  BY BoundsAssumption DEF Init
<1> QED
  BY <1>1, <1>2, <1>3, <1>4, <1>5 DEF TypeOK

\* Steps of pingOne that move the goroutine and the channel alone.
LEMMA PingType ==
    ASSUME TypeOK, NEW p \in Peers, NEW k \in Slots,
           \/ Tick(p, k) \/ BeginPing(p, k) \/ SkipPing(p, k) \/ Register(p, k)
           \/ SendPing(p, k) \/ Forget(p, k) \/ Exit(p, k) \/ CheckAlive(p, k)
           \/ MarkDead(p, k)
    PROVE  TypeOK'
<1>1. stage' \in [Peers -> [Slots -> Stages]]
  BY GoType DEF Tick, BeginPing, SkipPing, Register, SendPing, Forget, Exit, CheckAlive,
                MarkDead, Stages
<1>2. inFlight' \in SUBSET Peers /\ alive' \in SUBSET Peers
  BY DEF TypeOK, Tick, BeginPing, SkipPing, Register, SendPing, Forget, Exit, CheckAlive,
         MarkDead, stateVars
<1>3. /\ pongChs' \in [Peers -> Slots \cup {NoSlot}]
      /\ full' \in [Peers -> SUBSET Slots]
      /\ refs' \in [Peers -> SUBSET Slots]
  <2>1. CASE Register(p, k)
    <3>1. pongChs' \in [Peers -> Slots \cup {NoSlot}]
      BY <2>1 DEF TypeOK, Register
    <3>2. full' \in [Peers -> SUBSET Slots] /\ refs' \in [Peers -> SUBSET Slots]
      BY <2>1 DEF TypeOK, Register
    <3> QED
      BY <3>1, <3>2
  <2>2. CASE Forget(p, k)
    BY <2>2 DEF TypeOK, Forget
  <2>3. CASE UNCHANGED <<pongChs, full, refs>>
    BY <2>3 DEF TypeOK
  <2> QED
    BY <2>1, <2>2, <2>3 DEF Tick, BeginPing, SkipPing, SendPing, Exit, CheckAlive, MarkDead
<1>4. pings' \in [Peers -> Nat]
  <2>1. CASE SendPing(p, k)
    BY <2>1 DEF TypeOK, SendPing
  <2>2. CASE UNCHANGED pings
    BY <2>2 DEF TypeOK
  <2> QED
    BY <2>1, <2>2 DEF Tick, BeginPing, SkipPing, Register, Forget, Exit, CheckAlive,
                      MarkDead, netVars
<1>5. UNCHANGED <<missed, master, reactions, trouble, pongs, up, budget>>
  BY DEF Tick, BeginPing, SkipPing, Register, SendPing, Forget, Exit, CheckAlive,
         MarkDead, stateVars, netVars
<1> QED
  BY <1>1, <1>2, <1>3, <1>4, <1>5 DEF TypeOK

LEMMA PongType ==
    ASSUME TypeOK, NEW p \in Peers, NEW k \in Slots, Pong(p, k)
    PROVE  TypeOK'
<1>1. stage' \in [Peers -> [Slots -> Stages]]
  BY GoType DEF Pong, Stages
<1>2. full' \in [Peers -> SUBSET Slots] /\ alive' \in SUBSET Peers
  BY DEF TypeOK, Pong
<1>3. missed' \in [Peers -> 0..MaxMissed] /\ trouble' \in [Peers -> Nat]
  BY MissedAssumption DEF TypeOK, Pong
<1>4. reactions' \in [Peers -> [Reactions -> Nat]]
  BY NoneType DEF TypeOK, Pong
<1>5. UNCHANGED <<inFlight, pongChs, refs, master, pings, pongs, up, budget>>
  BY DEF Pong, netVars
<1> QED
  BY <1>1, <1>2, <1>3, <1>4, <1>5 DEF TypeOK

LEMMA MissType ==
    ASSUME TypeOK, NEW p \in Peers, NEW k \in Slots, Miss(p, k)
    PROVE  TypeOK'
<1>1. stage' \in [Peers -> [Slots -> Stages]]
  BY GoType DEF Miss, Stages
<1>2. missed' \in [Peers -> 0..MaxMissed]
  BY MissedAssumption DEF TypeOK, Miss
<1>3. trouble' \in [Peers -> Nat] /\ budget' \in [Kinds -> Nat]
  BY TroubleType DEF TypeOK, Miss, Kinds
<1>4. UNCHANGED <<inFlight, pongChs, full, refs, alive, master, reactions, pings, pongs, up>>
  BY DEF Miss, netVars
<1> QED
  BY <1>1, <1>2, <1>3, <1>4 DEF TypeOK

LEMMA ReactType ==
    ASSUME TypeOK, NEW p \in Peers, NEW k \in Slots, NEW from, NEW here \in BOOLEAN,
           NEW kind \in Reactions, NEW to \in Stages, React(p, k, from, here, kind, to)
    PROVE  TypeOK'
<1>1. stage' \in [Peers -> [Slots -> Stages]]
  BY GoType DEF React, Stages
<1>2. reactions' \in [Peers -> [Reactions -> Nat]]
  BY DEF TypeOK, React
<1>3. UNCHANGED <<inFlight, pongChs, full, refs, missed, alive, master, trouble, pings, pongs,
                  up, budget>>
  BY DEF React, netVars
<1> QED
  BY <1>1, <1>2, <1>3 DEF TypeOK

\* The handlers and the environment.
LEMMA HandlePingType ==
    ASSUME TypeOK, NEW p \in Peers, HandlePing(p)
    PROVE  TypeOK'
<1>1. pings' \in [Peers -> Nat] /\ pongs' \in [Peers -> Nat]
  BY DEF TypeOK, HandlePing
<1>2. UNCHANGED <<pingVars, stateVars, up, budget>>
  BY DEF HandlePing
<1> QED
  BY <1>1, <1>2 DEF TypeOK, pingVars, stateVars

LEMMA HandlePongType ==
    ASSUME TypeOK, NEW p \in Peers, HandlePong(p)
    PROVE  TypeOK'
<1>1. CASE LookUp(p)
  <2>1. pongs' \in [Peers -> Nat]
    BY <1>1 DEF TypeOK, LookUp
  <2>2. refs' \in [Peers -> SUBSET Slots]
    BY <1>1 DEF TypeOK, LookUp
  <2>3. UNCHANGED <<stage, inFlight, pongChs, full, missed, stateVars, pings, up, budget>>
    BY <1>1 DEF LookUp
  <2> QED
    BY <2>1, <2>2, <2>3 DEF TypeOK, stateVars
<1>2. ASSUME NEW k \in Slots, Deliver(p, k) PROVE TypeOK'
  <2>1. refs' \in [Peers -> SUBSET Slots] /\ full' \in [Peers -> SUBSET Slots]
    BY <1>2 DEF TypeOK, Deliver
  <2>2. UNCHANGED <<stage, inFlight, pongChs, missed, stateVars, netVars, up, budget>>
    BY <1>2 DEF Deliver
  <2> QED
    BY <2>1, <2>2 DEF TypeOK, stateVars, netVars
<1> QED
  BY <1>1, <1>2 DEF HandlePong

LEMMA FaultType ==
    ASSUME TypeOK, NEW p \in Peers, Crash(p) \/ Restart(p) \/ LosePing(p) \/ LosePong(p)
    PROVE  TypeOK'
<1>1. trouble' \in [Peers -> Nat] /\ budget' \in [Kinds -> Nat]
  BY SpendType, TroubleType
     DEF Crash, Restart, LosePing, LosePong, stateVars, Kinds, TypeOK
<1>2. pings' \in [Peers -> Nat] /\ pongs' \in [Peers -> Nat]
  <2>1. CASE Crash(p)
    BY <2>1 DEF TypeOK, Crash
  <2>2. CASE Restart(p)
    BY <2>2 DEF TypeOK, Restart, netVars
  <2>3. CASE LosePing(p)
    BY <2>3 DEF TypeOK, LosePing
  <2>4. CASE LosePong(p)
    BY <2>4 DEF TypeOK, LosePong
  <2> QED
    BY <2>1, <2>2, <2>3, <2>4
<1>3. up' \in SUBSET Peers
  BY DEF TypeOK, Crash, Restart, LosePing, LosePong
<1>4. UNCHANGED <<stage, inFlight, pongChs, full, refs, missed, alive, master, reactions>>
  BY DEF Crash, Restart, LosePing, LosePong, pingVars, stateVars
<1> QED
  BY <1>1, <1>2, <1>3, <1>4 DEF TypeOK

LEMMA MasterType ==
    ASSUME TypeOK, NEW m \in Peers \cup {Self}, SetMasterID(m)
    PROVE  TypeOK'
<1>1. budget' \in [Kinds -> Nat]
  BY SpendType DEF SetMasterID, Kinds
<1> QED
  BY <1>1 DEF SetMasterID, pingVars, netVars, TypeOK

LEMMA DeclareDeadType ==
    ASSUME TypeOK, NEW p \in Peers, NEW k \in Slots, declareDead(p, k)
    PROVE  TypeOK'
<1>1. CASE CheckAlive(p, k) \/ MarkDead(p, k)
  BY <1>1, PingType
<1>2. CASE MasterDied(p, k)
  BY <1>2, ReactType DEF MasterDied, Reactions, Stages
<1>3. CASE OnNodeDead(p, k)
  BY <1>3, ReactType DEF OnNodeDead, Reactions, Stages
<1>4. CASE NotifyMaster(p, k)
  BY <1>4, ReactType DEF NotifyMaster, Reactions, Stages
<1> QED
  BY <1>1, <1>2, <1>3, <1>4 DEF declareDead

LEMMA NextType == TypeOK /\ [Next]_vars => TypeOK'
<1> SUFFICES ASSUME TypeOK, [Next]_vars PROVE TypeOK'
  OBVIOUS
<1>1. ASSUME NEW p \in Peers, NEW k \in Slots, Tick(p, k) \/ pingOne(p, k) \/ Miss(p, k)
      PROVE  TypeOK'
  BY <1>1, PingType, PongType, MissType, DeclareDeadType DEF pingOne
<1>2. ASSUME NEW p \in Peers, HandlePing(p) \/ HandlePong(p) PROVE TypeOK'
  BY <1>2, HandlePingType, HandlePongType
<1>3. ASSUME NEW p \in Peers, Crash(p) \/ Restart(p) \/ LosePing(p) \/ LosePong(p)
      PROVE  TypeOK'
  BY <1>3, FaultType
<1>4. ASSUME NEW m \in Peers \cup {Self}, SetMasterID(m) PROVE TypeOK'
  BY <1>4, MasterType
<1>5. CASE UNCHANGED vars
  BY <1>5 DEF vars, pingVars, stateVars, netVars, TypeOK
<1> QED
  BY <1>1, <1>2, <1>3, <1>4, <1>5 DEF Next

-----------------------------------------------------------------------------
(* One ping at a time, and its channel.                                    *)

LEMMA GoMoves ==
    ASSUME TypeOK, NEW p \in Peers, NEW k \in Slots, NEW from, NEW to, Go(p, k, from, to)
    PROVE  /\ stage[p][k] = from
           /\ stage'[p][k] = to
           /\ \A q \in Peers, j \in Slots : <<q, j>> # <<p, k>> => stage'[q][j] = stage[q][j]
BY DEF TypeOK, Go

\* A goroutine that goes on, within pingOne or before it.
LEMMA GoOn ==
    ASSUME TypeOK, OneAtATime, NEW p \in Peers, NEW k \in Slots,
           NEW from, NEW to, Go(p, k, from, to), UNCHANGED inFlight,
           to \in Active => from \in Active
    PROVE  OneAtATime'
BY GoMoves DEF OneAtATime

LEMMA BeginOne ==
    ASSUME TypeOK, OneAtATime, NEW p \in Peers, NEW k \in Slots, BeginPing(p, k)
    PROVE  OneAtATime'
<1>1. \A q \in Peers, j \in Slots : <<q, j>> # <<p, k>> => stage'[q][j] = stage[q][j]
  BY GoMoves DEF BeginPing
<1>2. \A j \in Slots : stage[p][j] \notin Active
  BY DEF OneAtATime, BeginPing
<1>3. \A q \in Peers : q # p => (q \in inFlight' <=> q \in inFlight)
  BY DEF BeginPing
<1>4. p \in inFlight'
  BY DEF BeginPing
<1> QED
  BY <1>1, <1>2, <1>3, <1>4 DEF OneAtATime

LEMMA ExitOne ==
    ASSUME TypeOK, OneAtATime, NEW p \in Peers, NEW k \in Slots, Exit(p, k)
    PROVE  OneAtATime'
<1>1. /\ stage[p][k] = "exit" /\ stage'[p][k] = "free"
      /\ \A q \in Peers, j \in Slots : <<q, j>> # <<p, k>> => stage'[q][j] = stage[q][j]
  BY GoMoves DEF Exit
<1>2. \A j \in Slots : stage'[p][j] \notin Active
  BY <1>1 DEF OneAtATime, Active, Stages
<1>3. \A q \in Peers : q # p => (q \in inFlight' <=> q \in inFlight)
  BY DEF Exit
<1> QED
  BY <1>1, <1>2, <1>3 DEF OneAtATime

\* A step that leaves the goroutines alone.
LEMMA SamePings ==
    ASSUME UNCHANGED <<stage, inFlight, pongChs>>
    PROVE  /\ OneAtATime => OneAtATime'
           /\ Registered => Registered'
BY DEF OneAtATime, Registered

LEMMA DeclareDeadGoes ==
    ASSUME NEW p \in Peers, NEW k \in Slots, declareDead(p, k)
    PROVE  /\ UNCHANGED <<inFlight, pongChs>>
           /\ \E from, to \in Active \ {"register", "exit"} : Go(p, k, from, to)
<1>1. UNCHANGED <<inFlight, pongChs>>
  BY DEF declareDead, CheckAlive, MarkDead, MasterDied, OnNodeDead, NotifyMaster, React
<1>2. CASE CheckAlive(p, k)
  <2>1. CASE p \in alive
    BY <1>1, <1>2, <2>1 DEF CheckAlive, Active, Stages
  <2>2. CASE p \notin alive
    BY <1>1, <1>2, <2>2 DEF CheckAlive, Active, Stages
  <2> QED
    BY <2>1, <2>2
<1>3. CASE MarkDead(p, k)
  BY <1>1, <1>3 DEF MarkDead, Active, Stages
<1>4. CASE MasterDied(p, k)
  <2>1. CASE p = master
    BY <1>1, <1>4, <2>1 DEF MasterDied, React, Active, Stages
  <2>2. CASE p # master
    BY <1>1, <1>4, <2>2 DEF MasterDied, React, Active, Stages
  <2> QED
    BY <2>1, <2>2
<1>5. CASE OnNodeDead(p, k)
  <2>1. CASE master = Self
    BY <1>1, <1>5, <2>1 DEF OnNodeDead, React, Active, Stages
  <2>2. CASE master # Self
    BY <1>1, <1>5, <2>2 DEF OnNodeDead, React, Active, Stages
  <2> QED
    BY <2>1, <2>2
<1>6. CASE NotifyMaster(p, k)
  BY <1>1, <1>6 DEF NotifyMaster, React, Active, Stages
<1> QED
  BY <1>2, <1>3, <1>4, <1>5, <1>6 DEF declareDead

\* ... and so does a step between the registration of the channel and its end.
LEMMA MiddleGoes ==
    ASSUME NEW p \in Peers, NEW k \in Slots, SendPing(p, k) \/ Pong(p, k) \/ Miss(p, k)
    PROVE  /\ UNCHANGED <<inFlight, pongChs>>
           /\ \E from, to \in Active \ {"register", "exit"} : Go(p, k, from, to)
<1>1. UNCHANGED <<inFlight, pongChs>>
  BY DEF SendPing, Pong, Miss
<1>2. CASE SendPing(p, k)
  BY <1>1, <1>2 DEF SendPing, Active, Stages
<1>3. CASE Pong(p, k)
  BY <1>1, <1>3 DEF Pong, Active, Stages
<1>4. CASE Miss(p, k)
  <2>1. CASE missed[p] + 1 >= MaxMissed
    BY <1>1, <1>4, <2>1 DEF Miss, Active, Stages
  <2>2. CASE ~(missed[p] + 1 >= MaxMissed)
    BY <1>1, <1>4, <2>2 DEF Miss, Active, Stages
  <2> QED
    BY <2>1, <2>2
<1> QED
  BY <1>2, <1>3, <1>4

\* The steps that no goroutine of pingOne takes.
LEMMA OutsideGoes ==
    ASSUME \/ \E p \in Peers : \/ HandlePing(p) \/ HandlePong(p) \/ Crash(p) \/ Restart(p)
                               \/ LosePing(p) \/ LosePong(p)
           \/ \E m \in Peers \cup {Self} : SetMasterID(m)
           \/ UNCHANGED vars
    PROVE  UNCHANGED <<stage, inFlight, pongChs>>
BY DEF HandlePing, HandlePong, LookUp, Deliver, Crash, Restart, LosePing, LosePong,
       SetMasterID, vars, pingVars

LEMMA NextOne ==
    ASSUME TypeOK, OneAtATime, [Next]_vars
    PROVE  OneAtATime'
<1>1. ASSUME NEW p \in Peers, NEW k \in Slots,
             Tick(p, k) \/ SkipPing(p, k) \/ Register(p, k) \/ Forget(p, k)
      PROVE  OneAtATime'
  BY <1>1, GoOn DEF Tick, SkipPing, Register, Forget, Active, Stages
<1>2. ASSUME NEW p \in Peers, NEW k \in Slots, BeginPing(p, k) \/ Exit(p, k)
      PROVE  OneAtATime'
  BY <1>2, BeginOne, ExitOne
<1>3. ASSUME NEW p \in Peers, NEW k \in Slots,
             SendPing(p, k) \/ Pong(p, k) \/ Miss(p, k) \/ declareDead(p, k)
      PROVE  OneAtATime'
  BY <1>3, GoOn, MiddleGoes, DeclareDeadGoes
<1> QED
  BY <1>1, <1>2, <1>3, OutsideGoes, SamePings DEF Next, pingOne

\* The channel stays as it is while the ping goes on.
LEMMA ChannelStays ==
    ASSUME TypeOK, Registered, NEW p \in Peers, NEW k \in Slots,
           NEW from, NEW to, Go(p, k, from, to), UNCHANGED pongChs,
           to \in Active \ {"register", "exit"} => from \in Active \ {"register", "exit"}
    PROVE  Registered'
BY GoMoves DEF Registered

\* Only the one ping of the peer changes it.
LEMMA ChannelChanges ==
    ASSUME TypeOK, OneAtATime, Registered, NEW p \in Peers, NEW k \in Slots,
           Register(p, k) \/ Forget(p, k)
    PROVE  Registered'
<1>1. stage[p][k] \in Active
  BY GoMoves DEF Register, Forget, Active, Stages
<1>2. \A q \in Peers, j \in Slots : <<q, j>> # <<p, k>> => stage'[q][j] = stage[q][j]
  BY GoMoves DEF Register, Forget
<1>3. \A j \in Slots : j # k => stage'[p][j] \notin Active
  BY <1>1, <1>2 DEF OneAtATime
<1>4. \A q \in Peers : q # p => pongChs'[q] = pongChs[q]
  BY DEF Register, Forget, TypeOK
<1>5. stage'[p][k] = "exit" \/ pongChs'[p] = k
  BY GoMoves DEF Register, Forget, TypeOK
<1>6. \A j \in Slots : stage'[p][j] \in Active \ {"register", "exit"} => pongChs'[p] = j
  BY <1>3, <1>5
<1>7. \A q \in Peers, j \in Slots : q # p => 
          (stage'[q][j] \in Active \ {"register", "exit"} => pongChs'[q] = j)
  BY <1>2, <1>4 DEF Registered
<1> QED
  BY <1>6, <1>7 DEF Registered

LEMMA NextRegistered ==
    ASSUME TypeOK, OneAtATime, Registered, [Next]_vars
    PROVE  Registered'
<1>1. ASSUME NEW p \in Peers, NEW k \in Slots,
             Tick(p, k) \/ BeginPing(p, k) \/ SkipPing(p, k) \/ Exit(p, k)
      PROVE  Registered'
  BY <1>1, ChannelStays DEF Tick, BeginPing, SkipPing, Exit, Active, Stages
<1>2. ASSUME NEW p \in Peers, NEW k \in Slots, Register(p, k) \/ Forget(p, k)
      PROVE  Registered'
  BY <1>2, ChannelChanges
<1>3. ASSUME NEW p \in Peers, NEW k \in Slots,
             SendPing(p, k) \/ Pong(p, k) \/ Miss(p, k) \/ declareDead(p, k)
      PROVE  Registered'
  BY <1>3, ChannelStays, MiddleGoes, DeclareDeadGoes
<1> QED
  BY <1>1, <1>2, <1>3, OutsideGoes, SamePings DEF Next, pingOne

-----------------------------------------------------------------------------
(* Deaths and what is done about them.                                     *)

Dooming == {"miss", "dying", "master", "role", "tell"}

DeathOf(p, k) ==
    /\ stage[p][k] \in {"miss", "dying"} => missed[p] = MaxMissed
    /\ stage[p][k] \in {"dying", "master", "role", "tell"} => reactions[p] = None
    /\ stage[p][k] \in {"master", "role", "tell"} => p \notin alive

LEMMA DeathsByPing ==
    Deaths <=> \A p \in Peers : (p \in alive => reactions[p] = None)
                                /\ \A k \in Slots : DeathOf(p, k)
BY DEF Deaths, DeathOf

LEMMA DeathsNext ==
    (\A p \in Peers : (p \in alive' => reactions'[p] = None)
                      /\ \A k \in Slots : DeathOf(p, k)') => Deaths'
BY DEF Deaths, DeathOf

\* No other ping of a peer is in a state that matters here.
LEMMA Alone ==
    ASSUME TypeOK, OneAtATime, NEW p \in Peers, NEW k \in Slots,
           NEW from \in Active, NEW to, Go(p, k, from, to)
    PROVE  \A j \in Slots : j # k => stage'[p][j] \notin Dooming
<1>1. \A j \in Slots : j # k => stage[p][j] \notin Active /\ stage'[p][j] = stage[p][j]
  BY GoMoves DEF OneAtATime
<1> QED
  BY <1>1 DEF Active, Stages, Dooming

\* A step of the one ping of p, about which only p and k are in question.
LEMMA DeathsGo ==
    ASSUME TypeOK, OneAtATime, Deaths, NEW p \in Peers, NEW k \in Slots,
           NEW from \in Active, NEW to, Go(p, k, from, to),
           \A q \in Peers \ {p} : /\ (q \in alive') <=> (q \in alive)
                                  /\ reactions'[q] = reactions[q]
                                  /\ missed'[q] = missed[q],
           p \in alive' => reactions'[p] = None,
           DeathOf(p, k)'
    PROVE  Deaths'
<1>1. ASSUME NEW q \in Peers, q # p
      PROVE  (q \in alive' => reactions'[q] = None) /\ \A j \in Slots : DeathOf(q, j)'
  <2>1. q \in alive' => reactions'[q] = None
    BY <1>1, DeathsByPing
  <2>2. ASSUME NEW j \in Slots PROVE DeathOf(q, j)'
    <3>1. DeathOf(q, j)
      BY DeathsByPing
    <3>2. stage'[q][j] = stage[q][j]
      BY <1>1, GoMoves
    <3> QED
      BY <1>1, <3>1, <3>2 DEF DeathOf
  <2> QED
    BY <2>1, <2>2
<1>2. ASSUME NEW j \in Slots, j # k PROVE DeathOf(p, j)'
  BY <1>2, Alone DEF DeathOf, Dooming
<1> QED
  BY <1>1, <1>2, DeathsNext

\* A step with which nothing of this changes but a stage that does not matter.
LEMMA DeathsSame ==
    ASSUME TypeOK, Deaths, NEW p \in Peers, NEW k \in Slots,
           NEW from, NEW to, Go(p, k, from, to), to \notin Dooming,
           UNCHANGED <<alive, reactions, missed>>
    PROVE  Deaths'
BY GoMoves DEF Deaths, Dooming

LEMMA MissDeaths ==
    ASSUME TypeOK, OneAtATime, Deaths, NEW p \in Peers, NEW k \in Slots, Miss(p, k)
    PROVE  Deaths'
<1> DEFINE to == IF missed[p] + 1 >= MaxMissed THEN "miss" ELSE "clean"
<1>1. Go(p, k, "wait", to) /\ "wait" \in Active
  BY DEF Miss, Active, Stages
<1>2. stage'[p][k] = to
  BY <1>1, GoMoves
<1>3. missed[p] \in 0..MaxMissed
  BY DEF TypeOK
<1>4. to = "miss" => missed'[p] = MaxMissed
  <2>1. missed'[p] = IF missed[p] < MaxMissed THEN missed[p] + 1 ELSE missed[p]
    BY DEF Miss, TypeOK
  <2>2. to = "miss" => missed[p] + 1 >= MaxMissed
    OBVIOUS
  <2> HIDE DEF to
  <2> QED
    BY <1>3, <2>1, <2>2, MissedAssumption
<1>5. DeathOf(p, k)'
  BY <1>2, <1>4 DEF DeathOf
<1>6. \A q \in Peers \ {p} : missed'[q] = missed[q]
  BY DEF Miss, TypeOK
<1>7. UNCHANGED <<alive, reactions>>
  BY DEF Miss
<1>8. p \in alive' => reactions'[p] = None
  BY <1>7, DeathsByPing
<1> HIDE DEF to
<1> QED
  BY <1>1, <1>5, <1>6, <1>7, <1>8, DeathsGo

LEMMA PongDeaths ==
    ASSUME TypeOK, OneAtATime, Deaths, NEW p \in Peers, NEW k \in Slots, Pong(p, k)
    PROVE  Deaths'
<1>1. Go(p, k, "wait", "clean") /\ "wait" \in Active
  BY DEF Pong, Active, Stages
<1>2. stage'[p][k] = "clean"
  BY <1>1, GoMoves
<1>3. DeathOf(p, k)'
  BY <1>2 DEF DeathOf
<1>4. reactions'[p] = None
  BY DEF Pong, TypeOK
<1>5. \A q \in Peers \ {p} : /\ (q \in alive') <=> (q \in alive)
                             /\ reactions'[q] = reactions[q]
                             /\ missed'[q] = missed[q]
  BY DEF Pong, TypeOK
<1> QED
  BY <1>1, <1>3, <1>4, <1>5, DeathsGo

LEMMA CheckAliveDeaths ==
    ASSUME TypeOK, OneAtATime, Deaths, NEW p \in Peers, NEW k \in Slots,
           CheckAlive(p, k) \/ MarkDead(p, k)
    PROVE  Deaths'
<1>1. CASE CheckAlive(p, k)
  <2> DEFINE to == IF p \in alive THEN "dying" ELSE "clean"
  <2>1. Go(p, k, "miss", to) /\ "miss" \in Active
    BY <1>1 DEF CheckAlive, Active, Stages
  <2>2. stage[p][k] = "miss" /\ stage'[p][k] = to
    BY <2>1, GoMoves
  <2>3. UNCHANGED <<alive, reactions, missed>>
    BY <1>1 DEF CheckAlive, stateVars
  <2>4. missed[p] = MaxMissed /\ (p \in alive => reactions[p] = None)
    BY <2>2 DEF Deaths
  <2>5. DeathOf(p, k)'
    BY <2>2, <2>3, <2>4 DEF DeathOf
  <2> HIDE DEF to
  <2> QED
    BY <2>1, <2>3, <2>4, <2>5, DeathsGo
<1>2. CASE MarkDead(p, k)
  <2>1. Go(p, k, "dying", "master") /\ "dying" \in Active
    BY <1>2 DEF MarkDead, Active, Stages
  <2>2. stage[p][k] = "dying" /\ stage'[p][k] = "master"
    BY <2>1, GoMoves
  <2>3. UNCHANGED <<reactions, missed>> /\ alive' = alive \ {p}
    BY <1>2 DEF MarkDead
  <2>4. reactions[p] = None
    BY <2>2 DEF Deaths
  <2>5. DeathOf(p, k)'
    BY <2>2, <2>3, <2>4 DEF DeathOf
  <2> QED
    BY <2>1, <2>3, <2>5, DeathsGo
<1> QED
  BY <1>1, <1>2

LEMMA ReactDeaths ==
    ASSUME TypeOK, OneAtATime, Deaths, OneReactionPerDeath,
           NEW p \in Peers, NEW k \in Slots,
           NEW from \in {"master", "role", "tell"}, NEW here, NEW kind \in Reactions,
           NEW to \in {"role", "tell", "clean"}, React(p, k, from, here, kind, to)
    PROVE  Deaths' /\ OneReactionPerDeath'
<1> DEFINE next == IF here THEN "clean" ELSE to
<1>1. Go(p, k, from, next) /\ from \in Active
  BY DEF React, Active, Stages
<1>2. stage[p][k] = from /\ stage'[p][k] = next
  BY <1>1, GoMoves
<1>3. UNCHANGED <<alive, missed>>
  BY DEF React
<1>4. p \notin alive /\ reactions[p] = None
  BY <1>2 DEF Deaths
<1>5. CASE here
  <2>1. reactions' = [reactions EXCEPT ![p][kind] = @ + 1]
    BY <1>5 DEF React
  <2>2. \A q \in Peers \ {p} : reactions'[q] = reactions[q]
    BY <2>1 DEF TypeOK
  <2>3. /\ reactions'[p][kind] = 1
        /\ \A other \in Reactions \ {kind} : reactions'[p][other] = 0
    BY <1>4, <2>1 DEF TypeOK, None
  <2>4. DeathOf(p, k)'
    BY <1>2, <1>5 DEF DeathOf
  <2>5. Deaths'
    <3> HIDE DEF next
    <3> QED
      BY <1>1, <1>3, <1>4, <2>2, <2>4, DeathsGo
  <2>6. ASSUME NEW q \in Peers, NEW one \in Reactions, reactions'[q][one] > 0
        PROVE  /\ reactions'[q][one] = 1
               /\ \A other \in Reactions \ {one} : reactions'[q][other] = 0
    <3>1. CASE q # p
      BY <2>2, <2>6, <3>1 DEF OneReactionPerDeath
    <3>2. CASE q = p
      <4>1. one = kind
        BY <2>3, <2>6, <3>2
      <4> QED
        BY <2>3, <3>2, <4>1
    <3> QED
      BY <3>1, <3>2
  <2>7. OneReactionPerDeath'
    BY <2>6 DEF OneReactionPerDeath
  <2> QED
    BY <2>5, <2>7
<1>6. CASE ~here
  <2>1. UNCHANGED reactions
    BY <1>6 DEF React
  <2>2. DeathOf(p, k)'
    BY <1>2, <1>3, <1>4, <1>6, <2>1 DEF DeathOf
  <2>3. Deaths'
    <3> HIDE DEF next
    <3> QED
      BY <1>1, <1>3, <1>4, <2>1, <2>2, DeathsGo
  <2>4. OneReactionPerDeath'
    BY <2>1 DEF OneReactionPerDeath
  <2> QED
    BY <2>3, <2>4
<1> QED
  BY <1>5, <1>6

LEMMA NextDeaths ==
    ASSUME TypeOK, OneAtATime, Deaths, OneReactionPerDeath, [Next]_vars
    PROVE  Deaths' /\ OneReactionPerDeath'
<1>1. ASSUME NEW p \in Peers, NEW k \in Slots,
             \/ Tick(p, k) \/ BeginPing(p, k) \/ SkipPing(p, k) \/ Register(p, k)
             \/ SendPing(p, k) \/ Forget(p, k) \/ Exit(p, k)
      PROVE  Deaths' /\ OneReactionPerDeath'
  <2>1. UNCHANGED <<alive, reactions, missed>>
    BY <1>1 DEF Tick, BeginPing, SkipPing, Register, SendPing, Forget, Exit, stateVars
  <2>2. \E from : \E to \in Stages \ Dooming : Go(p, k, from, to)
    BY <1>1 DEF Tick, BeginPing, SkipPing, Register, SendPing, Forget, Exit, Stages, Dooming
  <2> QED
    BY <2>1, <2>2, DeathsSame DEF OneReactionPerDeath
<1>2. ASSUME NEW p \in Peers, NEW k \in Slots, Miss(p, k)
      PROVE  Deaths' /\ OneReactionPerDeath'
  BY <1>2, MissDeaths DEF Miss, OneReactionPerDeath
<1>3. ASSUME NEW p \in Peers, NEW k \in Slots, Pong(p, k)
      PROVE  Deaths' /\ OneReactionPerDeath'
  <2>1. reactions'[p] = None /\ \A q \in Peers \ {p} : reactions'[q] = reactions[q]
    BY <1>3 DEF Pong, TypeOK
  <2>2. \A kind \in Reactions : reactions'[p][kind] = 0
    BY <2>1 DEF None
  <2>3. OneReactionPerDeath'
    BY <2>1, <2>2 DEF OneReactionPerDeath
  <2> QED
    BY <1>3, <2>3, PongDeaths
<1>4. ASSUME NEW p \in Peers, NEW k \in Slots, CheckAlive(p, k) \/ MarkDead(p, k)
      PROVE  Deaths' /\ OneReactionPerDeath'
  BY <1>4, CheckAliveDeaths DEF CheckAlive, MarkDead, stateVars, OneReactionPerDeath
<1>5. ASSUME NEW p \in Peers, NEW k \in Slots,
             MasterDied(p, k) \/ OnNodeDead(p, k) \/ NotifyMaster(p, k)
      PROVE  Deaths' /\ OneReactionPerDeath'
  BY <1>5, ReactDeaths DEF MasterDied, OnNodeDead, NotifyMaster, Reactions
<1>6. ASSUME UNCHANGED <<stage, alive, reactions, missed>>
      PROVE  Deaths' /\ OneReactionPerDeath'
  BY <1>6 DEF Deaths, OneReactionPerDeath
<1>7. ASSUME NEW p \in Peers,
             \/ HandlePing(p) \/ HandlePong(p) \/ Crash(p) \/ Restart(p)
             \/ LosePing(p) \/ LosePong(p)
      PROVE  UNCHANGED <<stage, alive, reactions, missed>>
  BY <1>7 DEF HandlePing, HandlePong, LookUp, Deliver, Crash, Restart, LosePing, LosePong,
              pingVars, stateVars
<1>8. ASSUME NEW m \in Peers \cup {Self}, SetMasterID(m)
      PROVE  UNCHANGED <<stage, alive, reactions, missed>>
  BY <1>8 DEF SetMasterID, pingVars
<1>9. CASE UNCHANGED vars
  BY <1>6, <1>9 DEF vars, pingVars, stateVars
<1> QED
  BY <1>1, <1>2, <1>3, <1>4, <1>5, <1>6, <1>7, <1>8, <1>9 DEF Next, pingOne, declareDead

-----------------------------------------------------------------------------
(* The crashes: as long as there was none, there was none before.          *)

Bounded == \A kind \in Kinds : budget[kind] <= MaxFaults[kind]

LEMMA SpendBounded ==
    ASSUME TypeOK, Bounded, NEW kind \in Kinds, Spend(kind)
    PROVE  /\ Bounded'
           /\ kind = "crash" => ~NoCrash'
           /\ kind # "crash" => budget'["crash"] = budget["crash"]
<1>1. \A one \in Kinds : budget[one] \in Nat /\ MaxFaults[one] \in Nat
  BY BoundsAssumption DEF TypeOK
<1>2. budget'[kind] = budget[kind] - 1 /\ \A one \in Kinds \ {kind} : budget'[one] = budget[one]
  BY DEF TypeOK, Spend
<1>3. budget'[kind] < MaxFaults[kind]
  BY <1>1, <1>2 DEF Bounded
<1>4. Bounded'
  BY <1>1, <1>2, <1>3 DEF Bounded
<1>5. kind = "crash" => ~NoCrash'
  BY <1>1, <1>3 DEF NoCrash
<1>6. kind # "crash" => budget'["crash"] = budget["crash"]
  BY <1>2 DEF Kinds
<1> QED
  BY <1>4, <1>5, <1>6

LEMMA NextBounded ==
    ASSUME TypeOK, Bounded, [Next]_vars
    PROVE  Bounded' /\ (NoCrash' => NoCrash)
<1>1. ASSUME UNCHANGED budget PROVE Bounded' /\ (NoCrash' => NoCrash)
  BY <1>1 DEF Bounded, NoCrash
<1>2. ASSUME NEW kind \in Kinds, Spend(kind) PROVE Bounded' /\ (NoCrash' => NoCrash)
  BY <1>2, SpendBounded DEF NoCrash
<1>3. ASSUME NEW p \in Peers, NEW k \in Slots, Miss(p, k)
      PROVE  UNCHANGED budget \/ Spend("late")
  BY <1>3 DEF Miss, Trouble
<1>4. ASSUME NEW p \in Peers, NEW k \in Slots, Tick(p, k) \/ pingOne(p, k)
      PROVE  UNCHANGED budget
  BY <1>4 DEF Tick, pingOne, BeginPing, SkipPing, Register, SendPing, Pong, Forget, Exit,
              declareDead, CheckAlive, MarkDead, MasterDied, OnNodeDead, NotifyMaster, React
<1>5. ASSUME NEW p \in Peers, HandlePing(p) \/ HandlePong(p)
      PROVE  UNCHANGED budget
  BY <1>5 DEF HandlePing, HandlePong, LookUp, Deliver
<1>6. ASSUME NEW p \in Peers, Crash(p) \/ Restart(p) \/ LosePing(p) \/ LosePong(p)
      PROVE  \E kind \in Kinds : Spend(kind)
  BY <1>6 DEF Crash, Restart, LosePing, LosePong, Trouble, Kinds
<1>7. ASSUME NEW m \in Peers \cup {Self}, SetMasterID(m)
      PROVE  \E kind \in Kinds : Spend(kind)
  BY <1>7 DEF SetMasterID, Kinds
<1>8. "late" \in Kinds
  BY DEF Kinds
<1>9. CASE UNCHANGED vars
  BY <1>1, <1>9 DEF vars
<1> QED
  BY <1>1, <1>2, <1>3, <1>4, <1>5, <1>6, <1>7, <1>8, <1>9 DEF Next

-----------------------------------------------------------------------------
(* The account of every failed ping of a peer that runs.                   *)

Pending(p, k) ==
    \/ k \in full[p] \/ k \in refs[p]
    \/ pings[p] + pongs[p] > 0
    \/ trouble[p] > missed[p]

AccountOf(p) ==
    /\ trouble[p] >= missed[p]
    /\ \A k \in Slots : stage[p][k] = "wait" => Pending(p, k)

LEMMA AccountedNow == Accounted <=> (NoCrash => up = Peers /\ \A p \in Peers : AccountOf(p))
BY DEF Accounted, AccountOf, Pending

LEMMA AccountedNext ==
    (NoCrash' => up' = Peers /\ \A p \in Peers : AccountOf(p)') => Accounted'
BY DEF Accounted, AccountOf, Pending

LEMMA Numbers ==
    ASSUME TypeOK, NEW p \in Peers
    PROVE  /\ missed[p] \in Nat /\ trouble[p] \in Nat
           /\ pings[p] \in Nat /\ pongs[p] \in Nat
BY MissedAssumption DEF TypeOK

\* A step that does not concern q.
LEMMA AccountStays ==
    ASSUME NEW q \in Peers, AccountOf(q),
           \A j \in Slots : stage'[q][j] = "wait" => stage[q][j] = "wait",
           UNCHANGED <<full[q], refs[q], pings[q], pongs[q], trouble[q], missed[q]>>
    PROVE  AccountOf(q)'
BY DEF AccountOf, Pending

\* A goroutine goes on, not to wait, and nothing else that counts changes.
LEMMA AccountGoes ==
    ASSUME TypeOK, NEW p \in Peers, NEW k \in Slots,
           NEW from, NEW to, Go(p, k, from, to), to # "wait",
           UNCHANGED <<full, refs, pings, pongs, trouble, missed>>,
           NEW q \in Peers, AccountOf(q)
    PROVE  AccountOf(q)'
<1>1. \A j \in Slots : stage'[q][j] = "wait" => stage[q][j] = "wait"
  BY GoMoves
<1> QED
  BY <1>1, AccountStays

\* A step of the one ping of p, to a stage in which none waits.
LEMMA AccountOne ==
    ASSUME TypeOK, OneAtATime, NEW p \in Peers, NEW k \in Slots,
           NEW from \in Active, NEW to, Go(p, k, from, to), to # "wait",
           trouble'[p] >= missed'[p],
           \A q \in Peers \ {p} :
               UNCHANGED <<full[q], refs[q], pings[q], pongs[q], trouble[q], missed[q]>>,
           NEW q \in Peers, AccountOf(q)
    PROVE  AccountOf(q)'
<1>1. CASE q = p
  <2>1. \A j \in Slots : j # k => stage[p][j] \notin Active /\ stage'[p][j] = stage[p][j]
    BY GoMoves DEF OneAtATime
  <2>2. \A j \in Slots : stage'[p][j] # "wait"
    BY <2>1, GoMoves DEF Active, Stages
  <2> QED
    BY <1>1, <2>2 DEF AccountOf
<1>2. CASE q # p
  <2>1. \A j \in Slots : stage'[q][j] = "wait" => stage[q][j] = "wait"
    BY <1>2, GoMoves
  <2> QED
    BY <1>2, <2>1, AccountStays
<1> QED
  BY <1>1, <1>2

LEMMA SendPingAccount ==
    ASSUME TypeOK, up = Peers, NEW p \in Peers, NEW k \in Slots, SendPing(p, k),
           NEW q \in Peers, AccountOf(q)
    PROVE  AccountOf(q)'
<1>1. /\ UNCHANGED <<full, refs, pongs, trouble, missed>>
      /\ pings' = [pings EXCEPT ![p] = @ + 1]
  BY DEF SendPing, stateVars
<1>2. CASE q = p
  <2>1. pings'[p] = pings[p] + 1
    BY <1>1 DEF TypeOK
  <2>2. pings'[p] + pongs'[p] > 0
    BY <1>1, <2>1, Numbers
  <2> QED
    BY <1>1, <1>2, <2>2 DEF AccountOf, Pending
<1>3. CASE q # p
  <2>1. \A j \in Slots : stage'[q][j] = "wait" => stage[q][j] = "wait"
    BY <1>3, GoMoves DEF SendPing
  <2>2. pings'[q] = pings[q]
    BY <1>1, <1>3 DEF TypeOK
  <2> QED
    BY <1>1, <2>1, <2>2, AccountStays
<1> QED
  BY <1>2, <1>3

LEMMA RegisterAccount ==
    ASSUME TypeOK, OneAtATime, NEW p \in Peers, NEW k \in Slots, Register(p, k),
           NEW q \in Peers, AccountOf(q)
    PROVE  AccountOf(q)'
<1>1. Go(p, k, "register", "send") /\ "register" \in Active
  BY DEF Register, Active, Stages
<1>2. UNCHANGED <<pings, pongs, trouble, missed>>
  BY DEF Register, stateVars, netVars
<1>3. \A r \in Peers \ {p} : UNCHANGED <<full[r], refs[r]>>
  BY DEF Register, TypeOK
<1>4. CASE q = p
  <2>1. \A j \in Slots : j # k => stage[p][j] \notin Active /\ stage'[p][j] = stage[p][j]
    BY <1>1, GoMoves DEF OneAtATime
  <2>2. \A j \in Slots : stage'[p][j] # "wait"
    BY <1>1, <2>1, GoMoves DEF Active, Stages
  <2> QED
    BY <1>2, <1>4, <2>2 DEF AccountOf
<1>5. CASE q # p
  <2>1. \A j \in Slots : stage'[q][j] = "wait" => stage[q][j] = "wait"
    BY <1>1, <1>5, GoMoves
  <2> QED
    BY <1>2, <1>3, <1>5, <2>1, AccountStays
<1> QED
  BY <1>4, <1>5

LEMMA PongAccount ==
    ASSUME TypeOK, OneAtATime, NEW p \in Peers, NEW k \in Slots, Pong(p, k),
           NEW q \in Peers, AccountOf(q)
    PROVE  AccountOf(q)'
<1>1. Go(p, k, "wait", "clean") /\ "wait" \in Active
  BY DEF Pong, Active, Stages
<1>2. trouble'[p] = 0 /\ missed'[p] = 0
  BY DEF Pong, TypeOK
<1>3. \A r \in Peers \ {p} :
          UNCHANGED <<full[r], refs[r], pings[r], pongs[r], trouble[r], missed[r]>>
  BY DEF Pong, TypeOK, netVars
<1> QED
  BY <1>1, <1>2, <1>3, AccountOne

LEMMA TroubleCounts ==
    ASSUME TypeOK, NEW p \in Peers, NEW kind, Trouble(p, kind)
    PROVE  /\ trouble'[p] = trouble[p] + 1
           /\ \A q \in Peers \ {p} : trouble'[q] = trouble[q]
BY DEF TypeOK, Trouble

LEMMA MissAccount ==
    ASSUME TypeOK, OneAtATime, up = Peers, NEW p \in Peers, NEW k \in Slots, Miss(p, k),
           AccountOf(p), NEW q \in Peers, AccountOf(q)
    PROVE  AccountOf(q)'
<1> DEFINE to == IF missed[p] + 1 >= MaxMissed THEN "miss" ELSE "clean"
<1>1. Go(p, k, "wait", to) /\ "wait" \in Active /\ to # "wait"
  BY DEF Miss, Active, Stages
<1>2. UNCHANGED <<full, refs, pings, pongs>>
  BY DEF Miss, netVars
<1>3. \A r \in Peers \ {p} : missed'[r] = missed[r] /\ trouble'[r] = trouble[r]
  BY TroubleCounts DEF Miss, TypeOK
<1>4. trouble'[p] >= missed'[p]
  <2>1. missed'[p] = missed[p] + 1 \/ missed'[p] = missed[p]
    BY DEF Miss, TypeOK
  <2>2. trouble[p] >= missed[p]
    BY DEF AccountOf
  <2>3. CASE Answered(p, k)
    <3>1. trouble'[p] = trouble[p] + 1
      BY <2>3, TroubleCounts DEF Miss
    <3> QED
      BY <2>1, <2>2, <3>1, Numbers
  <2>4. CASE ~Answered(p, k)
    <3>1. trouble'[p] = trouble[p]
      BY <2>4 DEF Miss
    <3>2. Pending(p, k)
      BY <1>1, GoMoves DEF AccountOf
    <3>3. trouble[p] > missed[p]
      BY <2>4, <3>2 DEF Answered, Pending
    <3> QED
      BY <2>1, <3>1, <3>3, Numbers
  <2> QED
    BY <2>3, <2>4
<1> HIDE DEF to
<1> QED
  BY <1>1, <1>2, <1>3, <1>4, AccountOne

\* The messages, and what the environment does to them.
LEMMA HandlePingAccount ==
    ASSUME TypeOK, NEW p \in Peers, HandlePing(p), NEW q \in Peers, AccountOf(q)
    PROVE  AccountOf(q)'
<1>1. UNCHANGED <<stage, full, refs, trouble, missed>>
  BY DEF HandlePing, pingVars, stateVars
<1>2. /\ pings[p] > 0 /\ pings'[p] = pings[p] - 1 /\ pongs'[p] = pongs[p] + 1
      /\ \A r \in Peers \ {p} : pings'[r] = pings[r] /\ pongs'[r] = pongs[r]
  BY DEF HandlePing, TypeOK
<1>3. pings'[q] + pongs'[q] = pings[q] + pongs[q]
  BY <1>2, Numbers
<1> QED
  BY <1>1, <1>3 DEF AccountOf, Pending

LEMMA LookUpAccount ==
    ASSUME TypeOK, Registered, NEW p \in Peers, LookUp(p), NEW q \in Peers, AccountOf(q)
    PROVE  AccountOf(q)'
<1>1. UNCHANGED <<stage, full, pings, trouble, missed>>
  BY DEF LookUp, stateVars
<1>2. CASE q # p
  <2>1. pongs'[q] = pongs[q] /\ refs'[q] = refs[q]
    BY <1>2 DEF LookUp, TypeOK
  <2> QED
    BY <1>1, <2>1 DEF AccountOf, Pending
<1>3. CASE q = p
  <2>1. ASSUME NEW j \in Slots, stage[p][j] = "wait" PROVE j \in refs'[p]
    <3>1. pongChs[p] = j
      BY <2>1 DEF Registered, Active, Stages
    <3>2. pongChs[p] # NoSlot
      BY <3>1, SlotsAssumption
    <3> QED
      BY <3>1, <3>2 DEF LookUp, TypeOK
  <2> QED
    BY <1>1, <1>3, <2>1 DEF AccountOf, Pending
<1> QED
  BY <1>2, <1>3

LEMMA DeliverAccount ==
    ASSUME TypeOK, NEW p \in Peers, NEW k \in Slots, Deliver(p, k),
           NEW q \in Peers, AccountOf(q)
    PROVE  AccountOf(q)'
<1>1. UNCHANGED <<stage, pings, pongs, trouble, missed>>
  BY DEF Deliver, stateVars, netVars
<1>2. full[q] \cup refs[q] = full'[q] \cup refs'[q]
  BY DEF Deliver, TypeOK
<1> QED
  BY <1>1, <1>2 DEF AccountOf, Pending

LEMMA LossAccount ==
    ASSUME TypeOK, NEW p \in Peers, LosePing(p) \/ LosePong(p),
           NEW q \in Peers, AccountOf(q)
    PROVE  AccountOf(q)'
<1>1. UNCHANGED <<stage, full, refs, missed>>
  BY DEF LosePing, LosePong, pingVars
<1>2. trouble'[p] = trouble[p] + 1
  BY TroubleCounts DEF LosePing, LosePong
<1>3. CASE q = p
  <2>1. trouble'[p] > missed'[p]
    BY <1>1, <1>2, <1>3, Numbers DEF AccountOf
  <2>2. trouble'[p] >= missed'[p]
    BY <1>1, <1>2, <1>3, Numbers DEF AccountOf
  <2> QED
    BY <1>3, <2>1, <2>2 DEF AccountOf, Pending
<1>4. CASE q # p
  <2>1. trouble'[q] = trouble[q] /\ pings'[q] = pings[q] /\ pongs'[q] = pongs[q]
    BY <1>4, TroubleCounts DEF LosePing, LosePong, TypeOK
  <2> QED
    BY <1>1, <2>1 DEF AccountOf, Pending
<1> QED
  BY <1>3, <1>4

\* declareDead changes nothing that counts here.
LEMMA DeclareDeadAccount ==
    ASSUME TypeOK, NEW p \in Peers, NEW k \in Slots, declareDead(p, k),
           NEW q \in Peers, AccountOf(q)
    PROVE  AccountOf(q)'
<1>1. UNCHANGED <<full, refs, pings, pongs, trouble, missed>>
  BY DEF declareDead, CheckAlive, MarkDead, MasterDied, OnNodeDead, NotifyMaster, React,
         stateVars, netVars
<1>2. \E from : \E to \in Stages : Go(p, k, from, to) /\ to # "wait"
  <2>1. CASE CheckAlive(p, k)
    BY <2>1 DEF CheckAlive, Stages
  <2>2. CASE MarkDead(p, k)
    BY <2>2 DEF MarkDead, Stages
  <2>3. CASE MasterDied(p, k)
    BY <2>3 DEF MasterDied, React, Stages
  <2>4. CASE OnNodeDead(p, k)
    BY <2>4 DEF OnNodeDead, React, Stages
  <2>5. CASE NotifyMaster(p, k)
    BY <2>5 DEF NotifyMaster, React, Stages
  <2> QED
    BY <2>1, <2>2, <2>3, <2>4, <2>5 DEF declareDead
<1> QED
  BY <1>1, <1>2, AccountGoes

LEMMA NextAccounted ==
    ASSUME TypeOK, Bounded, OneAtATime, Registered, Accounted, [Next]_vars
    PROVE  Accounted'
<1> SUFFICES ASSUME NoCrash' PROVE up' = Peers /\ \A q \in Peers : AccountOf(q)'
  BY AccountedNext
<1>1. up = Peers /\ \A q \in Peers : AccountOf(q)
  BY NextBounded, AccountedNow
<1>2. ASSUME NEW p \in Peers, Crash(p) PROVE FALSE
  BY <1>2, SpendBounded DEF Crash, Kinds
<1>3. ASSUME NEW p \in Peers, Restart(p) PROVE FALSE
  BY <1>1, <1>3 DEF Restart
<1>4. up' = up
  <2>1. ASSUME NEW p \in Peers, NEW k \in Slots, Tick(p, k) \/ pingOne(p, k) \/ Miss(p, k)
        PROVE  up' = up
    BY <2>1 DEF Tick, pingOne, BeginPing, SkipPing, Register, SendPing, Pong, Forget, Exit,
                declareDead, CheckAlive, MarkDead, MasterDied, OnNodeDead, NotifyMaster,
                React, Miss
  <2>2. ASSUME NEW p \in Peers,
               HandlePing(p) \/ HandlePong(p) \/ LosePing(p) \/ LosePong(p)
        PROVE  up' = up
    BY <2>2 DEF HandlePing, HandlePong, LookUp, Deliver, LosePing, LosePong
  <2>3. ASSUME NEW m \in Peers \cup {Self}, SetMasterID(m) PROVE up' = up
    BY <2>3 DEF SetMasterID
  <2> QED
    BY <1>2, <1>3, <2>1, <2>2, <2>3 DEF Next, vars
<1>5. ASSUME NEW q \in Peers PROVE AccountOf(q)'
  <2>1. ASSUME NEW p \in Peers, NEW k \in Slots,
               \/ Tick(p, k) \/ BeginPing(p, k) \/ SkipPing(p, k) \/ Forget(p, k)
               \/ Exit(p, k)
        PROVE  AccountOf(q)'
    <3>1. UNCHANGED <<full, refs, pings, pongs, trouble, missed>>
      BY <2>1 DEF Tick, BeginPing, SkipPing, Forget, Exit, stateVars, netVars
    <3>2. \E from : \E to \in Stages : Go(p, k, from, to) /\ to # "wait"
      BY <2>1 DEF Tick, BeginPing, SkipPing, Forget, Exit, Stages
    <3> QED
      BY <1>1, <3>1, <3>2, AccountGoes
  <2>2. ASSUME NEW p \in Peers, NEW k \in Slots,
               \/ Register(p, k) \/ SendPing(p, k) \/ Pong(p, k) \/ Miss(p, k)
               \/ declareDead(p, k)
        PROVE  AccountOf(q)'
    BY <1>1, <2>2, RegisterAccount, SendPingAccount, PongAccount, MissAccount,
       DeclareDeadAccount
  <2>3. ASSUME NEW p \in Peers,
               HandlePing(p) \/ HandlePong(p) \/ LosePing(p) \/ LosePong(p)
        PROVE  AccountOf(q)'
    BY <1>1, <2>3, HandlePingAccount, LookUpAccount, DeliverAccount, LossAccount
       DEF HandlePong
  <2>4. ASSUME UNCHANGED <<stage, full, refs, pings, pongs, trouble, missed>>
        PROVE  AccountOf(q)'
    BY <1>1, <2>4 DEF AccountOf, Pending
  <2>5. ASSUME NEW m \in Peers \cup {Self}, SetMasterID(m) PROVE AccountOf(q)'
    BY <2>4, <2>5 DEF SetMasterID, pingVars, netVars
  <2>6. CASE UNCHANGED vars
    BY <2>4, <2>6 DEF vars, pingVars, stateVars, netVars
  <2> QED
    BY <1>2, <1>3, <2>1, <2>2, <2>3, <2>5, <2>6 DEF Next, pingOne
<1> QED
  BY <1>1, <1>4, <1>5

LEMMA NextHasty ==
    ASSUME TypeOK, Bounded, Deaths, Accounted, NoHastyDeath, [Next]_vars
    PROVE  NoHastyDeath'
<1> SUFFICES ASSUME NoCrash', NEW q \in Peers, q \notin alive' PROVE trouble'[q] >= MaxMissed
  BY DEF NoHastyDeath
<1>1. NoCrash /\ AccountOf(q)
  BY NextBounded, AccountedNow
<1>2. ASSUME UNCHANGED <<alive, trouble>> PROVE trouble'[q] >= MaxMissed
  BY <1>1, <1>2 DEF NoHastyDeath
<1>3. ASSUME NEW p \in Peers, NEW kind, Trouble(p, kind), alive' = alive
      PROVE  trouble'[q] >= MaxMissed
  <2>1. trouble[q] >= MaxMissed
    BY <1>1, <1>3 DEF NoHastyDeath
  <2>2. trouble'[q] = trouble[q] + 1 \/ trouble'[q] = trouble[q]
    BY <1>3, TroubleCounts
  <2> QED
    BY <2>1, <2>2, Numbers, MissedAssumption
<1>4. ASSUME NEW p \in Peers, NEW k \in Slots, Pong(p, k) PROVE trouble'[q] >= MaxMissed
  <2>1. q # p /\ q \notin alive
    BY <1>4 DEF Pong
  <2>2. trouble'[q] = trouble[q]
    BY <1>4, <2>1 DEF Pong, TypeOK
  <2> QED
    BY <1>1, <2>1, <2>2 DEF NoHastyDeath
<1>5. ASSUME NEW p \in Peers, NEW k \in Slots, MarkDead(p, k)
      PROVE  trouble'[q] >= MaxMissed
  <2>1. trouble' = trouble /\ alive' = alive \ {p}
    BY <1>5 DEF MarkDead
  <2>2. CASE q = p
    <3>1. missed[p] = MaxMissed
      BY <1>5 DEF MarkDead, Go, Deaths
    <3> QED
      BY <1>1, <2>1, <2>2, <3>1 DEF AccountOf
  <2>3. CASE q # p
    BY <1>1, <2>1, <2>3 DEF NoHastyDeath
  <2> QED
    BY <2>2, <2>3
<1>6. ASSUME NEW p \in Peers, NEW k \in Slots,
             \/ Tick(p, k) \/ BeginPing(p, k) \/ SkipPing(p, k) \/ Register(p, k)
             \/ SendPing(p, k) \/ Forget(p, k) \/ Exit(p, k) \/ CheckAlive(p, k)
             \/ MasterDied(p, k) \/ OnNodeDead(p, k) \/ NotifyMaster(p, k)
      PROVE  UNCHANGED <<alive, trouble>>
  BY <1>6 DEF Tick, BeginPing, SkipPing, Register, SendPing, Forget, Exit, CheckAlive,
              MasterDied, OnNodeDead, NotifyMaster, React, stateVars
<1>7. ASSUME NEW p \in Peers, NEW k \in Slots, Miss(p, k)
      PROVE  alive' = alive /\ (UNCHANGED trouble \/ Trouble(p, "late"))
  BY <1>7 DEF Miss
<1>8. ASSUME NEW p \in Peers, HandlePing(p) \/ HandlePong(p) \/ Crash(p) \/ Restart(p)
      PROVE  UNCHANGED <<alive, trouble>>
  BY <1>8 DEF HandlePing, HandlePong, LookUp, Deliver, Crash, Restart, stateVars
<1>9. ASSUME NEW p \in Peers, LosePing(p) \/ LosePong(p)
      PROVE  alive' = alive /\ Trouble(p, "loss")
  BY <1>9 DEF LosePing, LosePong
<1>10. ASSUME NEW m \in Peers \cup {Self}, SetMasterID(m) PROVE UNCHANGED <<alive, trouble>>
  BY <1>10 DEF SetMasterID
<1>11. CASE UNCHANGED vars
  BY <1>2, <1>11 DEF vars, stateVars
<1>12. ASSUME NEW p \in Peers, NEW k \in Slots, Tick(p, k) \/ pingOne(p, k) \/ Miss(p, k)
       PROVE  trouble'[q] >= MaxMissed
  BY <1>2, <1>3, <1>4, <1>5, <1>6, <1>7, <1>12 DEF pingOne, declareDead
<1>13. ASSUME NEW p \in Peers,
              \/ HandlePing(p) \/ HandlePong(p) \/ Crash(p) \/ Restart(p)
              \/ LosePing(p) \/ LosePong(p)
       PROVE  trouble'[q] >= MaxMissed
  BY <1>2, <1>3, <1>8, <1>9, <1>13
<1> QED
  BY <1>2, <1>10, <1>11, <1>12, <1>13 DEF Next

-----------------------------------------------------------------------------
(* The inductive invariant and what follows from it.                       *)

LEMMA InvariantParts ==
    IInv <=> /\ TypeOK /\ Bounded /\ OneAtATime /\ Registered /\ Deaths
             /\ OneReactionPerDeath /\ Accounted /\ NoHastyDeath
BY DEF IInv, Bounded

LEMMA InvariantPartsNext ==
    /\ TypeOK' /\ Bounded' /\ OneAtATime' /\ Registered' /\ Deaths'
    /\ OneReactionPerDeath' /\ Accounted' /\ NoHastyDeath'
    => IInv'
BY DEF IInv, Bounded

LEMMA InitIInv == Init => IInv
<1> SUFFICES ASSUME Init PROVE IInv
  OBVIOUS
<1>1. \A p \in Peers, k \in Slots : stage[p][k] = "free"
  BY DEF Init
<1>2. TypeOK
  BY InitType
<1>3. Bounded
  BY BoundsAssumption DEF Init, Bounded
<1>4. OneAtATime /\ Registered
  BY <1>1 DEF OneAtATime, Registered, Active, Stages
<1>5. \A p \in Peers : reactions[p] = None
  BY DEF Init
<1>6. Deaths
  BY <1>1, <1>5 DEF Deaths
<1>7. OneReactionPerDeath
  BY <1>5 DEF OneReactionPerDeath, None
<1>8. Accounted
  BY <1>1 DEF Init, Accounted
<1>9. NoHastyDeath
  BY DEF Init, NoHastyDeath
<1> QED
  BY <1>2, <1>3, <1>4, <1>6, <1>7, <1>8, <1>9, InvariantParts

LEMMA NextIInv == IInv /\ [Next]_vars => IInv'
<1> SUFFICES ASSUME IInv, [Next]_vars PROVE IInv'
  OBVIOUS
<1>1. /\ TypeOK /\ Bounded /\ OneAtATime /\ Registered /\ Deaths
      /\ OneReactionPerDeath /\ Accounted /\ NoHastyDeath
  BY InvariantParts
<1> QED
  BY <1>1, NextType, NextBounded, NextOne, NextRegistered, NextDeaths, NextAccounted,
     NextHasty, InvariantPartsNext

\* The parts of the inductive invariant hold together, in every state: of the
\* goroutines pingOne of a peer one is past the test of inFlight, its channel is
\* the registered one, and what declareDead does is its doing.
THEOREM Invariance == Spec => []IInv
<1> QED
  BY InitIInv, NextIInv, PTL DEF Spec

\* The state of the monitor and of its goroutines keeps its types.
THEOREM TypeCorrectness == Spec => []TypeOK
<1>1. IInv => TypeOK
  BY DEF IInv
<1> QED
  BY <1>1, Invariance, PTL

\* A PONG that arrives while a ping waits finds the channel of that ping,
\* however many goroutines the ticks have started (pingOne, HandlePong).
THEOREM PongFindsItsPing == Spec => []ChannelOfCurrentPing
<1>1. IInv => ChannelOfCurrentPing
  BY DEF IInv, Registered, ChannelOfCurrentPing, Active, Stages
<1> QED
  BY <1>1, Invariance, PTL

\* declareDead reacts to a death once, and in one way, until the peer has
\* answered again.
THEOREM DeathsAreHandledOnce == Spec => []OneReactionPerDeath
<1>1. IInv => OneReactionPerDeath
  BY DEF IInv
<1> QED
  BY <1>1, Invariance, PTL

\* A peer that never stopped is dead to the monitor only after maxMissed of the
\* answers since its last PONG were late or lost (pingOne, declareDead).
THEOREM DeathsAreEarned == Spec => []NoHastyDeath
<1>1. IInv => NoHastyDeath
  BY DEF IInv
<1> QED
  BY <1>1, Invariance, PTL
=============================================================================
