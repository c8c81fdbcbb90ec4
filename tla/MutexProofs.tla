---------------------------- MODULE MutexProofs ----------------------------
(***************************************************************************)
(* The theorems about Mutex, for every set of nodes and every bound.       *)
(***************************************************************************)
EXTENDS Mutex, TLAPS

LEMMA ReqsFacts ==
    /\ \A r \in Reqs : Client(r) \in Clients /\ Client(r) \in Nodes
                       /\ r[2] \in 1..MaxReqs /\ r = <<Client(r), r[2]>>
    /\ NoReq \notin Reqs
    /\ NoLock \notin Locks
    /\ \A l \in Locks : l.node \in Nodes /\ l.boot \in Nat
                        /\ l = [node |-> l.node, boot |-> l.boot]
BY ClientsAssumption, NoReqAssumption, NoLockAssumption, BoundsAssumption
   DEF Reqs, Client, Locks

LEMMA LockOf ==
    ASSUME TypeOK, NEW m \in Nodes
    PROVE  [node |-> m, boot |-> boot[m]] \in Locks
BY BoundsAssumption DEF TypeOK, Locks

LEMMA AppendElements ==
    ASSUME NEW S, NEW s \in Seq(S), NEW x \in S, x \notin Elements(s), Distinct(s)
    PROVE  /\ Append(s, x) \in Seq(S)
           /\ Elements(Append(s, x)) = Elements(s) \cup {x}
           /\ Distinct(Append(s, x))
BY DEF Elements, Distinct

LEMMA TailElements ==
    ASSUME NEW S, NEW s \in Seq(S), s # <<>>, Distinct(s)
    PROVE  /\ Head(s) \in S /\ Head(s) \in Elements(s)
           /\ Tail(s) \in Seq(S)
           /\ Head(s) \notin Elements(Tail(s))
           /\ Elements(Tail(s)) \subseteq Elements(s)
           /\ Distinct(Tail(s))
<1>1. /\ Len(s) \in Nat \ {0} /\ Tail(s) \in Seq(S) /\ Len(Tail(s)) = Len(s) - 1
      /\ Head(s) = s[1] /\ \A i \in 1..Len(Tail(s)) : Tail(s)[i] = s[i + 1]
  OBVIOUS
<1>2. Head(s) \in S
  BY <1>1
<1> QED
  BY <1>1, <1>2 DEF Elements, Distinct

LEMMA InitIInv == Init => IInv
<1> SUFFICES ASSUME Init PROVE IInv
  OBVIOUS
<1>1. TypeOK
  BY MasterAssumption, AttemptsAssumption, BoundsAssumption
     DEF Init, TypeOK, PCs
<1>2. \A m \in Nodes : Elements(queue[m]) = {}
  BY DEF Init, Elements
<1>3. \A r \in Reqs : Fresh(r) /\ ~Token(r) /\ ~Queued(r)
  BY <1>2, ReqsFacts DEF Init, Fresh, Token, InUse, Queued, Sent, InCS
<1> QED
  BY <1>1, <1>2, <1>3, ReqsFacts
     DEF Init, IInv, FreshIsUntouched, DrawnHasDest, OwnRequests, Addressed,
         QueuedOnce, StageOrder, TokenOnce, TokenIsHeld, OneTokenPerLock, Sent, InCS, InUse, Distinct

LEMMA SpendType ==
    ASSUME TypeOK, NEW k \in {"timeout", "loss", "master"}, Spend(k)
    PROVE  budget' \in [{"timeout", "loss", "master"} -> Nat]
<1> DEFINE F == {"timeout", "loss", "master"}
<1>1. budget \in [F -> Nat] /\ k \in F
  BY DEF TypeOK
<1>2. budget[k] - 1 \in Nat
  BY <1>1 DEF Spend
<1> HIDE DEF F
<1>3. budget' \in [F -> Nat]
  BY <1>1, <1>2 DEF Spend
<1> QED
  BY <1>3 DEF F

\* Steps that hand out no permission and leave the arbiters as they are:
\* what remains to be shown of them is local.
LEMMA NarrowStep ==
    ASSUME IInv, TypeOK', OwnRequests', FreshIsUntouched', TokenOnce',
           UNCHANGED <<holder, queue, issued, dest, boot>>,
           msgs' \subseteq msgs,
           \A r \in Reqs : Token(r)' => Token(r)
    PROVE  IInv'
<1>1. \A r \in Reqs : /\ Queued(r)' = Queued(r)
                      /\ Fresh(r)' = Fresh(r)
                      /\ \A t \in {"REQUEST", "RELEASE"} : Sent(t, r)' => Sent(t, r)
  BY ReqsFacts DEF Sent, Queued, Fresh
<1>2. DrawnHasDest'
  BY <1>1 DEF IInv, DrawnHasDest
<1>3. Addressed' /\ QueuedOnce'
  BY <1>1 DEF IInv, Addressed, QueuedOnce
<1>4. StageOrder'
  BY <1>1 DEF IInv, StageOrder
<1>5. TokenIsHeld' /\ OneTokenPerLock'
  BY <1>1 DEF IInv, TokenIsHeld, OneTokenPerLock
<1> QED
  BY <1>2, <1>3, <1>4, <1>5 DEF IInv

\* Among them, those that change neither requests nor permissions.
LEMMA QuietStep ==
    ASSUME IInv, TypeOK', OwnRequests',
           UNCHANGED <<holder, queue, grants, chan, msgs, cur, issued, dest, boot>>,
           \A n \in Nodes : InCS(n)' = InCS(n)
    PROVE  IInv'
<1>1. \A r \in Reqs : /\ Token(r)' = Token(r)
                      /\ InUse(r)' = InUse(r)
                      /\ Queued(r)' = Queued(r)
                      /\ Fresh(r)' = Fresh(r)
  BY ReqsFacts DEF Token, InUse, Sent, Queued, Fresh
<1>2. FreshIsUntouched'
  BY <1>1 DEF IInv, FreshIsUntouched
<1>3. TokenOnce'
  BY <1>1 DEF IInv, TokenOnce, Sent
<1> QED
  BY <1>1, <1>2, <1>3, NarrowStep

LEMMA AcquireStep ==
    ASSUME IInv, NEW n \in Clients, Acquire(n) \/ Retry(n)
    PROVE  IInv'
<1> n \in Nodes
  BY ClientsAssumption
<1>1. UNCHANGED <<holder, queue, grants, chan, msgs, cur, issued, dest, boot,
                  masterID, budget>>
  BY DEF Acquire, Retry, arbiterVars, chanVars, envVars
<1>2. pc' = [pc EXCEPT ![n] = Decide(n)] /\ Decide(n) \in {"local", "remote"}
      /\ pc[n] \in {"idle", "retry"}
  BY DEF Acquire, Retry, Decide
<1>3. /\ attempt' \in [Nodes -> 0..MaxAttempts]
      /\ \A c \in Nodes : c # n => attempt'[c] = attempt[c]
  <2>1. attempt \in [Nodes -> 0..MaxAttempts]
    BY DEF IInv, TypeOK
  <2>2. CASE Acquire(n)
    BY <2>1, <2>2, AttemptsAssumption DEF Acquire
  <2>3. CASE Retry(n)
    <3>1. attempt[n] < MaxAttempts
      BY <2>3 DEF IInv, OwnRequests, Retry
    <3> QED
      BY <2>1, <2>3, <3>1, AttemptsAssumption DEF Retry
  <2> QED
    BY <2>2, <2>3
<1>4. TypeOK'
  BY <1>1, <1>2, <1>3 DEF IInv, TypeOK, PCs
<1>5. \A c \in Nodes : InCS(c)' = InCS(c)
  BY <1>2 DEF IInv, TypeOK, InCS
<1>6. OwnRequests'
  BY <1>1, <1>2, <1>3, <1>5 DEF IInv, TypeOK, OwnRequests
<1> QED
  BY <1>1, <1>4, <1>5, <1>6, QuietStep

LEMMA SetMasterIDStep ==
    ASSUME IInv, NEW n \in Nodes, NEW m \in Nodes, SetMasterID(n, m)
    PROVE  IInv'
<1>1. UNCHANGED <<holder, queue, grants, chan, msgs, cur, issued, dest, boot,
                  pc, attempt>>
  BY DEF SetMasterID, clientVars, arbiterVars, chanVars
<1>2. TypeOK'
  <2>1. masterID' \in [Nodes -> Nodes]
    BY DEF IInv, TypeOK, SetMasterID
  <2>2. budget' \in [{"timeout", "loss", "master"} -> Nat]
    BY SpendType DEF IInv, SetMasterID
  <2> QED
    BY <1>1, <2>1, <2>2 DEF IInv, TypeOK
<1>3. \A c \in Nodes : InCS(c)' = InCS(c)
  BY <1>1 DEF InCS
<1>4. OwnRequests'
  BY <1>1, <1>3 DEF IInv, OwnRequests
<1> QED
  BY <1>1, <1>2, <1>3, <1>4, QuietStep

LEMMA LoseStep ==
    ASSUME IInv, Lose
    PROVE  IInv'
<1>1. /\ UNCHANGED <<holder, queue, grants, chan, cur, issued, dest, boot,
                     pc, attempt, masterID>>
      /\ msgs' \subseteq msgs
  BY DEF Lose, clientVars, arbiterVars, chanVars
<1>2. TypeOK'
  <2>1. budget' \in [{"timeout", "loss", "master"} -> Nat]
    BY SpendType DEF IInv, Lose
  <2> QED
    BY <1>1, <2>1 DEF IInv, TypeOK
<1>3. \A r \in Reqs : /\ InUse(r)' = InUse(r)
                      /\ \A t \in {"REQUEST", "GRANT", "RELEASE"} : Sent(t, r)' => Sent(t, r)
                      /\ Fresh(r)' = Fresh(r)
                      /\ Queued(r)' = Queued(r)
  BY <1>1 DEF Sent, InUse, InCS, Fresh, Queued
<1>4. OwnRequests'
  BY <1>1 DEF IInv, OwnRequests, InCS
<1>5. FreshIsUntouched'
  BY <1>1, <1>3 DEF IInv, FreshIsUntouched
<1>6. TokenOnce'
  BY <1>1, <1>3 DEF IInv, TokenOnce
<1>7. \A r \in Reqs : Token(r)' => Token(r)
  BY <1>1, <1>3 DEF Token
<1> QED
  BY <1>1, <1>2, <1>4, <1>5, <1>6, <1>7, NarrowStep

LEMMA LocalRegisterStep ==
    ASSUME IInv, NEW n \in Clients, LocalRegister(n)
    PROVE  IInv'
<1> n \in Nodes
  BY ClientsAssumption
<1>1. UNCHANGED <<holder, queue, chan, msgs, cur, issued, dest, boot,
                  attempt, masterID, budget>>
  BY DEF LocalRegister, arbiterVars, envVars
<1>2. /\ pc[n] = "enqueued" /\ pc' = [pc EXCEPT ![n] = "waitLocal"]
      /\ grants' = [grants EXCEPT ![n] = @ \cup {cur[n]}]
  BY DEF LocalRegister
<1>3. cur[n] \in Reqs /\ Client(cur[n]) = n
  BY <1>2 DEF IInv, OwnRequests, TypeOK
<1>4. TypeOK'
  <2>1. pc' \in [Nodes -> PCs]
    BY <1>2 DEF IInv, TypeOK, PCs
  <2>2. grants' \in [Nodes -> SUBSET Reqs]
    BY <1>2, <1>3 DEF IInv, TypeOK
  <2> QED
    BY <1>1, <2>1, <2>2 DEF IInv, TypeOK
<1>5. \A c \in Nodes : InCS(c)' = InCS(c)
  BY <1>2 DEF IInv, TypeOK, InCS
<1>6. OwnRequests'
  BY <1>1, <1>2, <1>3, <1>5 DEF IInv, TypeOK, OwnRequests
<1>7. \A r \in Reqs : /\ Token(r)' = Token(r)
                      /\ InUse(r)' = InUse(r)
                      /\ Queued(r)' = Queued(r)
                      /\ Fresh(r)' = Fresh(r)
  BY <1>1, <1>5, ReqsFacts DEF Token, InUse, Sent, Queued, Fresh
<1>8. FreshIsUntouched'
  BY <1>1, <1>2, <1>3, <1>7 DEF IInv, FreshIsUntouched, TypeOK
<1>9. TokenOnce'
  BY <1>1, <1>7 DEF IInv, TokenOnce, Sent
<1> QED
  BY <1>1, <1>4, <1>6, <1>7, <1>8, <1>9, NarrowStep

LEMMA GrantedStep ==
    ASSUME IInv, NEW n \in Clients, LocalGranted(n) \/ RemoteGranted(n)
    PROVE  IInv'
<1> n \in Nodes
  BY ClientsAssumption
<1>1. UNCHANGED <<holder, queue, grants, msgs, cur, issued, dest, boot,
                  attempt, masterID, budget>>
  BY DEF LocalGranted, RemoteGranted, arbiterVars, envVars
<1>2. /\ pc[n] \in {"waitLocal", "waitRemote"}
      /\ \E p \in {"csLocal", "csRemote"} : pc' = [pc EXCEPT ![n] = p]
      /\ cur[n] \in chan[n]
      /\ chan' = [chan EXCEPT ![n] = @ \ {cur[n]}]
  BY DEF LocalGranted, RemoteGranted
<1>3. cur[n] \in Reqs /\ Client(cur[n]) = n
  BY <1>2 DEF IInv, OwnRequests, TypeOK
<1>4. TypeOK'
  <2>1. pc' \in [Nodes -> PCs]
    BY <1>2 DEF IInv, TypeOK, PCs
  <2>2. chan' \in [Nodes -> SUBSET Reqs]
    BY <1>2, <1>3 DEF IInv, TypeOK
  <2> QED
    BY <1>1, <2>1, <2>2 DEF IInv, TypeOK
<1>5. /\ \A c \in Nodes : InCS(c)' = (InCS(c) \/ c = n)
      /\ \A c \in Nodes : chan'[c] \subseteq chan[c]
      /\ cur[n] \notin chan'[n]
  BY <1>2 DEF IInv, TypeOK, InCS
<1>6. OwnRequests'
  <2>1. \A c \in Nodes \ {n} : pc'[c] = pc[c]
    BY <1>2 DEF IInv, TypeOK
  <2>2. pc'[n] \in {"csLocal", "csRemote"} /\ cur'[n] # NoReq
    BY <1>1, <1>2, <1>3, ReqsFacts DEF IInv, TypeOK
  <2> QED
    BY <1>1, <1>5, <2>1, <2>2 DEF IInv, OwnRequests
<1>7. \A r \in Reqs : /\ InUse(r)' = (InUse(r) \/ r = cur[n])
                      /\ Token(r)' => Token(r)
                      /\ Queued(r)' = Queued(r)
                      /\ Fresh(r)' = Fresh(r)
  BY <1>1, <1>2, <1>3, <1>5, ReqsFacts DEF Token, InUse, Sent, Queued, Fresh
<1>8. FreshIsUntouched'
  BY <1>1, <1>5, <1>7 DEF IInv, FreshIsUntouched
<1>9. TokenOnce'
  BY <1>1, <1>2, <1>3, <1>5, <1>7, ReqsFacts DEF IInv, TokenOnce, Sent
<1> QED
  BY <1>1, <1>4, <1>6, <1>7, <1>8, <1>9, NarrowStep

\* A failed attempt: the client forgets its request.
LEMMA FailType ==
    ASSUME IInv, NEW n \in Nodes, Fail(n)
    PROVE  /\ pc' \in [Nodes -> PCs]
           /\ cur' \in [Nodes -> Reqs \cup {NoReq}]
           /\ \A c \in Nodes \ {n} : pc'[c] = pc[c] /\ cur'[c] = cur[c]
           /\ \/ pc'[n] = "retry" /\ attempt[n] < MaxAttempts
              \/ pc'[n] = "idle"
           /\ cur'[n] = NoReq
BY DEF IInv, TypeOK, Fail, PCs

LEMMA TimeoutStep ==
    ASSUME IInv, NEW n \in Clients, LocalTimeout(n) \/ RemoteTimeout(n)
    PROVE  IInv'
<1> n \in Nodes
  BY ClientsAssumption
<1>1. /\ UNCHANGED <<holder, queue, chan, msgs, issued, dest, boot, attempt, masterID>>
      /\ Spend("timeout")
      /\ Fail(n)
  BY DEF LocalTimeout, RemoteTimeout, arbiterVars, chanVars
<1>2. grants' \in [Nodes -> SUBSET Reqs] /\ \A c \in Nodes : grants'[c] \subseteq grants[c]
  <2>1. grants' = grants \/ grants' = [grants EXCEPT ![n] = @ \ {cur[n]}]
    BY DEF LocalTimeout, RemoteTimeout, chanVars
  <2>2. grants \in [Nodes -> SUBSET Reqs]
    BY DEF IInv, TypeOK
  <2>3. CASE grants' = grants
    BY <2>2, <2>3
  <2>4. CASE grants' = [grants EXCEPT ![n] = @ \ {cur[n]}]
    BY <2>2, <2>4
  <2> QED
    BY <2>1, <2>3, <2>4
<1>3. TypeOK'
  <2>1. budget' \in [{"timeout", "loss", "master"} -> Nat]
    BY <1>1, SpendType DEF IInv
  <2> QED
    BY <1>1, <1>2, <2>1, FailType DEF IInv, TypeOK
<1>4. \A c \in Nodes : InCS(c)' => InCS(c) /\ c # n
  BY <1>1, FailType DEF InCS
<1>5. OwnRequests'
  BY <1>1, <1>2, <1>4, FailType DEF IInv, OwnRequests
<1>6. \A r \in Reqs : /\ InUse(r)' => InUse(r)
                      /\ Token(r)' => Token(r)
                      /\ Queued(r)' = Queued(r)
                      /\ Fresh(r)' = Fresh(r)
  BY <1>1, <1>4, FailType, ReqsFacts DEF Token, InUse, Sent, Queued, Fresh
<1>7. FreshIsUntouched'
  BY <1>1, <1>2, <1>6, FailType, ReqsFacts DEF IInv, FreshIsUntouched
<1>8. TokenOnce'
  BY <1>1, <1>6 DEF IInv, TokenOnce, Sent
<1> QED
  BY <1>1, <1>3, <1>5, <1>6, <1>7, <1>8, NarrowStep

LEMMA HandleLockGrantStep ==
    ASSUME IInv, NEW n \in Nodes, HandleLockGrant(n)
    PROVE  IInv'
<1> PICK g \in msgs :
        /\ g.type = "GRANT" /\ g.to = n
        /\ \/ /\ g.req \in grants[n]
              /\ g.req \notin chan[n]
              /\ chan' = [chan EXCEPT ![n] = @ \cup {g.req}]
           \/ /\ g.req \notin grants[n]
              /\ UNCHANGED chan
        /\ msgs' = msgs \ {g}
        /\ UNCHANGED <<clientVars, arbiterVars, grants, envVars>>
  BY DEF HandleLockGrant
<1>1. UNCHANGED <<holder, queue, grants, cur, issued, dest, boot, pc,
                  attempt, masterID, budget>>
  BY DEF clientVars, arbiterVars, envVars
<1>2. g.req \in Reqs /\ Client(g.req) = n /\ g = Msg("GRANT", n, g.req)
  BY DEF IInv, TypeOK, Addressed, Messages, Msg
<1>3. chan' \in [Nodes -> SUBSET Reqs]
  <2>1. chan' = chan \/ chan' = [chan EXCEPT ![n] = @ \cup {g.req}]
    OBVIOUS
  <2>2. chan \in [Nodes -> SUBSET Reqs]
    BY DEF IInv, TypeOK
  <2>3. CASE chan' = chan
    BY <2>2, <2>3
  <2>4. CASE chan' = [chan EXCEPT ![n] = @ \cup {g.req}]
    BY <1>2, <2>2, <2>4
  <2> QED
    BY <2>1, <2>3, <2>4
<1>4. TypeOK'
  BY <1>1, <1>3 DEF IInv, TypeOK
<1>5. \A c \in Nodes : InCS(c)' = InCS(c)
  BY <1>1 DEF InCS
<1>6. \A c \in Nodes : chan'[c] \subseteq chan[c] \cup (IF c = n THEN {g.req} ELSE {})
  BY <1>2 DEF IInv, TypeOK
<1>7. OwnRequests'
  BY <1>1, <1>2, <1>5, <1>6 DEF IInv, OwnRequests
<1>8. ~Sent("GRANT", g.req)'
  <2> SUFFICES ASSUME NEW q \in msgs', q.type = "GRANT", q.req = g.req
               PROVE  FALSE
    BY DEF Sent
  <2>1. q \in msgs /\ q # g
    OBVIOUS
  <2>2. q = Msg("GRANT", q.to, g.req) /\ q.to = n
    BY <1>2, <2>1 DEF IInv, Addressed, TypeOK, Messages, Msg
  <2> QED
    BY <1>2, <2>1, <2>2
<1>9. Sent("GRANT", g.req)
  BY DEF Sent
<1>10. \A r \in Reqs : /\ InUse(r)' = InUse(r)
                       /\ Sent("GRANT", r)' => Sent("GRANT", r)
                       /\ Queued(r)' = Queued(r)
                       /\ Fresh(r)' = Fresh(r)
  <2>1. \A r \in Reqs : InUse(r)' = InUse(r)
    BY <1>1, <1>5, ReqsFacts DEF InUse
  <2>2. msgs' \subseteq msgs
    OBVIOUS
  <2> QED
    BY <1>1, <2>1, <2>2 DEF Sent, Queued, Fresh
<1>11. \A r \in Reqs : Token(r)' => Token(r)
  BY <1>1, <1>2, <1>6, <1>9, <1>10, ReqsFacts DEF Token
<1>12. FreshIsUntouched'
  BY <1>1, <1>2, <1>6, <1>10 DEF IInv, FreshIsUntouched
<1>13. TokenOnce'
  BY <1>2, <1>6, <1>8, <1>9, <1>10, ReqsFacts DEF IInv, TokenOnce
<1> QED
  BY <1>1, <1>4, <1>7, <1>11, <1>12, <1>13, NarrowStep

-----------------------------------------------------------------------------
(* The steps that draw a request id.                                       *)

LEMMA OrdinalIdentifies ==
    ASSUME NEW s \in Reqs, NEW r \in Reqs, Client(s) = Client(r)
    PROVE  s = r <=> s[2] = r[2]
BY ReqsFacts

LEMMA DrawFacts ==
    ASSUME IInv, NEW n \in Clients, NEW m \in Nodes, Draw(n, m), boot' = boot
    PROVE  /\ NewReq(n) \in Reqs /\ Client(NewReq(n)) = n
           /\ issued' \in [Nodes -> 0..MaxReqs]
           /\ dest' \in [Reqs -> Locks \cup {NoLock}]
           /\ dest'[NewReq(n)] = [node |-> m, boot |-> boot[m]]
           /\ \A s \in Reqs \ {NewReq(n)} : dest'[s] = dest[s]
           /\ \A s \in Reqs : Fresh(s)' = (Fresh(s) /\ s # NewReq(n))
           /\ DrawnHasDest'
<1> n \in Nodes
  BY ClientsAssumption
<1> PICK r \in Reqs : r = NewReq(n)
  BY DEF Draw
<1>1. r \in Reqs /\ Client(r) = n /\ r[2] = issued[n] + 1
  BY DEF NewReq, Client
<1>2. issued \in [Nodes -> 0..MaxReqs] /\ issued[n] + 1 \in 0..MaxReqs
  BY <1>1, ReqsFacts DEF IInv, TypeOK
<1>3. issued' \in [Nodes -> 0..MaxReqs] /\ issued'[n] = issued[n] + 1
      /\ \A c \in Nodes \ {n} : issued'[c] = issued[c]
  BY <1>2 DEF Draw
<1>4. dest \in [Reqs -> Locks \cup {NoLock}] /\ [node |-> m, boot |-> boot[m]] \in Locks
  BY LockOf DEF IInv, TypeOK
<1>5. /\ dest' \in [Reqs -> Locks \cup {NoLock}]
      /\ dest'[r] = [node |-> m, boot |-> boot[m]]
      /\ \A s \in Reqs \ {r} : dest'[s] = dest[s]
  BY <1>1, <1>4 DEF Draw
<1>6. \A s \in Reqs : Fresh(s)' = (Fresh(s) /\ s # r)
  <2> SUFFICES ASSUME NEW s \in Reqs PROVE Fresh(s)' = (Fresh(s) /\ s # r)
    OBVIOUS
  <2>1. CASE Client(s) # n
    BY <2>1, <1>1, <1>3, ReqsFacts DEF Fresh
  <2>2. CASE Client(s) = n
    <3>1. (s = r) <=> (s[2] = issued[n] + 1)
      <4>1. s = r <=> s[2] = r[2]
        BY <1>1, <2>2, OrdinalIdentifies
      <4>2. r[2] = issued[n] + 1
        BY <1>1
      <4> QED
        BY <4>1, <4>2
    <3>2. issued[n] \in Nat
      BY <1>2, BoundsAssumption
    <3>3. s[2] \in Nat
      BY ReqsFacts, BoundsAssumption
    <3> QED
      BY <1>3, <2>2, <3>1, <3>2, <3>3 DEF Fresh
  <2> QED
    BY <2>1, <2>2
<1>7. DrawnHasDest'
  <2> SUFFICES ASSUME NEW s \in Reqs, ~Fresh(s)'
               PROVE  dest'[s] \in Locks /\ dest'[s].boot <= boot'[dest'[s].node]
    BY DEF DrawnHasDest
  <2>1. CASE s = r
    <3>1. boot[m] \in Nat
      BY DEF IInv, TypeOK
    <3> QED
      BY <1>4, <1>5, <2>1, <3>1
  <2>2. CASE s # r
    BY <1>5, <1>6, <2>2 DEF IInv, DrawnHasDest
  <2> QED
    BY <2>1, <2>2
<1> QED
  BY <1>1, <1>3, <1>5, <1>6, <1>7

LEMMA FreshFacts ==
    ASSUME IInv, NEW n \in Clients, NEW m \in Nodes, Draw(n, m)
    PROVE  /\ \A t : ~Sent(t, NewReq(n))
           /\ \A q \in msgs : q.req # NewReq(n)
           /\ ~Queued(NewReq(n)) /\ ~Token(NewReq(n)) /\ ~InUse(NewReq(n))
           /\ \A c \in Nodes : /\ holder[c] # NewReq(n) /\ cur[c] # NewReq(n)
                               /\ NewReq(n) \notin grants[c] \cup chan[c]
                               /\ NewReq(n) \notin Elements(queue[c])
<1> n \in Nodes
  BY ClientsAssumption
<1>1. NewReq(n) \in Reqs /\ Client(NewReq(n)) = n /\ Fresh(NewReq(n))
  BY DEF Draw, NewReq, Client, Fresh, IInv, TypeOK
<1>2. /\ \A q \in msgs : q.req # NewReq(n)
      /\ ~Queued(NewReq(n))
      /\ \A c \in Nodes : /\ holder[c] # NewReq(n) /\ cur[c] # NewReq(n)
                          /\ NewReq(n) \notin grants[c] \cup chan[c]
  BY <1>1 DEF IInv, FreshIsUntouched
<1> QED
  BY <1>1, <1>2 DEF Sent, Token, InUse, Queued

LEMMA TokenDest ==
    ASSUME IInv
    PROVE  \A s \in Reqs : Token(s) => ~Fresh(s) /\ dest[s] \in Locks
<1> SUFFICES ASSUME NEW s \in Reqs, Fresh(s) PROVE ~Token(s)
  BY DEF IInv, DrawnHasDest
<1>1. /\ \A q \in msgs : q.req # s
      /\ \A c \in Nodes : s \notin chan[c] /\ cur[c] # s
  BY DEF IInv, FreshIsUntouched
<1> QED
  BY <1>1, ReqsFacts DEF Token, Sent, InUse

LEMMA DestStable ==
    ASSUME IInv, NEW n \in Clients, NEW m \in Nodes, Draw(n, m), boot' = boot
    PROVE  /\ \A q \in msgs : q.req \in Reqs /\ dest'[q.req] = dest[q.req]
           /\ \A c \in Nodes : \A s \in Elements(queue[c]) \cup {holder[c]} :
                 s # NoReq => s \in Reqs /\ dest'[s] = dest[s]
           /\ \A s \in Reqs : Token(s) => dest'[s] = dest[s]
<1>1. \A s \in Reqs \ {NewReq(n)} : dest'[s] = dest[s]
  BY DrawFacts
<1>2. \A q \in msgs : q.req \in Reqs /\ q.req # NewReq(n)
  BY FreshFacts DEF IInv, TypeOK, Messages
<1>3. \A c \in Nodes : \A s \in Elements(queue[c]) : s \in Reqs /\ s # NewReq(n)
  <2>1. \A c \in Nodes : queue[c] \in Seq(Reqs)
    BY DEF IInv, TypeOK
  <2> QED
    BY <2>1, FreshFacts DEF Elements
<1>4. \A c \in Nodes : holder[c] # NoReq => holder[c] \in Reqs /\ holder[c] # NewReq(n)
  BY FreshFacts DEF IInv, TypeOK
<1>5. ~Token(NewReq(n))
  BY FreshFacts
<1> QED
  BY <1>1, <1>2, <1>3, <1>4, <1>5

LEMMA RemoteSendErrorStep ==
    ASSUME IInv, NEW n \in Clients, RemoteSendError(n)
    PROVE  IInv'
<1> n \in Nodes /\ masterID[n] \in Nodes
  BY ClientsAssumption DEF IInv, TypeOK
<1> DEFINE r == NewReq(n)
<1>1. /\ UNCHANGED <<holder, queue, grants, chan, msgs, boot, attempt, masterID>>
      /\ Spend("loss") /\ Fail(n) /\ Draw(n, masterID[n])
      /\ pc[n] = "remote"
  BY DEF RemoteSendError, arbiterVars, chanVars
<1>2. TypeOK'
  <2>1. budget' \in [{"timeout", "loss", "master"} -> Nat]
    BY <1>1, SpendType DEF IInv
  <2> QED
    BY <1>1, <2>1, FailType, DrawFacts DEF IInv, TypeOK
<1>3. \A c \in Nodes : InCS(c)' => InCS(c) /\ c # n
  BY <1>1, FailType DEF InCS
<1>4. OwnRequests'
  BY <1>1, <1>3, FailType DEF IInv, OwnRequests
<1>5. \A s \in Reqs : /\ InUse(s)' => InUse(s)
                      /\ Token(s)' => Token(s)
                      /\ Queued(s)' = Queued(s)
                      /\ Fresh(s)' => Fresh(s)
  BY <1>1, <1>3, FailType, DrawFacts, ReqsFacts DEF Token, InUse, Sent, Queued
<1>6. FreshIsUntouched'
  BY <1>1, <1>5, FailType, ReqsFacts DEF IInv, FreshIsUntouched
<1>7. TokenOnce'
  BY <1>1, <1>5 DEF IInv, TokenOnce, Sent
<1>8. StageOrder'
  BY <1>1, <1>5 DEF IInv, StageOrder, Sent
<1>9. QueuedOnce'
  BY <1>1 DEF IInv, QueuedOnce
<1>10. Addressed'
  BY <1>1, DestStable DEF IInv, Addressed
<1>11. TokenIsHeld' /\ OneTokenPerLock'
  <2>1. \A s \in Reqs : Token(s)' => Token(s) /\ dest'[s] = dest[s]
    BY <1>1, <1>5, DestStable
  <2> QED
    BY <1>1, <2>1 DEF IInv, TokenIsHeld, OneTokenPerLock
<1> QED
  BY <1>1, <1>2, <1>4, <1>6, <1>7, <1>8, <1>9, <1>10, <1>11, DrawFacts DEF IInv

LEMMA RemoteSendStep ==
    ASSUME IInv, NEW n \in Clients, RemoteSend(n)
    PROVE  IInv'
<1> n \in Nodes /\ masterID[n] \in Nodes
  BY ClientsAssumption DEF IInv, TypeOK
<1> DEFINE r == NewReq(n)
           new == Msg("REQUEST", masterID[n], r)
<1>1. /\ UNCHANGED <<holder, queue, chan, boot, attempt, masterID, budget>>
      /\ Draw(n, masterID[n])
      /\ pc[n] = "remote" /\ pc' = [pc EXCEPT ![n] = "waitRemote"]
      /\ cur' = [cur EXCEPT ![n] = r]
      /\ grants' = [grants EXCEPT ![n] = @ \cup {r}]
      /\ msgs' = msgs \cup {new}
  BY DEF RemoteSend, arbiterVars, envVars
<1>2. r \in Reqs /\ Client(r) = n /\ r # NoReq
  BY <1>1, DrawFacts, ReqsFacts
<1>3. new \in Messages /\ new.type = "REQUEST" /\ new.to = masterID[n] /\ new.req = r
  BY <1>2 DEF Messages, Msg
<1>4. TypeOK'
  <2>1. pc' \in [Nodes -> PCs] /\ cur' \in [Nodes -> Reqs \cup {NoReq}]
    BY <1>1, <1>2 DEF IInv, TypeOK, PCs
  <2>2. grants' \in [Nodes -> SUBSET Reqs]
    BY <1>1, <1>2 DEF IInv, TypeOK
  <2>3. msgs' \subseteq Messages
    BY <1>1, <1>3 DEF IInv, TypeOK
  <2> QED
    BY <1>1, <2>1, <2>2, <2>3, DrawFacts DEF IInv, TypeOK
<1>5. \A c \in Nodes : /\ InCS(c)' = InCS(c)
                       /\ c # n => cur'[c] = cur[c] /\ pc'[c] = pc[c] /\ grants'[c] = grants[c]
  BY <1>1 DEF InCS, IInv, TypeOK
<1>6. /\ cur'[n] = r /\ pc'[n] = "waitRemote" /\ grants'[n] = grants[n] \cup {r}
      /\ ~InCS(n)
  BY <1>1 DEF InCS, IInv, TypeOK
<1>7. OwnRequests'
  BY <1>1, <1>2, <1>5, <1>6 DEF IInv, OwnRequests
<1>8. \A s \in Reqs : /\ InUse(s)' = InUse(s)
                      /\ Sent("GRANT", s)' = Sent("GRANT", s)
                      /\ Sent("RELEASE", s)' = Sent("RELEASE", s)
                      /\ Sent("REQUEST", s)' = (Sent("REQUEST", s) \/ s = r)
                      /\ Queued(s)' = Queued(s)
                      /\ Fresh(s)' = (Fresh(s) /\ s # r)
  <2>1. \A s \in Reqs : InUse(s)' = InUse(s)
    BY <1>5, <1>6, ReqsFacts DEF InUse
  <2> QED
    BY <1>1, <1>3, <2>1, DrawFacts DEF Sent, Queued
<1>9. \A s \in Reqs : Token(s)' = Token(s)
  BY <1>1, <1>8 DEF Token
<1>10. FreshIsUntouched'
  <2> SUFFICES ASSUME NEW s \in Reqs, Fresh(s), s # r
               PROVE  /\ \A q \in msgs' : q.req # s
                      /\ ~Queued(s)'
                      /\ \A m \in Nodes : /\ holder'[m] # s
                                           /\ s \notin grants'[m]
                                           /\ s \notin chan'[m]
                      /\ \A c \in Nodes : cur'[c] # s
    BY <1>8 DEF FreshIsUntouched
  <2>1. /\ \A q \in msgs : q.req # s
        /\ ~Queued(s)
        /\ \A m \in Nodes : holder[m] # s /\ s \notin grants[m] /\ s \notin chan[m]
        /\ \A c \in Nodes : cur[c] # s
    BY DEF IInv, FreshIsUntouched
  <2> QED
    BY <1>1, <1>3, <1>5, <1>6, <1>8, <2>1
<1>11. TokenOnce'
  BY <1>1, <1>8 DEF IInv, TokenOnce
<1>12. StageOrder'
  BY <1>1, <1>8, <1>9, FreshFacts DEF IInv, StageOrder
<1>13. QueuedOnce'
  BY <1>1 DEF IInv, QueuedOnce
<1>14. Addressed'
  <2>1. dest'[r] = [node |-> masterID[n], boot |-> boot[masterID[n]]]
    BY <1>1, DrawFacts
  <2> QED
    BY <1>1, <1>3, <2>1, DestStable DEF IInv, Addressed
<1>15. TokenIsHeld' /\ OneTokenPerLock'
  <2>1. \A s \in Reqs : Token(s)' => Token(s) /\ dest'[s] = dest[s]
    BY <1>1, <1>9, DestStable
  <2> QED
    BY <1>1, <2>1 DEF IInv, TokenIsHeld, OneTokenPerLock
<1> QED
  BY <1>1, <1>4, <1>7, <1>10, <1>11, <1>12, <1>13, <1>14, <1>15, DrawFacts DEF IInv

LEMMA LocalFreeStep ==
    ASSUME IInv, NEW n \in Clients, LocalFree(n)
    PROVE  IInv'
<1> n \in Nodes
  BY ClientsAssumption
<1> DEFINE r == NewReq(n)
<1>1. /\ UNCHANGED <<queue, grants, chan, msgs, boot, attempt, masterID, budget>>
      /\ Draw(n, n)
      /\ holder[n] = NoReq /\ holder' = [holder EXCEPT ![n] = r]
      /\ pc' = [pc EXCEPT ![n] = "csLocal"]
      /\ cur' = [cur EXCEPT ![n] = r]
      /\ pc[n] = "local"
  BY DEF LocalFree, chanVars, envVars
<1>2. r \in Reqs /\ Client(r) = n /\ r # NoReq
  BY <1>1, DrawFacts, ReqsFacts
<1>3. TypeOK'
  <2>1. pc' \in [Nodes -> PCs] /\ cur' \in [Nodes -> Reqs \cup {NoReq}]
    BY <1>1, <1>2 DEF IInv, TypeOK, PCs
  <2>2. holder' \in [Nodes -> Reqs \cup {NoReq}]
    BY <1>1, <1>2 DEF IInv, TypeOK
  <2> QED
    BY <1>1, <2>1, <2>2, DrawFacts DEF IInv, TypeOK
<1>4. \A c \in Nodes : c # n => /\ cur'[c] = cur[c] /\ pc'[c] = pc[c]
                                /\ holder'[c] = holder[c] /\ InCS(c)' = InCS(c)
  BY <1>1 DEF InCS, IInv, TypeOK
<1>5. cur'[n] = r /\ pc'[n] = "csLocal" /\ holder'[n] = r /\ ~InCS(n) /\ InCS(n)'
  BY <1>1 DEF InCS, IInv, TypeOK
<1>6. OwnRequests'
  BY <1>1, <1>2, <1>4, <1>5 DEF IInv, OwnRequests
<1>7. \A s \in Reqs : /\ InUse(s)' = (InUse(s) \/ s = r)
                      /\ \A t : Sent(t, s)' = Sent(t, s)
                      /\ Queued(s)' = Queued(s)
                      /\ Fresh(s)' = (Fresh(s) /\ s # r)
  <2>1. \A s \in Reqs : InUse(s)' = (InUse(s) \/ s = r)
    BY <1>2, <1>4, <1>5, ReqsFacts DEF InUse
  <2> QED
    BY <1>1, <2>1, DrawFacts DEF Sent, Queued
<1>8. \A s \in Reqs : Token(s)' = (Token(s) \/ s = r)
  BY <1>1, <1>2, <1>7 DEF Token
<1>9. FreshIsUntouched'
  <2> SUFFICES ASSUME NEW s \in Reqs, Fresh(s), s # r
               PROVE  /\ ~Queued(s)'
                      /\ \A m \in Nodes : holder'[m] # s
                      /\ \A c \in Nodes : cur'[c] # s
    BY <1>1, <1>7 DEF IInv, FreshIsUntouched
  <2>1. /\ ~Queued(s)
        /\ \A m \in Nodes : holder[m] # s
        /\ \A c \in Nodes : cur[c] # s
    BY DEF IInv, FreshIsUntouched
  <2> QED
    BY <1>4, <1>5, <1>7, <2>1
<1>10. TokenOnce'
  BY <1>1, <1>2, <1>7, FreshFacts DEF IInv, TokenOnce
<1>11. StageOrder'
  <2> SUFFICES ASSUME NEW s \in Reqs
               PROVE  /\ Sent("REQUEST", s) =>
                          /\ ~Queued(s) /\ ~Token(s)' /\ ~Sent("RELEASE", s)
                          /\ \A m \in Nodes : holder'[m] # s
                      /\ Queued(s) => ~Token(s)' /\ ~Sent("RELEASE", s)
                      /\ Sent("RELEASE", s) => ~Token(s)'
    BY <1>7 DEF StageOrder
  <2>1. CASE s = r
    BY <1>1, <2>1, FreshFacts
  <2>2. CASE s # r
    BY <1>4, <1>5, <1>8, <2>2 DEF IInv, StageOrder
  <2> QED
    BY <2>1, <2>2
<1>12. QueuedOnce'
  <2>1. r \notin Elements(queue[n])
    BY <1>1, FreshFacts
  <2> QED
    BY <1>1, <1>4, <1>5, <2>1 DEF IInv, QueuedOnce
<1>13. dest'[r] = [node |-> n, boot |-> boot[n]]
  BY <1>1, DrawFacts
<1>14. Addressed'
  BY <1>1, <1>4, <1>5, <1>13, DestStable DEF IInv, Addressed
<1>15. TokenIsHeld' /\ OneTokenPerLock'
  <2>1. \A s \in Reqs : Token(s) => dest'[s] = dest[s]
    BY <1>1, DestStable
  <2>2. \A s \in Reqs : Token(s) => dest[s] # [node |-> n, boot |-> boot[n]]
    BY <1>1, ReqsFacts DEF IInv, TokenIsHeld
  <2>3. \A s \in Reqs : Token(s) /\ dest[s].node = n => dest[s].boot # boot[n]
    BY <2>2, TokenDest, ReqsFacts
  <2>4. TokenIsHeld'
    <3> SUFFICES ASSUME NEW s \in Reqs, Token(s)', dest'[s].boot = boot[dest'[s].node]
                 PROVE  holder'[dest'[s].node] = s
      BY <1>1 DEF TokenIsHeld
    <3>1. CASE s = r
      BY <1>5, <1>13, <3>1
    <3>2. CASE s # r
      <4>1. Token(s) /\ dest'[s] = dest[s] /\ dest[s].node # n /\ dest[s].node \in Nodes
        BY <1>8, <2>1, <2>3, <3>2, TokenDest, ReqsFacts
      <4>2. holder[dest[s].node] = s
        BY <4>1 DEF IInv, TokenIsHeld
      <4> QED
        BY <1>4, <4>1, <4>2
    <3> QED
      BY <3>1, <3>2
  <2>5. OneTokenPerLock'
    BY <1>8, <1>13, <2>1, <2>2 DEF IInv, OneTokenPerLock
  <2> QED
    BY <2>4, <2>5
<1> QED
  BY <1>1, <1>3, <1>6, <1>9, <1>10, <1>11, <1>12, <1>14, <1>15, DrawFacts DEF IInv

LEMMA LocalEnqueueStep ==
    ASSUME IInv, NEW n \in Clients, LocalEnqueue(n)
    PROVE  IInv'
<1> n \in Nodes
  BY ClientsAssumption
<1> DEFINE r == NewReq(n)
<1>1. /\ UNCHANGED <<holder, grants, chan, msgs, boot, attempt, masterID, budget>>
      /\ Draw(n, n)
      /\ queue' = [queue EXCEPT ![n] = Append(@, r)]
      /\ pc' = [pc EXCEPT ![n] = "enqueued"]
      /\ cur' = [cur EXCEPT ![n] = r]
      /\ pc[n] = "local"
  BY DEF LocalEnqueue, chanVars, envVars
<1>2. r \in Reqs /\ Client(r) = n /\ r # NoReq
  BY <1>1, DrawFacts, ReqsFacts
<1>3. /\ queue[n] \in Seq(Reqs) /\ r \notin Elements(queue[n])
      /\ queue'[n] = Append(queue[n], r)
      /\ \A c \in Nodes \ {n} : queue'[c] = queue[c]
  BY <1>1, FreshFacts DEF IInv, TypeOK
<1>4. /\ queue'[n] \in Seq(Reqs)
      /\ Elements(queue'[n]) = Elements(queue[n]) \cup {r}
      /\ Distinct(queue'[n])
  <2>1. Distinct(queue[n])
    BY DEF IInv, QueuedOnce
  <2>2. /\ Append(queue[n], r) \in Seq(Reqs)
        /\ Elements(Append(queue[n], r)) = Elements(queue[n]) \cup {r}
        /\ Distinct(Append(queue[n], r))
    <3> HIDE DEF r
    <3> QED
      BY <1>2, <1>3, <2>1, AppendElements
  <2> QED
    BY <1>3, <2>2
<1>5. TypeOK'
  <2>1. pc' \in [Nodes -> PCs] /\ cur' \in [Nodes -> Reqs \cup {NoReq}]
    BY <1>1, <1>2 DEF IInv, TypeOK, PCs
  <2>2. queue' \in [Nodes -> Seq(Reqs)]
    BY <1>1, <1>2 DEF IInv, TypeOK
  <2> QED
    BY <1>1, <2>1, <2>2, DrawFacts DEF IInv, TypeOK
<1>6. \A c \in Nodes : c # n => cur'[c] = cur[c] /\ pc'[c] = pc[c] /\ InCS(c)' = InCS(c)
  BY <1>1 DEF InCS, IInv, TypeOK
<1>7. cur'[n] = r /\ pc'[n] = "enqueued" /\ ~InCS(n) /\ ~InCS(n)'
  BY <1>1 DEF InCS, IInv, TypeOK
<1>8. OwnRequests'
  BY <1>1, <1>2, <1>6, <1>7 DEF IInv, OwnRequests
<1>9. \A s \in Reqs : /\ InUse(s)' = InUse(s)
                      /\ \A t : Sent(t, s)' = Sent(t, s)
                      /\ Queued(s)' = (Queued(s) \/ s = r)
                      /\ Fresh(s)' = (Fresh(s) /\ s # r)
  <2>1. \A s \in Reqs : InUse(s)' = InUse(s)
    BY <1>2, <1>6, <1>7, ReqsFacts DEF InUse
  <2>2. \A s \in Reqs : Queued(s)' = (Queued(s) \/ s = r)
    BY <1>3, <1>4 DEF Queued
  <2> QED
    BY <1>1, <2>1, <2>2, DrawFacts DEF Sent
<1>10. \A s \in Reqs : Token(s)' = Token(s)
  BY <1>1, <1>9 DEF Token
<1>11. FreshIsUntouched'
  <2> SUFFICES ASSUME NEW s \in Reqs, Fresh(s), s # r
               PROVE  ~Queued(s)' /\ \A c \in Nodes : cur'[c] # s
    BY <1>1, <1>9 DEF IInv, FreshIsUntouched
  <2>1. ~Queued(s) /\ \A c \in Nodes : cur[c] # s
    BY DEF IInv, FreshIsUntouched
  <2> QED
    BY <1>6, <1>7, <1>9, <2>1
<1>12. TokenOnce'
  BY <1>1, <1>9 DEF IInv, TokenOnce
<1>13. StageOrder'
  <2> SUFFICES ASSUME NEW s \in Reqs
               PROVE  /\ Sent("REQUEST", s) =>
                          /\ ~Queued(s)' /\ ~Token(s) /\ ~Sent("RELEASE", s)
                          /\ \A m \in Nodes : holder[m] # s
                      /\ Queued(s)' => ~Token(s) /\ ~Sent("RELEASE", s)
                      /\ Sent("RELEASE", s) => ~Token(s)
    BY <1>1, <1>9, <1>10 DEF StageOrder
  <2>1. CASE s = r
    BY <1>1, <2>1, FreshFacts
  <2>2. CASE s # r
    BY <1>9, <2>2 DEF IInv, StageOrder
  <2> QED
    BY <2>1, <2>2
<1>14. QueuedOnce'
  <2>1. holder[n] # r
    BY <1>1, FreshFacts
  <2> QED
    BY <1>1, <1>3, <1>4, <2>1 DEF IInv, QueuedOnce
<1>15. dest'[r] = [node |-> n, boot |-> boot[n]]
  BY <1>1, DrawFacts
<1>16. Addressed'
  <2>1. \A q \in msgs :
           /\ q.type = "GRANT" => q.to = Client(q.req)
           /\ q.type = "REQUEST" => dest'[q.req] = [node |-> q.to, boot |-> boot[q.to]]
    BY <1>1, DestStable DEF IInv, Addressed
  <2>2. \A c \in Nodes : \A s \in Elements(queue[c]) \cup {holder[c]} :
           s # NoReq => dest'[s] = [node |-> c, boot |-> boot[c]]
    BY <1>1, DestStable DEF IInv, Addressed
  <2>3. \A c \in Nodes : \A s \in Elements(queue'[c]) :
           s \in Elements(queue[c]) \/ (s = r /\ c = n)
    BY <1>3, <1>4
  <2> QED
    BY <1>1, <1>15, <2>1, <2>2, <2>3 DEF Addressed
<1>17. TokenIsHeld' /\ OneTokenPerLock'
  <2>1. \A s \in Reqs : Token(s)' => Token(s) /\ dest'[s] = dest[s]
    BY <1>1, <1>10, DestStable
  <2> QED
    BY <1>1, <2>1 DEF IInv, TokenIsHeld, OneTokenPerLock
<1> QED
  BY <1>1, <1>5, <1>8, <1>11, <1>12, <1>13, <1>14, <1>16, <1>17, DrawFacts DEF IInv

LEMMA ExitRemoteStep ==
    ASSUME IInv, NEW n \in Clients, ExitRemote(n)
    PROVE  IInv'
<1> n \in Nodes /\ masterID[n] \in Nodes
  BY ClientsAssumption DEF IInv, TypeOK
<1> DEFINE r == cur[n]
           new == Msg("RELEASE", masterID[n], r)
<1>1. /\ UNCHANGED <<holder, queue, grants, chan, issued, dest, boot, attempt,
                     masterID, budget>>
      /\ pc[n] = "csRemote" /\ pc' = [pc EXCEPT ![n] = "idle"]
      /\ cur' = [cur EXCEPT ![n] = NoReq]
      /\ msgs' = msgs \cup {new}
  BY DEF ExitRemote, Leave, arbiterVars, chanVars, envVars
<1>2. r \in Reqs /\ Client(r) = n /\ InUse(r)
  BY <1>1 DEF IInv, OwnRequests, TypeOK, InCS, InUse
<1>3. new \in Messages /\ new.type = "RELEASE" /\ new.req = r
  BY <1>2 DEF Messages, Msg
<1>4. TypeOK'
  <2>1. pc' \in [Nodes -> PCs] /\ cur' \in [Nodes -> Reqs \cup {NoReq}]
    BY <1>1 DEF IInv, TypeOK, PCs
  <2>2. msgs' \subseteq Messages
    BY <1>1, <1>3 DEF IInv, TypeOK
  <2> QED
    BY <1>1, <2>1, <2>2 DEF IInv, TypeOK
<1>5. \A c \in Nodes : c # n => cur'[c] = cur[c] /\ pc'[c] = pc[c] /\ InCS(c)' = InCS(c)
  BY <1>1 DEF InCS, IInv, TypeOK
<1>6. cur'[n] = NoReq /\ pc'[n] = "idle" /\ ~InCS(n)'
  BY <1>1 DEF InCS, IInv, TypeOK
<1>7. OwnRequests'
  BY <1>1, <1>5, <1>6 DEF IInv, OwnRequests
<1>8. \A s \in Reqs : /\ InUse(s)' = (InUse(s) /\ s # r)
                      /\ Sent("GRANT", s)' = Sent("GRANT", s)
                      /\ Sent("REQUEST", s)' = Sent("REQUEST", s)
                      /\ Sent("RELEASE", s)' = (Sent("RELEASE", s) \/ s = r)
                      /\ Queued(s)' = Queued(s)
                      /\ Fresh(s)' = Fresh(s)
  <2>1. \A s \in Reqs : InUse(s)' = (InUse(s) /\ s # r)
    BY <1>2, <1>5, <1>6, ReqsFacts DEF InUse
  <2> QED
    BY <1>1, <1>3, <2>1 DEF Sent, Queued, Fresh
<1>9. ~Sent("GRANT", r) /\ r \notin chan[n]
  BY <1>2 DEF IInv, TokenOnce
<1>10. \A s \in Reqs : Token(s)' = (Token(s) /\ s # r)
  BY <1>1, <1>2, <1>8, <1>9 DEF Token
<1>11. Token(r)
  BY <1>2 DEF Token
<1>12. FreshIsUntouched'
  <2>1. ~Fresh(r)
    BY <1>2, <1>11, TokenDest
  <2>2. \A s \in Reqs : Fresh(s) => \A q \in msgs' : q.req # s
    BY <1>1, <1>3, <2>1 DEF IInv, FreshIsUntouched
  <2>3. \A s \in Reqs : Fresh(s) => \A c \in Nodes : cur'[c] # s
    BY <1>5, <1>6, ReqsFacts DEF IInv, FreshIsUntouched
  <2> QED
    BY <1>1, <1>8, <2>2, <2>3 DEF IInv, FreshIsUntouched
<1>13. DrawnHasDest'
  BY <1>1, <1>8 DEF IInv, DrawnHasDest
<1>14. TokenOnce'
  BY <1>1, <1>8 DEF IInv, TokenOnce
<1>15. StageOrder'
  BY <1>1, <1>2, <1>8, <1>10, <1>11 DEF IInv, StageOrder
<1>16. QueuedOnce' /\ Addressed'
  BY <1>1, <1>3 DEF IInv, QueuedOnce, Addressed
<1>17. TokenIsHeld' /\ OneTokenPerLock'
  BY <1>1, <1>10 DEF IInv, TokenIsHeld, OneTokenPerLock
<1> QED
  BY <1>4, <1>7, <1>12, <1>13, <1>14, <1>15, <1>16, <1>17 DEF IInv

-----------------------------------------------------------------------------
(* The steps of the arbiter.                                               *)

\* The lock of m passes to request x: the permission of the previous holder,
\* if there was one, is gone, and x has left the queue and the network.
LEMMA HandOver ==
    ASSUME IInv, NEW m \in Nodes, NEW x \in Reqs,
           TypeOK', OwnRequests', FreshIsUntouched', TokenOnce', Addressed', QueuedOnce',
           UNCHANGED <<issued, dest, boot>>,
           holder' = [holder EXCEPT ![m] = x],
           dest[x] = [node |-> m, boot |-> boot[m]],
           \A s \in Reqs : Token(s)' => (Token(s) /\ s # holder[m]) \/ s = x,
           \A s \in Reqs : Queued(s)' => Queued(s),
           \A s \in Reqs : \A t \in {"REQUEST", "RELEASE"} : Sent(t, s)' => Sent(t, s),
           ~Queued(x)', ~Sent("REQUEST", x)', ~Sent("RELEASE", x)'
    PROVE  IInv'
<1>1. \A s \in Reqs : Fresh(s)' = Fresh(s)
  BY DEF Fresh
<1>2. DrawnHasDest'
  BY <1>1 DEF IInv, DrawnHasDest
<1>3. holder'[m] = x /\ \A c \in Nodes : c # m => holder'[c] = holder[c]
  BY DEF IInv, TypeOK
<1>4. StageOrder'
  <2> SUFFICES ASSUME NEW s \in Reqs, s # x
               PROVE  /\ Sent("REQUEST", s)' =>
                          /\ ~Queued(s)' /\ ~Token(s)' /\ ~Sent("RELEASE", s)'
                          /\ \A c \in Nodes : holder'[c] # s
                      /\ Queued(s)' => ~Token(s)' /\ ~Sent("RELEASE", s)'
                      /\ Sent("RELEASE", s)' => ~Token(s)'
    BY DEF StageOrder
  <2> QED
    BY <1>3 DEF IInv, StageOrder
<1>5. \A s \in Reqs : s # x /\ Token(s)' =>
         Token(s) /\ dest[s] # dest[x] /\ (dest[s].boot = boot[dest[s].node] => dest[s].node # m)
  <2> SUFFICES ASSUME NEW s \in Reqs, s # x, Token(s)', dest[s].node = m, dest[s].boot = boot[m]
               PROVE  FALSE
    OBVIOUS
  <2> QED
    BY DEF IInv, TokenIsHeld
<1>6. TokenIsHeld'
  <2> SUFFICES ASSUME NEW s \in Reqs, Token(s)', dest[s].boot = boot[dest[s].node]
               PROVE  holder'[dest[s].node] = s
    BY DEF TokenIsHeld
  <2>1. CASE s = x
    BY <1>3, <2>1
  <2>2. CASE s # x
    <3>1. dest[s].node # m /\ dest[s].node \in Nodes /\ holder[dest[s].node] = s
      BY <1>5, <2>2, TokenDest, ReqsFacts DEF IInv, TokenIsHeld
    <3> QED
      BY <1>3, <3>1
  <2> QED
    BY <2>1, <2>2
<1>7. OneTokenPerLock'
  BY <1>5 DEF IInv, OneTokenPerLock
<1> QED
  BY <1>2, <1>4, <1>6, <1>7 DEF IInv

\* A LOCK_REQUEST that leaves the network has no second copy in it.
LEMMA RequestOnce ==
    ASSUME IInv, NEW q \in msgs, q.type = "REQUEST"
    PROVE  /\ q.req \in Reqs /\ q.to \in Nodes
           /\ \A p \in msgs : p.type = "REQUEST" /\ p.req = q.req => p = q
           /\ dest[q.req] = [node |-> q.to, boot |-> boot[q.to]]
           /\ ~Queued(q.req) /\ ~Token(q.req) /\ ~Sent("RELEASE", q.req) /\ ~Fresh(q.req)
           /\ \A c \in Nodes : holder[c] # q.req
<1>1. \A p \in msgs : p = [type |-> p.type, to |-> p.to, req |-> p.req]
                      /\ p.req \in Reqs /\ p.to \in Nodes
  BY DEF IInv, TypeOK, Messages
<1>2. \A p \in msgs : p.type = "REQUEST" => dest[p.req] = [node |-> p.to, boot |-> boot[p.to]]
  BY DEF IInv, Addressed
<1>3. Sent("REQUEST", q.req)
  BY DEF Sent
<1>4. \A p \in msgs : p.type = "REQUEST" /\ p.req = q.req => p = q
  <2> SUFFICES ASSUME NEW p \in msgs, p.type = "REQUEST", p.req = q.req PROVE p = q
    OBVIOUS
  <2>1. /\ dest[p.req] = [node |-> p.to, boot |-> boot[p.to]]
        /\ dest[q.req] = [node |-> q.to, boot |-> boot[q.to]]
    BY <1>2
  <2>2. p.to = q.to /\ p.type = q.type
    BY <2>1
  <2> QED
    BY <1>1, <2>2
<1>5. ~Fresh(q.req)
  BY <1>1 DEF IInv, FreshIsUntouched
<1> QED
  BY <1>1, <1>2, <1>3, <1>4, <1>5 DEF IInv, StageOrder

LEMMA HandleLockRequestStep ==
    ASSUME IInv, NEW m \in Nodes, HandleLockRequest(m)
    PROVE  IInv'
<1> PICK q \in msgs :
        /\ q.type = "REQUEST" /\ q.to = m
        /\ \/ /\ holder[m] = NoReq
              /\ holder' = [holder EXCEPT ![m] = q.req]
              /\ msgs' = (msgs \ {q}) \cup {Msg("GRANT", Client(q.req), q.req)}
              /\ UNCHANGED queue
           \/ /\ holder[m] # NoReq
              /\ queue' = [queue EXCEPT ![m] = Append(@, q.req)]
              /\ msgs' = msgs \ {q}
              /\ UNCHANGED holder
        /\ UNCHANGED <<clientVars, chanVars, envVars>>
  BY DEF HandleLockRequest
<1> DEFINE r == q.req
           new == Msg("GRANT", Client(r), r)
<1>1. UNCHANGED <<grants, chan, cur, issued, dest, boot, pc, attempt, masterID, budget>>
  BY DEF clientVars, chanVars, envVars
<1>2. /\ r \in Reqs /\ Client(r) \in Nodes /\ r # NoReq
      /\ dest[r] = [node |-> m, boot |-> boot[m]]
      /\ ~Queued(r) /\ ~Token(r) /\ ~Sent("RELEASE", r) /\ ~Fresh(r)
      /\ \A c \in Nodes : holder[c] # r
      /\ \A p \in msgs \ {q} : p.type = "REQUEST" => p.req # r
  BY RequestOnce, ReqsFacts
<1>3. new \in Messages /\ new.type = "GRANT" /\ new.to = Client(r) /\ new.req = r
  BY <1>2 DEF Messages, Msg
<1>4. \A c \in Nodes : InCS(c)' = InCS(c)
  BY <1>1 DEF InCS
<1>5. OwnRequests'
  BY <1>1, <1>4 DEF IInv, OwnRequests
<1>6. \A s \in Reqs : InUse(s)' = InUse(s) /\ Fresh(s)' = Fresh(s)
  BY <1>1, <1>4, ReqsFacts DEF InUse, Fresh
<1>7. CASE /\ holder[m] = NoReq
           /\ holder' = [holder EXCEPT ![m] = r]
           /\ msgs' = (msgs \ {q}) \cup {new}
           /\ UNCHANGED queue
  <2> USE <1>7
  <2>1. TypeOK'
    <3>1. holder' \in [Nodes -> Reqs \cup {NoReq}]
      BY <1>2 DEF IInv, TypeOK
    <3>2. msgs' \subseteq Messages
      BY <1>3 DEF IInv, TypeOK
    <3> QED
      BY <1>1, <3>1, <3>2 DEF IInv, TypeOK
  <2>2. \A s \in Reqs : /\ Sent("GRANT", s)' => Sent("GRANT", s) \/ s = r
                        /\ Sent("REQUEST", s)' => Sent("REQUEST", s) /\ s # r
                        /\ Sent("RELEASE", s)' => Sent("RELEASE", s)
                        /\ Queued(s)' = Queued(s)
    BY <1>2, <1>3 DEF Sent, Queued
  <2>3. \A s \in Reqs : Token(s)' => Token(s) \/ s = r
    BY <1>1, <1>6, <2>2 DEF Token
  <2>4. /\ holder'[m] = r
        /\ \A c \in Nodes : c # m => holder'[c] = holder[c]
    BY DEF IInv, TypeOK
  <2>5. FreshIsUntouched'
    <3>1. \A s \in Reqs : Fresh(s) => \A p \in msgs' : p.req # s
      BY <1>2, <1>3 DEF IInv, FreshIsUntouched
    <3>2. \A s \in Reqs : Fresh(s) => \A c \in Nodes : holder'[c] # s
      BY <1>2, <2>4 DEF IInv, FreshIsUntouched
    <3> QED
      BY <1>1, <1>6, <2>2, <3>1, <3>2 DEF IInv, FreshIsUntouched
  <2>6. TokenOnce'
    <3>1. ~InUse(r) /\ r \notin chan[Client(r)]
      BY <1>2 DEF Token
    <3> QED
      BY <1>1, <1>6, <2>2, <3>1 DEF IInv, TokenOnce
  <2>7. Addressed'
    BY <1>1, <1>2, <1>3, <2>4 DEF IInv, Addressed
  <2>8. QueuedOnce'
    <3>1. r \notin Elements(queue[m])
      BY <1>2 DEF Queued
    <3> QED
      BY <2>4, <3>1 DEF IInv, QueuedOnce
  <2>9. \A s \in Reqs : Token(s)' => (Token(s) /\ s # holder[m]) \/ s = r
    BY <2>3, ReqsFacts
  <2> QED
    BY <1>1, <1>2, <1>5, <2>1, <2>2, <2>5, <2>6, <2>7, <2>8, <2>9, HandOver
<1>8. CASE /\ holder[m] # NoReq
           /\ queue' = [queue EXCEPT ![m] = Append(@, r)]
           /\ msgs' = msgs \ {q}
           /\ UNCHANGED holder
  <2> USE <1>8
  <2>1. /\ queue[m] \in Seq(Reqs) /\ r \notin Elements(queue[m]) /\ Distinct(queue[m])
        /\ queue'[m] = Append(queue[m], r)
        /\ \A c \in Nodes \ {m} : queue'[c] = queue[c]
    BY <1>2 DEF IInv, TypeOK, Queued, QueuedOnce
  <2>2. /\ Append(queue[m], r) \in Seq(Reqs)
        /\ Elements(Append(queue[m], r)) = Elements(queue[m]) \cup {r}
        /\ Distinct(Append(queue[m], r))
    <3> HIDE DEF r
    <3> QED
      BY <1>2, <2>1, AppendElements
  <2>3. TypeOK'
    <3>1. queue' \in [Nodes -> Seq(Reqs)]
      BY <1>2 DEF IInv, TypeOK
    <3> QED
      BY <1>1, <3>1 DEF IInv, TypeOK
  <2>4. \A s \in Reqs : /\ Sent("GRANT", s)' = Sent("GRANT", s)
                        /\ Sent("REQUEST", s)' => Sent("REQUEST", s) /\ s # r
                        /\ Sent("RELEASE", s)' => Sent("RELEASE", s)
                        /\ Queued(s)' => Queued(s) \/ s = r
    <3>1. \A s \in Reqs : Queued(s)' => Queued(s) \/ s = r
      BY <2>1, <2>2 DEF Queued
    <3> QED
      BY <1>2, <3>1 DEF Sent
  <2>5. \A s \in Reqs : Token(s)' = Token(s)
    BY <1>1, <1>6, <2>4 DEF Token
  <2>6. FreshIsUntouched'
    BY <1>1, <1>2, <1>6, <2>4 DEF IInv, FreshIsUntouched
  <2>7. DrawnHasDest'
    BY <1>1, <1>6 DEF IInv, DrawnHasDest
  <2>8. TokenOnce'
    BY <1>1, <1>6, <2>4 DEF IInv, TokenOnce
  <2>9. StageOrder'
    BY <1>2, <2>4, <2>5 DEF IInv, StageOrder
  <2>10. Addressed'
    BY <1>1, <1>2, <2>1, <2>2 DEF IInv, Addressed
  <2>11. QueuedOnce'
    BY <1>2, <2>1, <2>2 DEF IInv, QueuedOnce
  <2>12. TokenIsHeld' /\ OneTokenPerLock'
    BY <1>1, <2>5 DEF IInv, TokenIsHeld, OneTokenPerLock
  <2> QED
    BY <1>5, <2>3, <2>6, <2>7, <2>8, <2>9, <2>10, <2>11, <2>12 DEF IInv
<1> QED
  BY <1>7, <1>8

\* releaseLocal(r) on m, called when no permission of r is left, or by the
\* client of r as it leaves the critical section.
LEMMA ReleaseStep ==
    ASSUME IInv, NEW m \in Nodes, NEW r \in Reqs, NEW net \in SUBSET msgs,
           ReleaseAt(m, r, net),
           UNCHANGED <<issued, dest, boot, masterID, attempt, budget>>,
           pc' \in [Nodes -> PCs], cur' \in [Nodes -> Reqs \cup {NoReq}],
           \A c \in Nodes : \/ pc'[c] = pc[c] /\ cur'[c] = cur[c]
                            \/ pc'[c] = "idle" /\ cur'[c] = NoReq,
           ~InUse(r)', ~Sent("GRANT", r), r \notin chan[Client(r)], ~Queued(r)
    PROVE  IInv'
<1>1. \A c \in Nodes : InCS(c)' => InCS(c) /\ cur'[c] = cur[c]
  BY DEF InCS
<1>2. \A s \in Reqs : /\ InUse(s)' => InUse(s) /\ s # r
                      /\ Fresh(s)' = Fresh(s)
  BY <1>1, ReqsFacts DEF InUse, Fresh
<1>3. CASE holder[m] # r /\ msgs' = net /\ UNCHANGED <<holder, queue, grants, chan>>
  <2>1. TypeOK'
    BY <1>3 DEF IInv, TypeOK
  <2>2. OwnRequests'
    BY <1>1, <1>3 DEF IInv, OwnRequests
  <2>3. \A s \in Reqs : /\ Token(s)' => Token(s)
                        /\ Sent("GRANT", s)' => Sent("GRANT", s)
                        /\ Queued(s)' = Queued(s)
    BY <1>2, <1>3 DEF Token, Sent, Queued
  <2>4. FreshIsUntouched'
    BY <1>2, <1>3, <2>3, ReqsFacts DEF IInv, FreshIsUntouched
  <2>5. TokenOnce'
    BY <1>2, <1>3, <2>3 DEF IInv, TokenOnce
  <2> QED
    BY <1>3, <2>1, <2>2, <2>3, <2>4, <2>5, NarrowStep
<1>4. CASE /\ holder[m] = r /\ queue[m] = <<>>
           /\ holder' = [holder EXCEPT ![m] = NoReq] /\ msgs' = net
           /\ UNCHANGED <<queue, grants, chan>>
  <2>1. TypeOK'
    <3>1. holder' \in [Nodes -> Reqs \cup {NoReq}]
      BY <1>4 DEF IInv, TypeOK
    <3> QED
      BY <1>4, <3>1 DEF IInv, TypeOK
  <2>2. OwnRequests'
    BY <1>1, <1>4 DEF IInv, OwnRequests
  <2>3. \A s \in Reqs : /\ Token(s)' => Token(s) /\ s # r
                        /\ Queued(s)' = Queued(s)
                        /\ \A t : Sent(t, s)' => Sent(t, s)
    BY <1>2, <1>4 DEF Token, Sent, Queued
  <2>4. holder'[m] = NoReq /\ \A c \in Nodes : c # m => holder'[c] = holder[c]
    BY <1>4 DEF IInv, TypeOK
  <2>5. FreshIsUntouched'
    BY <1>2, <1>4, <2>3, <2>4, ReqsFacts DEF IInv, FreshIsUntouched
  <2>6. DrawnHasDest'
    BY <1>2 DEF IInv, DrawnHasDest
  <2>7. TokenOnce'
    BY <1>2, <1>4, <2>3 DEF IInv, TokenOnce
  <2>8. StageOrder'
    BY <2>3, <2>4, ReqsFacts DEF IInv, StageOrder
  <2>9. Addressed'
    BY <1>4, <2>4 DEF IInv, Addressed
  <2>10. QueuedOnce'
    <3>1. \A c \in Nodes : NoReq \notin Elements(queue[c])
      <4>1. \A c \in Nodes : queue[c] \in Seq(Reqs)
        BY DEF IInv, TypeOK
      <4> QED
        BY <4>1, ReqsFacts DEF Elements
    <3> QED
      BY <1>4, <2>4, <3>1 DEF IInv, QueuedOnce
  <2>11. TokenIsHeld'
    <3> SUFFICES ASSUME NEW s \in Reqs, Token(s), s # r, dest[s].boot = boot[dest[s].node]
                 PROVE  holder'[dest[s].node] = s
      BY <2>3 DEF TokenIsHeld
    <3>1. holder[dest[s].node] = s /\ dest[s].node \in Nodes
      BY TokenDest, ReqsFacts DEF IInv, TokenIsHeld
    <3> QED
      BY <1>4, <2>4, <3>1
  <2>12. OneTokenPerLock'
    BY <2>3 DEF IInv, OneTokenPerLock
  <2> QED
    BY <2>1, <2>2, <2>5, <2>6, <2>7, <2>8, <2>9, <2>10, <2>11, <2>12 DEF IInv
<1>5. CASE holder[m] = r /\ queue[m] # <<>> /\ GrantNext(m, net)
  <2>1. queue[m] \in Seq(Reqs) /\ Distinct(queue[m])
    BY DEF IInv, TypeOK, QueuedOnce
  <2> PICK x \in Reqs : x = Head(queue[m])
    BY <1>5, <2>1, TailElements
  <2> DEFINE new == Msg("GRANT", Client(x), x)
  <2>2. /\ x \in Reqs /\ x \in Elements(queue[m])
        /\ Tail(queue[m]) \in Seq(Reqs) /\ Distinct(Tail(queue[m]))
        /\ x \notin Elements(Tail(queue[m]))
        /\ Elements(Tail(queue[m])) \subseteq Elements(queue[m])
    BY <1>5, <2>1, TailElements
  <2>3. /\ holder' = [holder EXCEPT ![m] = x]
        /\ queue' = [queue EXCEPT ![m] = Tail(@)]
        /\ \/ /\ x \in grants[m] /\ x \notin chan[m]
              /\ chan' = [chan EXCEPT ![m] = @ \cup {x}]
              /\ grants' = [grants EXCEPT ![m] = @ \ {x}]
              /\ msgs' = net
           \/ /\ msgs' = net \cup {new}
              /\ UNCHANGED <<grants, chan>>
    BY <1>5 DEF GrantNext, chanVars
  <2>4. /\ holder'[m] = x /\ queue'[m] = Tail(queue[m])
        /\ \A c \in Nodes : c # m => holder'[c] = holder[c] /\ queue'[c] = queue[c]
        /\ queue' \in [Nodes -> Seq(Reqs)]
        /\ holder' \in [Nodes -> Reqs \cup {NoReq}]
    BY <2>2, <2>3 DEF IInv, TypeOK
  <2>5. Queued(x) /\ Client(x) \in Nodes /\ x # NoReq
    BY <2>2, ReqsFacts DEF Queued
  <2>6. /\ dest[x] = [node |-> m, boot |-> boot[m]]
        /\ ~Token(x) /\ ~Sent("RELEASE", x) /\ ~Sent("REQUEST", x) /\ ~Fresh(x)
        /\ x # r
    BY <2>2, <2>5 DEF IInv, Addressed, StageOrder, FreshIsUntouched
  <2>7. \A c \in Nodes : x \in Elements(queue[c]) => c = m
    <3> SUFFICES ASSUME NEW c \in Nodes, x \in Elements(queue[c]) PROVE c = m
      OBVIOUS
    <3>1. dest[x] = [node |-> c, boot |-> boot[c]]
      BY <2>5 DEF IInv, Addressed
    <3> QED
      BY <2>6, <3>1
  <2>8. \A s \in Reqs : Queued(s)' => Queued(s) /\ s # x
    BY <2>2, <2>4, <2>7 DEF Queued
  <2>9. new \in Messages /\ new.type = "GRANT" /\ new.to = Client(x) /\ new.req = x
    BY <2>2, <2>5 DEF Messages, Msg
  <2>10. /\ chan' \in [Nodes -> SUBSET Reqs] /\ grants' \in [Nodes -> SUBSET Reqs]
         /\ \A c \in Nodes : /\ grants'[c] \subseteq grants[c]
                             /\ \A s \in chan'[c] : s \in chan[c] \/ (s = x /\ Client(x) = c)
    <3>1. chan \in [Nodes -> SUBSET Reqs] /\ grants \in [Nodes -> SUBSET Reqs]
      BY DEF IInv, TypeOK
    <3>2. CASE /\ x \in grants[m]
               /\ chan' = [chan EXCEPT ![m] = @ \cup {x}]
               /\ grants' = [grants EXCEPT ![m] = @ \ {x}]
      <4>1. Client(x) = m
        BY <3>2 DEF IInv, OwnRequests
      <4> QED
        BY <2>2, <3>1, <3>2, <4>1
    <3>3. CASE UNCHANGED <<grants, chan>>
      BY <3>1, <3>3
    <3> QED
      BY <2>3, <3>2, <3>3
  <2>11. \A p \in msgs' : p \in msgs \/ p = new
    BY <2>3
  <2>12. TypeOK'
    <3>1. msgs' \subseteq Messages
      BY <2>9, <2>11 DEF IInv, TypeOK
    <3> QED
      BY <2>4, <2>10, <3>1 DEF IInv, TypeOK
  <2>13. OwnRequests'
    BY <1>1, <2>10 DEF IInv, OwnRequests
  <2>14. \A s \in Reqs : /\ Sent("GRANT", s)' => Sent("GRANT", s) \/ s = x
                         /\ Sent("REQUEST", s)' => Sent("REQUEST", s)
                         /\ Sent("RELEASE", s)' => Sent("RELEASE", s)
    BY <2>9, <2>11 DEF Sent
  <2>15. \A s \in Reqs : Token(s)' => (Token(s) /\ s # r) \/ s = x
    <3> SUFFICES ASSUME NEW s \in Reqs, Token(s)', s # x PROVE Token(s) /\ s # r
      OBVIOUS
    <3>1. Client(s) \in Nodes
      BY ReqsFacts
    <3>2. Sent("GRANT", s) \/ s \in chan[Client(s)] \/ (InUse(s) /\ s # r)
      BY <1>2, <2>10, <2>14, <3>1 DEF Token
    <3> QED
      BY <3>2 DEF Token
  <2>16. FreshIsUntouched'
    <3> SUFFICES ASSUME NEW s \in Reqs, Fresh(s)
                 PROVE  /\ \A p \in msgs' : p.req # s
                        /\ ~Queued(s)'
                        /\ \A c \in Nodes : holder'[c] # s /\ s \notin grants'[c] /\ s \notin chan'[c]
                        /\ \A c \in Nodes : cur'[c] # s
      BY <1>2 DEF FreshIsUntouched
    <3>1. /\ s # x /\ s # NoReq
          /\ \A p \in msgs : p.req # s
          /\ ~Queued(s)
          /\ \A c \in Nodes : holder[c] # s /\ s \notin grants[c] /\ s \notin chan[c]
          /\ \A c \in Nodes : cur[c] # s
      BY <2>6, ReqsFacts DEF IInv, FreshIsUntouched
    <3>2. \A p \in msgs' : p.req # s
      BY <2>9, <2>11, <3>1
    <3> QED
      BY <2>4, <2>8, <2>10, <3>1, <3>2
  <2>17. TokenOnce'
    <3>1. \A s \in Reqs : s # x /\ s \in chan'[Client(s)] => s \in chan[Client(s)]
      BY <2>10, ReqsFacts
    <3>2. ~InUse(x) /\ ~Sent("GRANT", x) /\ x \notin chan[Client(x)]
      BY <2>6 DEF Token
    <3>3. ~(Sent("GRANT", x)' /\ x \in chan'[Client(x)])
      <4>1. CASE msgs' = net
        BY <3>2, <4>1 DEF Sent
      <4>2. CASE chan' = chan
        BY <3>2, <4>2
      <4> QED
        BY <2>3, <4>1, <4>2
    <3> QED
      BY <1>2, <2>14, <3>1, <3>2, <3>3 DEF IInv, TokenOnce
  <2>18. Addressed'
    <3>1. \A c \in Nodes : \A s \in Elements(queue'[c]) : s \in Elements(queue[c])
      BY <2>2, <2>4
    <3>2. \A p \in msgs' :
             /\ p.type = "GRANT" => p.to = Client(p.req)
             /\ p.type = "REQUEST" => dest[p.req] = [node |-> p.to, boot |-> boot[p.to]]
      BY <2>9, <2>11 DEF IInv, Addressed
    <3>3. \A c \in Nodes : \A s \in Elements(queue'[c]) \cup {holder'[c]} :
             s # NoReq => dest[s] = [node |-> c, boot |-> boot[c]]
      <4>1. \A c \in Nodes : \A s \in Elements(queue[c]) \cup {holder[c]} :
               s # NoReq => dest[s] = [node |-> c, boot |-> boot[c]]
        BY DEF IInv, Addressed
      <4> QED
        BY <2>4, <2>6, <3>1, <4>1
    <3> QED
      BY <3>2, <3>3 DEF Addressed
  <2>19. QueuedOnce'
    BY <2>2, <2>4 DEF IInv, QueuedOnce
  <2> HIDE DEF new
  <2>20. ~Queued(x)' /\ ~Sent("REQUEST", x)' /\ ~Sent("RELEASE", x)'
    BY <2>2, <2>6, <2>8, <2>14
  <2> QED
    BY <1>5, <2>2, <2>3, <2>6, <2>8, <2>12, <2>13, <2>14, <2>15, <2>16, <2>17,
       <2>18, <2>19, <2>20, HandOver
<1> QED
  BY <1>3, <1>4, <1>5 DEF ReleaseAt, arbiterVars, chanVars

LEMMA ExitLocalStep ==
    ASSUME IInv, NEW n \in Clients, ExitLocal(n)
    PROVE  IInv'
<1> n \in Nodes
  BY ClientsAssumption
<1> PICK r \in Reqs : r = cur[n] /\ Client(r) = n /\ InUse(r)
  <2>1. InCS(n)
    BY DEF ExitLocal, InCS
  <2> QED
    BY <2>1 DEF IInv, OwnRequests, TypeOK, InUse
<1>1. /\ ReleaseAt(n, r, msgs)
      /\ UNCHANGED <<issued, dest, boot, masterID, attempt, budget>>
      /\ pc' = [pc EXCEPT ![n] = "idle"]
      /\ cur' = [cur EXCEPT ![n] = NoReq]
  BY DEF ExitLocal, Leave, envVars
<1>2. pc' \in [Nodes -> PCs] /\ cur' \in [Nodes -> Reqs \cup {NoReq}]
  BY <1>1 DEF IInv, TypeOK, PCs
<1>3. \A c \in Nodes : \/ pc'[c] = pc[c] /\ cur'[c] = cur[c]
                       \/ pc'[c] = "idle" /\ cur'[c] = NoReq
  BY <1>1 DEF IInv, TypeOK
<1>4. pc'[n] = "idle"
  BY <1>1 DEF IInv, TypeOK
<1>5. ~InUse(r)'
  BY <1>4 DEF InUse, InCS
<1>6. Token(r)
  BY DEF Token
<1>7. ~Sent("GRANT", r) /\ r \notin chan[Client(r)] /\ ~Queued(r)
  BY <1>6 DEF IInv, TokenOnce, StageOrder
<1> QED
  BY <1>1, <1>2, <1>3, <1>5, <1>7, ReleaseStep

LEMMA HandleLockReleaseStep ==
    ASSUME IInv, NEW m \in Nodes, HandleLockRelease(m)
    PROVE  IInv'
<1> PICK q \in msgs :
        /\ q.type = "RELEASE" /\ q.to = m
        /\ ReleaseAt(m, q.req, msgs \ {q})
        /\ UNCHANGED <<clientVars, envVars>>
  BY DEF HandleLockRelease
<1>1. UNCHANGED <<issued, dest, boot, masterID, attempt, budget, pc, cur>>
  BY DEF clientVars, envVars
<1>2. q.req \in Reqs
  BY DEF IInv, TypeOK, Messages
<1>3. Sent("RELEASE", q.req)
  BY DEF Sent
<1>4. ~Token(q.req) /\ ~Queued(q.req)
  BY <1>2, <1>3 DEF IInv, StageOrder
<1>5. ~Sent("GRANT", q.req) /\ q.req \notin chan[Client(q.req)] /\ ~InUse(q.req)
  BY <1>4 DEF Token
<1>6. ~InUse(q.req)'
  BY <1>1, <1>5 DEF InUse, InCS
<1>7. pc' \in [Nodes -> PCs] /\ cur' \in [Nodes -> Reqs \cup {NoReq}]
  BY <1>1 DEF IInv, TypeOK
<1>8. msgs \ {q} \in SUBSET msgs
  OBVIOUS
<1> QED
  BY <1>1, <1>2, <1>4, <1>5, <1>6, <1>7, <1>8, ReleaseStep

LEMMA RestartStep ==
    ASSUME IInv, NEW n \in Nodes, Restart(n)
    PROVE  IInv'
<1>1. /\ UNCHANGED <<attempt, issued, dest, budget>>
      /\ msgs' = {q \in msgs : q.to # n}
      /\ boot[n] < MaxBoot[n]
      /\ boot' = [boot EXCEPT ![n] = @ + 1]
  BY DEF Restart
<1>2. /\ boot \in [Nodes -> Nat] /\ MaxBoot \in [Nodes -> Nat]
      /\ \A c \in Nodes : boot[c] <= MaxBoot[c]
  BY BoundsAssumption DEF IInv, TypeOK
<1>3. /\ boot' \in [Nodes -> Nat]
      /\ \A c \in Nodes : boot'[c] <= MaxBoot[c] /\ boot[c] <= boot'[c]
      /\ boot[n] < boot'[n] /\ \A c \in Nodes : c # n => boot'[c] = boot[c]
  BY <1>1, <1>2
<1>4. /\ masterID' \in [Nodes -> Nodes]
      /\ holder' \in [Nodes -> Reqs \cup {NoReq}]
      /\ grants' \in [Nodes -> SUBSET Reqs] /\ chan' \in [Nodes -> SUBSET Reqs]
      /\ cur' \in [Nodes -> Reqs \cup {NoReq}]
  BY MasterAssumption DEF IInv, TypeOK, Restart
<1>5. pc' \in [Nodes -> PCs]
  BY DEF IInv, TypeOK, Restart, PCs
<1>6. queue' \in [Nodes -> Seq(Reqs)]
  BY DEF IInv, TypeOK, Restart
<1>7. TypeOK'
  BY <1>1, <1>3, <1>4, <1>5, <1>6 DEF IInv, TypeOK
<1>8. /\ holder'[n] = NoReq /\ queue'[n] = <<>> /\ grants'[n] = {} /\ chan'[n] = {}
      /\ pc'[n] = "idle" /\ cur'[n] = NoReq
  BY DEF IInv, TypeOK, Restart
<1>9. \A c \in Nodes : c # n =>
        /\ holder'[c] = holder[c] /\ queue'[c] = queue[c] /\ grants'[c] = grants[c]
        /\ chan'[c] = chan[c] /\ pc'[c] = pc[c] /\ cur'[c] = cur[c]
  BY DEF IInv, TypeOK, Restart
<1>10. Elements(queue'[n]) = {} /\ Distinct(queue'[n])
  BY <1>8 DEF Elements, Distinct
<1>11. \A c \in Nodes : InCS(c)' => InCS(c) /\ c # n
  BY <1>8, <1>9 DEF InCS
<1>12. OwnRequests'
  BY <1>1, <1>8, <1>9, <1>11 DEF IInv, OwnRequests
<1>13. \A s \in Reqs : /\ InUse(s)' => InUse(s)
                       /\ \A t : Sent(t, s)' => Sent(t, s)
                       /\ Queued(s)' => Queued(s)
                       /\ Fresh(s)' = Fresh(s)
  <2>1. \A s \in Reqs : InUse(s)' => InUse(s)
    BY <1>9, <1>11, ReqsFacts DEF InUse
  <2>2. \A s \in Reqs : Queued(s)' => Queued(s)
    BY <1>9, <1>10 DEF Queued
  <2> QED
    BY <1>1, <2>1, <2>2 DEF Sent, Fresh
<1>14. \A s \in Reqs : s \in chan'[Client(s)] => s \in chan[Client(s)]
  BY <1>8, <1>9, ReqsFacts
<1>15. \A s \in Reqs : Token(s)' => Token(s)
  BY <1>13, <1>14 DEF Token
<1>16. FreshIsUntouched'
  BY <1>1, <1>8, <1>9, <1>13, ReqsFacts DEF IInv, FreshIsUntouched
<1>17. DrawnHasDest'
  <2> SUFFICES ASSUME NEW s \in Reqs, ~Fresh(s)
               PROVE  dest[s] \in Locks /\ dest[s].boot <= boot'[dest[s].node]
    BY <1>1, <1>13 DEF DrawnHasDest
  <2>1. dest[s] \in Locks /\ dest[s].boot <= boot[dest[s].node]
    BY DEF IInv, DrawnHasDest
  <2>2. dest[s].node \in Nodes /\ dest[s].boot \in Nat
    BY <2>1, ReqsFacts
  <2> QED
    BY <1>2, <1>3, <2>1, <2>2
<1>18. TokenOnce'
  BY <1>13, <1>14 DEF IInv, TokenOnce
<1>19. StageOrder'
  <2>1. \A s \in Reqs : \A c \in Nodes : holder'[c] = s => holder[c] = s
    BY <1>8, <1>9, ReqsFacts
  <2> QED
    BY <1>13, <1>15, <2>1 DEF IInv, StageOrder
<1>20. QueuedOnce'
  BY <1>8, <1>9, <1>10 DEF IInv, QueuedOnce
<1>21. Addressed'
  <2>1. \A q \in msgs' :
           /\ q.type = "GRANT" => q.to = Client(q.req)
           /\ q.type = "REQUEST" => dest[q.req] = [node |-> q.to, boot |-> boot'[q.to]]
    <3>1. \A q \in msgs' : q \in msgs /\ q.to \in Nodes /\ boot'[q.to] = boot[q.to]
      BY <1>1, <1>3 DEF IInv, TypeOK, Messages
    <3> QED
      BY <3>1 DEF IInv, Addressed
  <2>2. \A c \in Nodes : \A s \in Elements(queue'[c]) \cup {holder'[c]} :
           s # NoReq => dest[s] = [node |-> c, boot |-> boot'[c]]
    BY <1>3, <1>8, <1>9, <1>10 DEF IInv, Addressed
  <2> QED
    BY <1>1, <2>1, <2>2 DEF Addressed
<1>22. TokenIsHeld'
  <2> SUFFICES ASSUME NEW s \in Reqs, Token(s), dest[s].boot = boot'[dest[s].node]
               PROVE  holder'[dest[s].node] = s
    BY <1>1, <1>15 DEF TokenIsHeld
  <2>1. dest[s] \in Locks /\ dest[s].boot <= boot[dest[s].node]
    BY TokenDest DEF IInv, DrawnHasDest
  <2>2. dest[s].node \in Nodes /\ dest[s].boot \in Nat
    BY <2>1, ReqsFacts
  <2>3. dest[s].node # n
    BY <1>2, <1>3, <2>1, <2>2
  <2>4. holder[dest[s].node] = s
    BY <1>3, <2>2, <2>3 DEF IInv, TokenIsHeld
  <2> QED
    BY <1>9, <2>2, <2>3, <2>4
<1>23. OneTokenPerLock'
  BY <1>1, <1>15 DEF IInv, OneTokenPerLock
<1> QED
  BY <1>7, <1>12, <1>16, <1>17, <1>18, <1>19, <1>20, <1>21, <1>22, <1>23 DEF IInv

-----------------------------------------------------------------------------
(* The theorems.                                                           *)

LEMMA NextStep ==
    ASSUME IInv, [Next]_vars
    PROVE  IInv'
<1>1. ASSUME NEW n \in Clients, ClientStep(n) PROVE IInv'
  BY <1>1, AcquireStep, LocalFreeStep, LocalEnqueueStep, LocalRegisterStep,
     GrantedStep, TimeoutStep, RemoteSendStep, RemoteSendErrorStep,
     ExitLocalStep, ExitRemoteStep DEF ClientStep
<1>2. ASSUME NEW m \in Nodes, Handle(m) PROVE IInv'
  BY <1>2, HandleLockRequestStep, HandleLockGrantStep, HandleLockReleaseStep DEF Handle
<1>3. CASE UNCHANGED vars
  <2>1. UNCHANGED <<holder, queue, grants, chan, msgs, cur, issued, dest, boot,
                    pc, attempt, masterID, budget>>
    BY <1>3 DEF vars, clientVars, arbiterVars, chanVars, envVars
  <2>2. \A c \in Nodes : InCS(c)' = InCS(c)
    BY <2>1 DEF InCS
  <2>3. TypeOK'
    BY <2>1 DEF IInv, TypeOK
  <2>4. OwnRequests'
    BY <2>1, <2>2 DEF IInv, OwnRequests
  <2> QED
    BY <2>1, <2>2, <2>3, <2>4, QuietStep
<1> QED
  BY <1>1, <1>2, <1>3, SetMasterIDStep, RestartStep, LoseStep DEF Next

\* The invariant that carries all the others.
THEOREM Invariance == Spec => []IInv
<1>1. Init => IInv
  BY InitIInv
<1>2. IInv /\ [Next]_vars => IInv'
  BY NextStep
<1> QED
  BY <1>1, <1>2, PTL DEF Spec

\* Every variable keeps its type: in particular no client draws more ids than
\* it may, none exceeds acquireMaxRetries, and queues hold request ids only.
THEOREM TypeCorrectness == Spec => []TypeOK
<1>1. IInv => TypeOK
  BY DEF IInv
<1> QED
  BY <1>1, Invariance, PTL

\* Two clients never share the lock of one arbiter process (acquireLocal,
\* HandleLockRequest and releaseLocal together), for any number of nodes,
\* losses, timeouts, restarts and changes of master.
THEOREM Exclusion == Spec => []ArbiterExclusion
<1>1. IInv => ArbiterExclusion
  <2> SUFFICES ASSUME IInv, NEW c \in Clients, NEW d \in Clients,
                      InCS(c), InCS(d), dest[cur[c]] = dest[cur[d]]
               PROVE  c = d
    BY DEF ArbiterExclusion
  <2>1. c \in Nodes /\ d \in Nodes
    BY ClientsAssumption
  <2>2. /\ cur[c] \in Reqs /\ Client(cur[c]) = c
        /\ cur[d] \in Reqs /\ Client(cur[d]) = d
    BY <2>1 DEF IInv, OwnRequests, TypeOK
  <2>3. Token(cur[c]) /\ Token(cur[d])
    BY <2>2 DEF Token, InUse
  <2> QED
    BY <2>2, <2>3 DEF IInv, OneTokenPerLock
<1> QED
  BY <1>1, Invariance, PTL

\* The running arbiter knows whose permission is outstanding, so no release
\* frees the lock under the client that holds it.
THEOREM HeldWhileInUse == Spec => []TokenIsHeld
<1>1. IInv => TokenIsHeld
  BY DEF IInv
<1> QED
  BY <1>1, Invariance, PTL

\* The sends on a request's channel always find its buffer empty, so neither
\* releaseLocal (which holds e.mu) nor HandleLockGrant ever blocks in one.
THEOREM NoBlockedSend == Spec => []SendNeverBlocks
<1>1. IInv => SendNeverBlocks
  <2> SUFFICES ASSUME IInv, NEW r \in Reqs, r \in chan[Client(r)]
               PROVE  ~Sent("GRANT", r) /\ \A m \in Nodes : r \notin Elements(queue[m])
    BY DEF SendNeverBlocks
  <2>1. Token(r)
    BY DEF Token
  <2>2. ~Queued(r)
    BY <2>1 DEF IInv, StageOrder
  <2> QED
    BY <2>2 DEF IInv, TokenOnce, Queued
<1> QED
  BY <1>1, Invariance, PTL

-----------------------------------------------------------------------------
(* Mutex implements LockTable.                                             *)

LEMMA OwnersSame ==
    ASSUME \A c \in Clients :
              /\ InCS(c)' = InCS(c)
              /\ InCS(c) => cur'[c] = cur[c] /\ dest'[cur[c]] = dest[cur[c]]
    PROVE  owners' = owners
BY DEF owners

LEMMA EnterStep ==
    ASSUME IInv, NEW n \in Clients, NEW l \in Locks,
           ~InCS(n), InCS(n)', dest'[cur'[n]] = l,
           \A c \in Clients \ {n} :
              /\ InCS(c)' = InCS(c)
              /\ InCS(c) => cur'[c] = cur[c] /\ dest'[cur[c]] = dest[cur[c]],
           \A s \in Reqs : InUse(s) => dest[s] # l
    PROVE  LT!Enter(l, n)
<1>1. \A c \in Clients : InCS(c) => cur[c] \in Reqs /\ InUse(cur[c])
  BY ClientsAssumption DEF IInv, OwnRequests, TypeOK, InUse
<1>2. owners[l] = {}
  BY <1>1 DEF owners
<1>3. \A k \in Locks : owners'[k] = IF k = l THEN {n} ELSE owners[k]
  <2>1. \A k \in Locks : owners'[k] = {c \in Clients : InCS(c)' /\ dest'[cur'[c]] = k}
    BY DEF owners
  <2>2. \A k \in Locks : owners[k] = {c \in Clients : InCS(c) /\ dest[cur[c]] = k}
    BY DEF owners
  <2>3. \A c \in Clients \ {n} : InCS(c)' => InCS(c) /\ dest'[cur'[c]] = dest[cur[c]]
    OBVIOUS
  <2>4. \A c \in Clients \ {n} : InCS(c) => InCS(c)' /\ dest[cur[c]] # l
    BY <1>1
  <2>5. ASSUME NEW k \in Locks, k # l PROVE owners'[k] = owners[k]
    <3>1. \A c \in Clients : (InCS(c)' /\ dest'[cur'[c]] = k) <=> (InCS(c) /\ dest[cur[c]] = k)
      <4> SUFFICES ASSUME NEW c \in Clients
                   PROVE  (InCS(c)' /\ dest'[cur'[c]] = k) <=> (InCS(c) /\ dest[cur[c]] = k)
        OBVIOUS
      <4>1. CASE c = n
        BY <2>5, <4>1
      <4>2. CASE c # n
        BY <2>3, <2>4, <4>2
      <4> QED
        BY <4>1, <4>2
    <3>2. \A c \in Clients : c \in owners'[k] <=> c \in owners[k]
      BY <2>1, <2>2, <3>1
    <3>3. owners'[k] \subseteq Clients /\ owners[k] \subseteq Clients
      BY <2>1, <2>2
    <3> QED
      BY <3>2, <3>3
  <2>6. owners'[l] = {n}
    BY <2>1, <2>3, <2>4
  <2> QED
    BY <2>5, <2>6
<1>4. owners' = [owners EXCEPT ![l] = {n}]
  <2>1. owners = [k \in Locks |-> owners[k]] /\ owners' = [k \in Locks |-> owners'[k]]
    BY DEF owners
  <2> QED
    BY <1>3, <2>1
<1> QED
  BY <1>2, <1>4 DEF LT!Enter

LEMMA LeaveStep ==
    ASSUME IInv, NEW n \in Clients, InCS(n), ~InCS(n)', dest' = dest,
           \A c \in Clients \ {n} : InCS(c)' = InCS(c) /\ cur'[c] = cur[c]
    PROVE  \E l \in Locks : LT!Leave(l, n)
<1> DEFINE l == dest[cur[n]]
<1>1. cur[n] \in Reqs /\ Token(cur[n])
  BY ClientsAssumption DEF IInv, OwnRequests, TypeOK, InUse, Token
<1>2. l \in Locks
  BY <1>1, TokenDest
<1>3. n \in owners[l]
  BY <1>2 DEF owners
<1>4. \A k \in Locks : owners'[k] = IF k = l THEN owners[k] \ {n} ELSE owners[k]
  <2>1. \A k \in Locks : owners'[k] = {c \in Clients : InCS(c)' /\ dest[cur'[c]] = k}
    BY DEF owners
  <2>2. \A k \in Locks : owners[k] = {c \in Clients : InCS(c) /\ dest[cur[c]] = k}
    BY DEF owners
  <2> SUFFICES ASSUME NEW k \in Locks
               PROVE  owners'[k] = IF k = l THEN owners[k] \ {n} ELSE owners[k]
    OBVIOUS
  <2>3. \A c \in Clients \ {n} : c \in owners'[k] <=> c \in owners[k]
    BY <2>1, <2>2
  <2>4. n \notin owners'[k] /\ (k # l => n \notin owners[k])
    BY <2>1, <2>2
  <2>5. owners'[k] \subseteq Clients /\ owners[k] \subseteq Clients
    BY <2>1, <2>2
  <2> QED
    BY <2>3, <2>4, <2>5
<1>5. owners' = [owners EXCEPT ![l] = @ \ {n}]
  <2>1. owners = [k \in Locks |-> owners[k]] /\ owners' = [k \in Locks |-> owners'[k]]
    BY DEF owners
  <2> QED
    BY <1>4, <2>1
<1> QED
  BY <1>2, <1>3, <1>5 DEF LT!Leave

LEMMA RefinementStep ==
    ASSUME IInv, [Next]_vars
    PROVE  LT!Next \/ owners' = owners
<1> USE ClientsAssumption
<1>1. ASSUME NEW n \in Clients, NEW m \in Nodes, Draw(n, m), boot' = boot,
             \A c \in Clients : InCS(c)' = InCS(c) /\ (c # n => cur'[c] = cur[c]),
             ~InCS(n)
      PROVE  owners' = owners
  <2>1. \A c \in Clients : InCS(c) => cur[c] \in Reqs /\ Token(cur[c])
    BY DEF IInv, OwnRequests, TypeOK, InUse, Token
  <2>2. \A s \in Reqs : Token(s) => dest'[s] = dest[s]
    BY <1>1, DestStable
  <2> QED
    BY <1>1, <2>1, <2>2, OwnersSame
<1>2. ASSUME NEW n \in Clients, \/ Acquire(n) \/ Retry(n) \/ LocalRegister(n)
                                \/ LocalTimeout(n) \/ RemoteTimeout(n)
      PROVE  owners' = owners
  <2>0. pc \in [Nodes -> PCs] /\ cur \in [Nodes -> Reqs \cup {NoReq}] /\ n \in Nodes
    BY DEF IInv, TypeOK
  <2>1. /\ dest' = dest /\ ~InCS(n)
        /\ \A c \in Nodes : c # n => pc'[c] = pc[c] /\ cur'[c] = cur[c]
        /\ pc'[n] \in {"idle", "retry", "local", "remote", "waitLocal"}
    BY <1>2 DEF Acquire, Retry, LocalRegister, LocalTimeout, RemoteTimeout, Fail,
                Decide, InCS, IInv, TypeOK
  <2> QED
    BY <2>1, OwnersSame DEF InCS
<1>3. ASSUME NEW n \in Clients, LocalEnqueue(n) \/ RemoteSend(n) \/ RemoteSendError(n)
      PROVE  owners' = owners
  <2>1. /\ boot' = boot /\ ~InCS(n)
        /\ \E m \in Nodes : Draw(n, m)
        /\ \A c \in Nodes : c # n => pc'[c] = pc[c] /\ cur'[c] = cur[c]
        /\ pc'[n] \in {"idle", "retry", "enqueued", "waitRemote"}
    BY <1>3 DEF LocalEnqueue, RemoteSend, RemoteSendError, Fail, envVars, InCS, IInv, TypeOK
  <2>2. \A c \in Clients : InCS(c)' = InCS(c)
    BY <2>1 DEF InCS
  <2> QED
    BY <1>1, <2>1, <2>2
<1>4. ASSUME NEW n \in Clients, LocalFree(n)
      PROVE  LT!Next
  <2> DEFINE l == [node |-> n, boot |-> boot[n]]
  <2>1. /\ boot' = boot /\ Draw(n, n) /\ holder[n] = NoReq /\ pc[n] = "local"
        /\ pc' = [pc EXCEPT ![n] = "csLocal"]
        /\ cur' = [cur EXCEPT ![n] = NewReq(n)]
    BY <1>4 DEF LocalFree, envVars
  <2>2. l \in Locks /\ dest'[NewReq(n)] = l
    BY <2>1, LockOf, DrawFacts DEF IInv
  <2>3. /\ ~InCS(n) /\ InCS(n)' /\ cur'[n] = NewReq(n)
        /\ \A c \in Clients \ {n} : InCS(c)' = InCS(c) /\ cur'[c] = cur[c]
    BY <2>1 DEF InCS, IInv, TypeOK
  <2>4. \A s \in Reqs : Token(s) => dest'[s] = dest[s]
    BY <2>1, DestStable
  <2>5. \A c \in Clients : InCS(c) => cur[c] \in Reqs /\ Token(cur[c])
    BY DEF IInv, OwnRequests, TypeOK, InUse, Token
  <2>6. \A s \in Reqs : InUse(s) => dest[s] # l
    BY <2>1, ReqsFacts DEF Token, IInv, TokenIsHeld
  <2>7. LT!Enter(l, n)
    BY <2>2, <2>3, <2>4, <2>5, <2>6, EnterStep
  <2> QED
    BY <2>2, <2>7 DEF LT!Next
<1>5. ASSUME NEW n \in Clients, LocalGranted(n) \/ RemoteGranted(n)
      PROVE  LT!Next
  <2> DEFINE l == dest[cur[n]]
  <2>1. /\ dest' = dest /\ cur' = cur /\ cur[n] \in chan[n]
        /\ pc[n] \in {"waitLocal", "waitRemote"}
        /\ \A c \in Nodes : c # n => pc'[c] = pc[c]
        /\ pc'[n] \in {"csLocal", "csRemote"}
    BY <1>5 DEF LocalGranted, RemoteGranted, IInv, TypeOK
  <2>2. cur[n] \in Reqs /\ Client(cur[n]) = n /\ Token(cur[n])
    BY <2>1 DEF IInv, OwnRequests, TypeOK, Token
  <2>3. l \in Locks
    BY <2>2, TokenDest
  <2>4. /\ ~InCS(n) /\ InCS(n)'
        /\ \A c \in Clients \ {n} : InCS(c)' = InCS(c)
    BY <2>1 DEF InCS
  <2>5. \A s \in Reqs : InUse(s) => dest[s] # l
    <3> SUFFICES ASSUME NEW s \in Reqs, InUse(s), dest[s] = l PROVE FALSE
      OBVIOUS
    <3>1. s = cur[n]
      BY <2>2 DEF Token, IInv, OneTokenPerLock
    <3> QED
      BY <2>2, <2>4, <3>1 DEF InUse
  <2>6. LT!Enter(l, n)
    BY <2>1, <2>3, <2>4, <2>5, EnterStep
  <2> QED
    BY <2>3, <2>6 DEF LT!Next
<1>6. ASSUME NEW n \in Clients, ExitLocal(n) \/ ExitRemote(n)
      PROVE  LT!Next
  <2>1. /\ dest' = dest /\ InCS(n) /\ ~InCS(n)'
        /\ \A c \in Clients \ {n} : InCS(c)' = InCS(c) /\ cur'[c] = cur[c]
    BY <1>6 DEF ExitLocal, ExitRemote, Leave, InCS, IInv, TypeOK
  <2> QED
    BY <2>1, LeaveStep DEF LT!Next
<1>7. ASSUME NEW n \in Nodes, Restart(n)
      PROVE  LT!Next \/ owners' = owners
  <2>1. /\ dest' = dest /\ ~InCS(n)'
        /\ \A c \in Nodes : c # n => InCS(c)' = InCS(c) /\ cur'[c] = cur[c]
    BY <1>7 DEF Restart, InCS, IInv, TypeOK
  <2>2. CASE n \in Clients /\ InCS(n)
    BY <2>1, <2>2, LeaveStep DEF LT!Next
  <2>3. CASE ~(n \in Clients /\ InCS(n))
    <3>1. \A c \in Clients : InCS(c)' = InCS(c)
      <4>1. InCS(n) \in BOOLEAN /\ InCS(n)' \in BOOLEAN
        BY DEF InCS
      <4> QED
        BY <2>1, <2>3, <4>1
    <3>2. \A c \in Clients : InCS(c) => cur'[c] = cur[c]
      BY <2>1, <2>3
    <3> QED
      BY <2>1, <3>1, <3>2, OwnersSame
  <2> QED
    BY <2>2, <2>3
<1>8. ASSUME UNCHANGED <<pc, cur, dest>>
      PROVE  owners' = owners
  BY <1>8, OwnersSame DEF InCS
<1>9. ASSUME \/ \E m \in Nodes : Handle(m)
             \/ \E n, m \in Nodes : SetMasterID(n, m)
             \/ Lose
             \/ UNCHANGED vars
      PROVE  UNCHANGED <<pc, cur, dest>>
  <2>1. ASSUME NEW m \in Nodes, Handle(m) PROVE UNCHANGED <<pc, cur, dest>>
    BY <2>1 DEF Handle, HandleLockRequest, HandleLockGrant, HandleLockRelease, clientVars
  <2> QED
    BY <1>9, <2>1 DEF SetMasterID, Lose, vars, clientVars
<1> QED
  BY <1>2, <1>3, <1>4, <1>5, <1>6, <1>7, <1>8, <1>9 DEF Next, ClientStep

\* The lock service implements the abstract table of locks: each step enters
\* a lock that nobody owns, leaves one, or changes no owner.
THEOREM Refinement == Spec => ImplementsLockTable
<1>1. Init => LT!Init
  BY ClientsAssumption DEF Init, LT!Init, owners, InCS
<1>2. IInv /\ [Next]_vars => [LT!Next]_owners
  BY RefinementStep
<1> QED
  BY <1>1, <1>2, Invariance, PTL DEF Spec, LT!Spec, ImplementsLockTable

-----------------------------------------------------------------------------
(* Nobody who waits for a remote arbiter is forgotten.                     *)

LEMMA AppendKeeps ==
    ASSUME NEW S, NEW s \in Seq(S), NEW x \in S
    PROVE  Elements(Append(s, x)) = Elements(s) \cup {x}
BY DEF Elements

LEMMA TailKeeps ==
    ASSUME NEW S, NEW s \in Seq(S), s # <<>>
    PROVE  Elements(s) = Elements(Tail(s)) \cup {Head(s)} /\ Head(s) \in S
<1>1. /\ Len(s) \in Nat \ {0} /\ Len(Tail(s)) = Len(s) - 1
      /\ Head(s) = s[1] /\ \A i \in 1..Len(Tail(s)) : Tail(s)[i] = s[i + 1]
  OBVIOUS
<1>2. \A i \in 2..Len(s) : i - 1 \in 1..Len(Tail(s)) /\ Tail(s)[i - 1] = s[i]
  BY <1>1
<1>3. \A i \in 1..Len(s) : i = 1 \/ i \in 2..Len(s)
  BY <1>1
<1>4. Elements(s) \subseteq Elements(Tail(s)) \cup {Head(s)}
  BY <1>1, <1>2, <1>3 DEF Elements
<1>5. Elements(Tail(s)) \cup {Head(s)} \subseteq Elements(s)
  BY <1>1 DEF Elements
<1> QED
  BY <1>1, <1>4, <1>5

LEMMA InitWInv == Init => WInv
<1> SUFFICES ASSUME Init PROVE WInv
  OBVIOUS
<1>1. budget["loss"] <= MaxFaults["loss"]
  BY BoundsAssumption DEF Init
<1>2. /\ QueueIsServed /\ Registered /\ KnownNextDoor
      /\ \A n \in Clients : pc[n] # "waitRemote"
  BY ClientsAssumption DEF Init, QueueIsServed, Registered, KnownNextDoor
<1> QED
  BY <1>1, <1>2 DEF WInv

\* What a release does to the requests of an arbiter.
LEMMA ReleaseKeeps ==
    ASSUME IInv, QueueIsServed, NEW m \in Nodes, NEW r, NEW net, ReleaseAt(m, r, net),
           {q \in msgs : q.type # "RELEASE"} \subseteq net
    PROVE  /\ QueueIsServed'
           /\ \A c \in Nodes : grants[c] \cup chan[c] \subseteq grants'[c] \cup chan'[c]
           /\ \A s \in Reqs : OnItsWay(s) => OnItsWay(s)'
<1>1. CASE queue' = queue /\ chanVars' = chanVars /\ msgs' = net
           /\ (holder' = holder \/ (queue[m] = <<>> /\ holder' = [holder EXCEPT ![m] = NoReq]))
  <2>1. QueueIsServed'
    BY <1>1 DEF QueueIsServed, IInv, TypeOK
  <2>2. \A s \in Reqs : OnItsWay(s) => OnItsWay(s)'
    BY <1>1 DEF OnItsWay, Sent, Queued, chanVars
  <2> QED
    BY <1>1, <2>1, <2>2 DEF chanVars
<1>2. CASE queue[m] # <<>> /\ GrantNext(m, net)
  <2> PICK next : next = Head(queue[m])
    OBVIOUS
  <2>0. queue[m] \in Seq(Reqs)
    BY DEF IInv, TypeOK
  <2>1. next \in Reqs /\ Elements(queue[m]) = Elements(Tail(queue[m])) \cup {next}
    BY <1>2, <2>0, TailKeeps
  <2>2. /\ holder' = [holder EXCEPT ![m] = next]
        /\ queue' = [queue EXCEPT ![m] = Tail(@)]
    BY <1>2 DEF GrantNext
  <2>3. QueueIsServed'
    BY <2>1, <2>2, NoReqAssumption DEF QueueIsServed, IInv, TypeOK
  <2>4. \A p \in Nodes \ {m} : queue'[p] = queue[p]
    BY <2>2 DEF IInv, TypeOK
  <2>5. queue'[m] = Tail(queue[m])
    BY <2>2 DEF IInv, TypeOK
  <2>6. \A s \in Reqs : Queued(s) => Queued(s)' \/ s = next
    BY <2>1, <2>4, <2>5 DEF Queued
  <2>7. CASE /\ next \in grants[m]
             /\ chan' = [chan EXCEPT ![m] = @ \cup {next}]
             /\ grants' = [grants EXCEPT ![m] = @ \ {next}]
             /\ msgs' = net
    <3>1. /\ \A c \in Nodes : chan[c] \subseteq chan'[c]
          /\ \A c \in Nodes : grants[c] \cup chan[c] \subseteq grants'[c] \cup chan'[c]
          /\ next \in chan'[m]
      BY <2>7 DEF IInv, TypeOK
    <3>2. Client(next) = m
      BY <2>7 DEF IInv, OwnRequests
    <3>3. \A s \in Reqs : OnItsWay(s) => OnItsWay(s)'
      BY <2>6, <2>7, <3>1, <3>2, ReqsFacts DEF OnItsWay, Sent
    <3> QED
      BY <2>3, <3>1, <3>3
  <2>8. CASE /\ msgs' = net \cup {Msg("GRANT", Client(next), next)}
             /\ UNCHANGED chanVars
    <3>1. Msg("GRANT", Client(next), next) \in msgs'
      BY <2>8
    <3>2. Sent("GRANT", next)'
      BY <3>1 DEF Sent, Msg
    <3>3. \A s \in Reqs : OnItsWay(s) => OnItsWay(s)'
      BY <2>6, <2>8, <3>2 DEF OnItsWay, Sent, chanVars
    <3> QED
      BY <2>3, <2>8, <3>3 DEF chanVars
  <2> QED
    BY <1>2, <2>7, <2>8 DEF GrantNext
<1> QED
  BY <1>1, <1>2 DEF ReleaseAt, arbiterVars

LEMMA QueueIsServedStep ==
    ASSUME IInv, QueueIsServed, [Next]_vars
    PROVE  QueueIsServed'
<1>1. CASE UNCHANGED <<queue, holder>>
  BY <1>1 DEF QueueIsServed
<1>2. ASSUME NEW n \in Clients, LocalFree(n) \/ LocalEnqueue(n) PROVE QueueIsServed'
  <2>1. n \in Nodes /\ NewReq(n) \in Reqs
    BY <1>2, ClientsAssumption DEF LocalFree, LocalEnqueue, Draw
  <2> QED
    BY <1>2, <2>1, NoReqAssumption DEF LocalFree, LocalEnqueue, QueueIsServed, IInv, TypeOK
<1>3. ASSUME NEW m \in Nodes, HandleLockRequest(m) PROVE QueueIsServed'
  <2>1. PICK q \in msgs :
          \/ /\ holder' = [holder EXCEPT ![m] = q.req]
             /\ UNCHANGED queue
          \/ /\ holder[m] # NoReq
             /\ queue' = [queue EXCEPT ![m] = Append(@, q.req)]
             /\ UNCHANGED holder
    BY <1>3 DEF HandleLockRequest
  <2>2. q.req \in Reqs
    BY DEF IInv, TypeOK, Messages
  <2> QED
    BY <2>1, <2>2, NoReqAssumption DEF QueueIsServed, IInv, TypeOK
<1>4. ASSUME NEW m \in Nodes, HandleLockRelease(m) PROVE QueueIsServed'
  <2>1. PICK q \in msgs : q.type = "RELEASE" /\ ReleaseAt(m, q.req, msgs \ {q})
    BY <1>4 DEF HandleLockRelease
  <2> QED
    BY <2>1, ReleaseKeeps
<1>5. ASSUME NEW n \in Clients, ExitLocal(n) PROVE QueueIsServed'
  BY <1>5, ReleaseKeeps, ClientsAssumption DEF ExitLocal
<1>6. ASSUME NEW n \in Nodes, Restart(n) PROVE QueueIsServed'
  BY <1>6 DEF Restart, QueueIsServed, IInv, TypeOK
<1>7. ASSUME NEW n \in Clients,
             \/ Acquire(n) \/ Retry(n) \/ LocalRegister(n) \/ LocalGranted(n) \/ LocalTimeout(n)
             \/ RemoteSend(n) \/ RemoteSendError(n) \/ RemoteGranted(n) \/ RemoteTimeout(n)
             \/ ExitRemote(n)
      PROVE  UNCHANGED <<queue, holder>>
  BY <1>7 DEF Acquire, Retry, LocalRegister, LocalGranted, LocalTimeout, RemoteSend,
              RemoteSendError, RemoteGranted, RemoteTimeout, ExitRemote, arbiterVars
<1>8. ASSUME NEW n \in Nodes, NEW m \in Nodes, HandleLockGrant(n) \/ SetMasterID(n, m) \/ Lose
      PROVE  UNCHANGED <<queue, holder>>
  BY <1>8 DEF HandleLockGrant, SetMasterID, Lose, arbiterVars
<1>9. ASSUME UNCHANGED vars PROVE UNCHANGED <<queue, holder>>
  BY <1>9 DEF vars, arbiterVars
<1> QED
  BY <1>1, <1>2, <1>3, <1>4, <1>5, <1>6, <1>7, <1>8, <1>9, MasterAssumption
     DEF Next, ClientStep, Handle

\* Whoever waits with a channel waited so before, or has just registered it.
LEMMA WaitedBefore ==
    ASSUME IInv, [Next]_vars, NEW n \in Clients, pc'[n] \in {"waitLocal", "waitRemote"}
    PROVE  \/ pc[n] = pc'[n] /\ cur'[n] = cur[n] /\ ~LocalGranted(n) /\ ~RemoteGranted(n)
              /\ ~RemoteTimeout(n) /\ ~Restart(n)
           \/ RemoteSend(n) \/ LocalRegister(n)
<1> n \in Nodes
  BY ClientsAssumption
<1>0. ~LocalGranted(n) /\ ~RemoteGranted(n) /\ ~RemoteTimeout(n) /\ ~Restart(n)
  BY DEF LocalGranted, RemoteGranted, RemoteTimeout, Fail, Restart, IInv, TypeOK
<1>1. ASSUME NEW c \in Clients,
             Acquire(c) \/ Retry(c) \/ LocalFree(c) \/ LocalEnqueue(c)
      PROVE  pc[n] = pc'[n] /\ cur'[n] = cur[n]
  BY <1>1, ClientsAssumption DEF Acquire, Retry, LocalFree, LocalEnqueue, Decide, IInv, TypeOK
<1>2. ASSUME NEW c \in Clients,
             LocalGranted(c) \/ LocalTimeout(c) \/ RemoteSendError(c) \/ RemoteGranted(c)
               \/ RemoteTimeout(c) \/ ExitLocal(c) \/ ExitRemote(c)
      PROVE  pc[n] = pc'[n] /\ cur'[n] = cur[n]
  BY <1>2, ClientsAssumption DEF LocalGranted, LocalTimeout, RemoteSendError, RemoteGranted,
       RemoteTimeout, ExitLocal, ExitRemote, Fail, Leave, IInv, TypeOK
<1>3. ASSUME NEW c \in Clients, RemoteSend(c) \/ LocalRegister(c), c # n
      PROVE  pc[n] = pc'[n] /\ cur'[n] = cur[n]
  BY <1>3, ClientsAssumption DEF RemoteSend, LocalRegister, IInv, TypeOK
<1>4. ASSUME NEW m \in Nodes, NEW p \in Nodes,
             Handle(m) \/ Restart(m) \/ SetMasterID(m, p) \/ Lose
      PROVE  pc[n] = pc'[n] /\ cur'[n] = cur[n]
  BY <1>4 DEF Handle, HandleLockRequest, HandleLockGrant, HandleLockRelease, Restart, SetMasterID,
       Lose, clientVars, IInv, TypeOK
<1>5. ASSUME UNCHANGED vars PROVE pc[n] = pc'[n] /\ cur'[n] = cur[n]
  BY <1>5 DEF vars, clientVars
<1> QED
  BY <1>0, <1>1, <1>2, <1>3, <1>4, <1>5, MasterAssumption DEF Next, ClientStep

\* A delivered grant takes no grant away.
LEMMA GrantKeeps ==
    ASSUME IInv, NEW m \in Nodes, HandleLockGrant(m)
    PROVE  grants' = grants /\ \A c \in Nodes : chan[c] \subseteq chan'[c]
<1> PICK g \in msgs : \/ chan' = [chan EXCEPT ![m] = @ \cup {g.req}]
                      \/ chan' = chan
  BY DEF HandleLockGrant
<1>1. grants' = grants
  BY DEF HandleLockGrant
<1>2. chan \in [Nodes -> SUBSET Reqs]
  BY DEF IInv, TypeOK
<1>3. CASE chan' = chan
  BY <1>1, <1>3
<1>4. CASE chan' = [chan EXCEPT ![m] = @ \cup {g.req}]
  BY <1>1, <1>2, <1>4
<1> QED
  BY <1>3, <1>4

\* A request that is enqueued is queued, and so are those that were.
LEMMA EnqueueKeeps ==
    ASSUME IInv, NEW m \in Nodes, NEW q \in Reqs, NEW s \in Reqs,
           queue' = [queue EXCEPT ![m] = Append(@, q)], Queued(s) \/ s = q
    PROVE  Queued(s)'
<1>1. queue \in [Nodes -> Seq(Reqs)]
  BY DEF IInv, TypeOK
<1>2. /\ queue'[m] = Append(queue[m], q)
      /\ \A p \in Nodes : p # m => queue'[p] = queue[p]
  BY <1>1
<1>3. Elements(queue'[m]) = Elements(queue[m]) \cup {q}
  BY <1>1, <1>2, AppendKeeps
<1>4. \A p \in Nodes : p # m => Elements(queue'[p]) = Elements(queue[p])
  BY <1>2 DEF Elements
<1> QED
  BY <1>3, <1>4 DEF Queued

LEMMA RegisteredStep ==
    ASSUME IInv, QueueIsServed, Registered, [Next]_vars
    PROVE  Registered'
<1> SUFFICES ASSUME NEW n \in Clients, pc'[n] \in {"waitLocal", "waitRemote"}
             PROVE  cur'[n] \in grants'[n] \cup chan'[n]
  BY DEF Registered
<1> n \in Nodes
  BY ClientsAssumption
<1>0. CASE RemoteSend(n) \/ LocalRegister(n)
  BY <1>0 DEF RemoteSend, LocalRegister, IInv, TypeOK
<1> SUFFICES ASSUME pc[n] \in {"waitLocal", "waitRemote"}, cur'[n] = cur[n], ~LocalGranted(n), ~RemoteGranted(n),
                    ~RemoteTimeout(n), ~Restart(n), ~RemoteSend(n)
             PROVE  grants[n] \cup chan[n] \subseteq grants'[n] \cup chan'[n]
  BY <1>0, WaitedBefore DEF Registered
<1>1. CASE UNCHANGED <<grants, chan>>
  BY <1>1
<1>2. ASSUME NEW c \in Clients,
             \/ Acquire(c) \/ Retry(c) \/ LocalFree(c) \/ LocalEnqueue(c) \/ LocalTimeout(c)
             \/ RemoteSendError(c) \/ ExitRemote(c)
      PROVE  UNCHANGED <<grants, chan>>
  BY <1>2 DEF Acquire, Retry, LocalFree, LocalEnqueue, LocalTimeout, RemoteSendError, ExitRemote,
              chanVars
<1>3. ASSUME NEW c \in Clients, LocalRegister(c) \/ RemoteSend(c)
      PROVE  grants[n] \cup chan[n] \subseteq grants'[n] \cup chan'[n]
  BY <1>3, ClientsAssumption DEF LocalRegister, RemoteSend, IInv, TypeOK
<1>4. ASSUME NEW c \in Clients, c # n, LocalGranted(c) \/ RemoteGranted(c) \/ RemoteTimeout(c)
      PROVE  grants[n] \cup chan[n] \subseteq grants'[n] \cup chan'[n]
  BY <1>4, ClientsAssumption DEF LocalGranted, RemoteGranted, RemoteTimeout, IInv, TypeOK
<1>5. ASSUME NEW c \in Clients, ExitLocal(c)
      PROVE  grants[n] \cup chan[n] \subseteq grants'[n] \cup chan'[n]
  BY <1>5, ReleaseKeeps, ClientsAssumption DEF ExitLocal
<1>6. ASSUME NEW m \in Nodes, HandleLockRelease(m)
      PROVE  grants[n] \cup chan[n] \subseteq grants'[n] \cup chan'[n]
  <2>1. PICK q \in msgs : q.type = "RELEASE" /\ ReleaseAt(m, q.req, msgs \ {q})
    BY <1>6 DEF HandleLockRelease
  <2> QED
    BY <2>1, ReleaseKeeps
<1>7. ASSUME NEW m \in Nodes, HandleLockGrant(m)
      PROVE  grants[n] \cup chan[n] \subseteq grants'[n] \cup chan'[n]
  BY <1>7, GrantKeeps
<1>8. ASSUME NEW m \in Nodes, m # n, Restart(m)
      PROVE  grants[n] \cup chan[n] \subseteq grants'[n] \cup chan'[n]
  BY <1>8 DEF Restart, IInv, TypeOK
<1>9. ASSUME NEW m \in Nodes, NEW p \in Nodes,
             HandleLockRequest(m) \/ SetMasterID(m, p) \/ Lose \/ UNCHANGED vars
      PROVE  UNCHANGED <<grants, chan>>
  BY <1>9 DEF HandleLockRequest, SetMasterID, Lose, vars, chanVars
<1> QED
  BY <1>1, <1>2, <1>3, <1>4, <1>5, <1>6, <1>7, <1>8, <1>9, MasterAssumption
     DEF Next, ClientStep, Handle

\* A release of another request leaves a local client to its arbiter.
LEMMA ReleaseKnows ==
    ASSUME IInv, NEW m \in Nodes, NEW r, NEW net, ReleaseAt(m, r, net),
           NEW n \in Nodes, NEW s \in Reqs, m = n => s # r,
           s \in Elements(queue[n]) \/ holder[n] = s
    PROVE  s \in Elements(queue'[n]) \/ holder'[n] = s
<1>1. CASE queue' = queue /\ holder' = holder
  BY <1>1
<1>2. CASE /\ holder[m] = r /\ queue[m] = <<>>
           /\ holder' = [holder EXCEPT ![m] = NoReq] /\ queue' = queue
  <2>1. Elements(queue[m]) = {}
    BY <1>2 DEF Elements
  <2> QED
    BY <1>2, <2>1 DEF IInv, TypeOK
<1>3. CASE /\ holder[m] = r /\ queue[m] # <<>>
           /\ holder' = [holder EXCEPT ![m] = Head(queue[m])]
           /\ queue' = [queue EXCEPT ![m] = Tail(@)]
  <2>1. queue \in [Nodes -> Seq(Reqs)] /\ holder \in [Nodes -> Reqs \cup {NoReq}]
    BY DEF IInv, TypeOK
  <2>2. CASE m = n
    <3>1. Elements(queue[m]) = Elements(Tail(queue[m])) \cup {Head(queue[m])}
      BY <1>3, <2>1, TailKeeps
    <3>2. queue'[n] = Tail(queue[n]) /\ holder'[n] = Head(queue[n])
      BY <1>3, <2>1, <2>2
    <3> QED
      BY <1>3, <2>2, <3>1, <3>2
  <2>3. CASE m # n
    BY <1>3, <2>1, <2>3
  <2> QED
    BY <2>2, <2>3
<1> QED
  BY <1>1, <1>2, <1>3 DEF ReleaseAt, GrantNext, arbiterVars

\* A release sends no RELEASE.
LEMMA ReleaseSends ==
    ASSUME NEW m, NEW r, NEW net, net \subseteq msgs, ReleaseAt(m, r, net), NEW s
    PROVE  Sent("RELEASE", s)' => Sent("RELEASE", s)
<1>1. ASSUME NEW q \in msgs', q.type = "RELEASE" PROVE q \in msgs
  BY <1>1 DEF ReleaseAt, GrantNext, Msg
<1> QED
  BY <1>1 DEF Sent

LEMMA KnownNextDoorStep ==
    ASSUME IInv, KnownNextDoor, [Next]_vars
    PROVE  KnownNextDoor'
<1> SUFFICES ASSUME NEW n \in Clients, pc'[n] \in {"enqueued", "waitLocal"}
             PROVE  /\ cur'[n] \in Elements(queue'[n]) \/ holder'[n] = cur'[n]
                    /\ \A q \in msgs' : ~(q.type = "RELEASE" /\ q.req = cur'[n])
  BY DEF KnownNextDoor, Elements, Sent
<1> n \in Nodes
  BY ClientsAssumption
<1>0. CASE LocalEnqueue(n)
  <2>1. /\ NewReq(n) \in Reqs /\ Draw(n, n) /\ msgs' = msgs
        /\ queue'[n] = Append(queue[n], NewReq(n)) /\ cur'[n] = NewReq(n)
        /\ queue[n] \in Seq(Reqs)
    BY <1>0 DEF LocalEnqueue, Draw, IInv, TypeOK
  <2>2. \A q \in msgs : q.req # NewReq(n)
    BY <2>1, FreshFacts
  <2> QED
    BY <2>1, <2>2, AppendKeeps
<1>1. CASE ~LocalEnqueue(n)
  <2>1. pc[n] \in {"enqueued", "waitLocal"} /\ cur'[n] = cur[n]
    <3>1. ASSUME NEW c \in Clients, c # n, ClientStep(c)
          PROVE  pc'[n] = pc[n] /\ cur'[n] = cur[n]
      BY <3>1, ClientsAssumption DEF ClientStep, Acquire, Retry, LocalFree, LocalEnqueue,
         LocalRegister, LocalGranted, LocalTimeout, RemoteSend, RemoteSendError, RemoteGranted,
         RemoteTimeout, ExitLocal, ExitRemote, Fail, Leave, IInv, TypeOK
    <3>2. ASSUME ClientStep(n) PROVE LocalRegister(n)
      BY <1>1, <3>2 DEF ClientStep, Acquire, Retry, LocalFree, LocalGranted, LocalTimeout,
         RemoteSend, RemoteSendError, RemoteGranted, RemoteTimeout, ExitLocal, ExitRemote, Fail,
         Leave, Decide, IInv, TypeOK
    <3>3. LocalRegister(n) => pc[n] = "enqueued" /\ cur'[n] = cur[n]
      BY DEF LocalRegister
    <3>4. ASSUME NEW m \in Nodes, NEW p \in Nodes,
                 Handle(m) \/ SetMasterID(m, p) \/ Lose \/ UNCHANGED vars
          PROVE  pc'[n] = pc[n] /\ cur'[n] = cur[n]
      BY <3>4 DEF Handle, HandleLockRequest, HandleLockGrant, HandleLockRelease, SetMasterID,
         Lose, vars, clientVars
    <3>5. ASSUME NEW m \in Nodes, Restart(m)
          PROVE  pc'[n] = pc[n] /\ cur'[n] = cur[n]
      BY <3>5 DEF Restart, IInv, TypeOK
    <3> QED
      BY <3>1, <3>2, <3>3, <3>4, <3>5, MasterAssumption DEF Next
  <2> PICK s \in Reqs : s = cur[n]
    BY <2>1, NoReqAssumption DEF IInv, OwnRequests, TypeOK
  <2>2. /\ s \in Reqs /\ Client(s) = n /\ s # NoReq
        /\ s \in Elements(queue[n]) \/ holder[n] = s
        /\ ~Sent("RELEASE", s)
    BY <2>1, NoReqAssumption DEF KnownNextDoor, IInv, OwnRequests, TypeOK
  <2> SUFFICES /\ s \in Elements(queue'[n]) \/ holder'[n] = s
               /\ Sent("RELEASE", s)' => Sent("RELEASE", s)
    BY <2>1, <2>2 DEF Sent
  <2>3. ASSUME NEW c \in Clients,
               \/ Acquire(c) \/ Retry(c) \/ LocalRegister(c) \/ LocalGranted(c)
               \/ LocalTimeout(c) \/ RemoteSendError(c) \/ RemoteGranted(c) \/ RemoteTimeout(c)
        PROVE  UNCHANGED <<queue, holder, msgs>>
    BY <2>3 DEF Acquire, Retry, LocalRegister, LocalGranted, LocalTimeout, RemoteSendError,
       RemoteGranted, RemoteTimeout, arbiterVars
  <2>4. ASSUME NEW c \in Clients, RemoteSend(c)
        PROVE  UNCHANGED <<queue, holder>> /\ (Sent("RELEASE", s)' => Sent("RELEASE", s))
    BY <2>4 DEF RemoteSend, arbiterVars, Sent, Msg
  <2>5. ASSUME NEW c \in Clients, ExitRemote(c)
        PROVE  UNCHANGED <<queue, holder>> /\ (Sent("RELEASE", s)' => Sent("RELEASE", s))
    <3>1. c # n /\ cur[c] # NoReq
      BY <2>1, <2>5, ClientsAssumption DEF ExitRemote, IInv, OwnRequests, InCS
    <3>2. cur[c] # s
      BY <2>2, <3>1, ClientsAssumption DEF IInv, OwnRequests
    <3> QED
      BY <2>5, <3>2 DEF ExitRemote, arbiterVars, Sent, Msg
  <2>6. ASSUME NEW c \in Clients, c # n, LocalFree(c) \/ LocalEnqueue(c)
        PROVE  queue'[n] = queue[n] /\ holder'[n] = holder[n] /\ msgs' = msgs
    BY <2>6, ClientsAssumption DEF LocalFree, LocalEnqueue, IInv, TypeOK
  <2>7. ~LocalFree(n) /\ ~ExitLocal(n)
    BY <2>1 DEF LocalFree, ExitLocal
  <2>8. ASSUME NEW c \in Clients, c # n, ExitLocal(c)
        PROVE  /\ s \in Elements(queue'[n]) \/ holder'[n] = s
               /\ Sent("RELEASE", s)' => Sent("RELEASE", s)
    <3>1. ReleaseAt(c, cur[c], msgs) /\ c \in Nodes
      BY <2>8, ClientsAssumption DEF ExitLocal
    <3> QED
      BY <2>2, <2>8, <3>1, ReleaseKnows, ReleaseSends
  <2>9. ASSUME NEW m \in Nodes, HandleLockRelease(m)
        PROVE  /\ s \in Elements(queue'[n]) \/ holder'[n] = s
               /\ Sent("RELEASE", s)' => Sent("RELEASE", s)
    <3>1. PICK q \in msgs : q.type = "RELEASE" /\ ReleaseAt(m, q.req, msgs \ {q})
      BY <2>9 DEF HandleLockRelease
    <3>2. q.req # s
      BY <2>2, <3>1 DEF Sent
    <3> QED
      BY <2>2, <3>1, <3>2, ReleaseKnows, ReleaseSends
  <2>10. ASSUME NEW m \in Nodes, HandleLockRequest(m)
         PROVE  /\ s \in Elements(queue'[n]) \/ holder'[n] = s
                /\ Sent("RELEASE", s)' => Sent("RELEASE", s)
    <3>1. PICK q \in msgs :
            \/ /\ holder[m] = NoReq /\ holder' = [holder EXCEPT ![m] = q.req]
               /\ msgs' = (msgs \ {q}) \cup {Msg("GRANT", Client(q.req), q.req)}
               /\ queue' = queue
            \/ /\ queue' = [queue EXCEPT ![m] = Append(@, q.req)]
               /\ msgs' = msgs \ {q}
               /\ holder' = holder
      BY <2>10 DEF HandleLockRequest
    <3>2. q.req \in Reqs /\ queue \in [Nodes -> Seq(Reqs)] /\ holder \in [Nodes -> Reqs \cup {NoReq}]
      BY DEF IInv, TypeOK, Messages
    <3>3. Sent("RELEASE", s)' => Sent("RELEASE", s)
      BY <3>1 DEF Sent, Msg
    <3>4. CASE /\ holder[m] = NoReq /\ holder' = [holder EXCEPT ![m] = q.req]
               /\ queue' = queue
      BY <2>2, <3>2, <3>3, <3>4
    <3>5. CASE /\ queue' = [queue EXCEPT ![m] = Append(@, q.req)]
               /\ holder' = holder
      <4>1. Elements(Append(queue[n], q.req)) = Elements(queue[n]) \cup {q.req}
        BY <3>2, AppendKeeps
      <4>2. queue'[n] = queue[n] \/ queue'[n] = Append(queue[n], q.req)
        BY <3>2, <3>5
      <4> QED
        BY <2>2, <3>3, <3>5, <4>1, <4>2
    <3> QED
      BY <3>1, <3>4, <3>5
  <2>11. ASSUME NEW m \in Nodes, NEW p \in Nodes,
                HandleLockGrant(m) \/ SetMasterID(m, p) \/ Lose \/ UNCHANGED vars
         PROVE  UNCHANGED <<queue, holder>> /\ msgs' \subseteq msgs
    BY <2>11 DEF HandleLockGrant, SetMasterID, Lose, vars, arbiterVars
  <2>12. ASSUME NEW m \in Nodes, Restart(m)
         PROVE  queue'[n] = queue[n] /\ holder'[n] = holder[n] /\ msgs' \subseteq msgs
    <3>1. m # n
      BY <2>12 DEF Restart, IInv, TypeOK
    <3> QED
      BY <2>12, <3>1 DEF Restart, IInv, TypeOK
  <2>13. ASSUME queue'[n] = queue[n], holder'[n] = holder[n], msgs' \subseteq msgs
         PROVE  /\ s \in Elements(queue'[n]) \/ holder'[n] = s
                /\ Sent("RELEASE", s)' => Sent("RELEASE", s)
    BY <2>2, <2>13 DEF Sent, Elements
  <2> QED
    <3>1. ASSUME NEW c \in Clients, ClientStep(c)
          PROVE  /\ s \in Elements(queue'[n]) \/ holder'[n] = s
                 /\ Sent("RELEASE", s)' => Sent("RELEASE", s)
      BY <1>1, <2>2, <2>3, <2>4, <2>5, <2>6, <2>7, <2>8, <2>13, <3>1 DEF ClientStep
    <3>2. ASSUME NEW m \in Nodes, Handle(m) \/ Restart(m)
          PROVE  /\ s \in Elements(queue'[n]) \/ holder'[n] = s
                 /\ Sent("RELEASE", s)' => Sent("RELEASE", s)
      BY <2>9, <2>10, <2>11, <2>12, <2>13, <3>2 DEF Handle
    <3>3. ASSUME NEW m \in Nodes, NEW p \in Nodes, SetMasterID(m, p) \/ Lose \/ UNCHANGED vars
          PROVE  /\ s \in Elements(queue'[n]) \/ holder'[n] = s
                 /\ Sent("RELEASE", s)' => Sent("RELEASE", s)
      BY <2>11, <2>13, <3>3
    <3> QED
      BY <3>1, <3>2, <3>3, MasterAssumption DEF Next
<1> QED
  BY <1>0, <1>1

\* A calm state is reached from a calm one, and by no loss and no restart.
LEMMA CalmBefore ==
    ASSUME IInv, budget["loss"] <= MaxFaults["loss"], [Next]_vars
    PROVE  /\ budget'["loss"] <= MaxFaults["loss"]
           /\ Calm' => /\ Calm /\ ~Lose
                       /\ \A n \in Nodes : ~Restart(n)
                       /\ \A n \in Clients : ~RemoteSendError(n)
<1> DEFINE F == {"timeout", "loss", "master"}
<1>0. /\ budget \in [F -> Nat] /\ MaxFaults["loss"] \in Nat /\ budget["loss"] \in Nat
      /\ boot \in [Nodes -> Nat]
  BY BoundsAssumption DEF IInv, TypeOK
<1>1. ASSUME Lose \/ \E n \in Clients : RemoteSendError(n)
      PROVE  budget'["loss"] = budget["loss"] - 1 /\ budget["loss"] > 0
  BY <1>0, <1>1 DEF Lose, RemoteSendError, Spend
<1>2. ASSUME NEW n \in Nodes, Restart(n) PROVE budget' = budget /\ ~Calm'
  <2>1. boot'[n] = boot[n] + 1
    BY <1>0, <1>2 DEF Restart
  <2> QED
    BY <1>0, <1>2, <2>1 DEF Restart, Calm
<1>3. ASSUME NEW n \in Clients,
             \/ Acquire(n) \/ Retry(n) \/ LocalFree(n) \/ LocalEnqueue(n) \/ LocalRegister(n)
             \/ LocalGranted(n) \/ LocalTimeout(n) \/ RemoteSend(n) \/ RemoteGranted(n)
             \/ RemoteTimeout(n) \/ ExitLocal(n) \/ ExitRemote(n)
      PROVE  budget'["loss"] = budget["loss"] /\ boot' = boot
  BY <1>0, <1>3 DEF Acquire, Retry, LocalFree, LocalEnqueue, LocalRegister, LocalGranted,
     LocalTimeout, RemoteSend, RemoteGranted, RemoteTimeout, ExitLocal, ExitRemote, Spend, envVars
<1>4. ASSUME NEW n \in Nodes, NEW m \in Nodes, Handle(n) \/ SetMasterID(n, m) \/ UNCHANGED vars
      PROVE  budget'["loss"] = budget["loss"] /\ boot' = boot
  BY <1>0, <1>4 DEF Handle, HandleLockRequest, HandleLockGrant, HandleLockRelease, SetMasterID,
     Spend, envVars, vars
<1>5. CASE Lose \/ \E n \in Clients : RemoteSendError(n)
  BY <1>0, <1>1, <1>5 DEF Calm
<1>6. CASE \E n \in Nodes : Restart(n)
  BY <1>2, <1>6
<1>7. CASE /\ ~Lose /\ \A n \in Clients : ~RemoteSendError(n)
           /\ \A n \in Nodes : ~Restart(n)
  <2>1. budget'["loss"] = budget["loss"] /\ boot' = boot
    BY <1>3, <1>4, <1>7, MasterAssumption DEF Next, ClientStep
  <2> QED
    BY <1>7, <2>1 DEF Calm
<1> QED
  BY <1>5, <1>6, <1>7

\* The request of whoever goes on waiting goes on being known to somebody.
LEMMA OnItsWayStep ==
    ASSUME IInv, QueueIsServed, Registered, [Next]_vars, NEW n \in Clients,
           pc[n] = "waitRemote", OnItsWay(cur[n]), ~LocalGranted(n), ~RemoteGranted(n),
           ~Lose, \A m \in Nodes : ~Restart(m), \A c \in Clients : ~RemoteSendError(c)
    PROVE  \A r \in Reqs : r = cur[n] => OnItsWay(r)'
<1> SUFFICES ASSUME NEW r \in Reqs, r = cur[n] PROVE OnItsWay(r)'
  OBVIOUS
<1> n \in Nodes
  BY ClientsAssumption
<1>0. Client(r) = n /\ r \in grants[n] \cup chan[n]
  BY NoReqAssumption DEF IInv, OwnRequests, Registered
<1>1. ASSUME UNCHANGED <<queue, chan>>, msgs \subseteq msgs' PROVE OnItsWay(r)'
  BY <1>1 DEF OnItsWay, Sent, Queued
<1>2. ASSUME NEW c \in Clients,
             \/ Acquire(c) \/ Retry(c) \/ LocalFree(c) \/ LocalRegister(c) \/ LocalTimeout(c)
             \/ RemoteSend(c) \/ RemoteTimeout(c) \/ ExitRemote(c)
      PROVE  UNCHANGED <<queue, chan>> /\ msgs \subseteq msgs'
  BY <1>2 DEF Acquire, Retry, LocalFree, LocalRegister, LocalTimeout, RemoteSend, RemoteTimeout,
              ExitRemote, chanVars, arbiterVars
<1>3. ASSUME NEW m \in Nodes, NEW p \in Nodes, SetMasterID(m, p) \/ UNCHANGED vars
      PROVE  UNCHANGED <<queue, chan>> /\ msgs \subseteq msgs'
  BY <1>3 DEF SetMasterID, vars, chanVars, arbiterVars
<1>4. ASSUME NEW c \in Clients, c # n, LocalGranted(c) \/ RemoteGranted(c) PROVE OnItsWay(r)'
  <2>1. chan'[n] = chan[n] /\ UNCHANGED <<msgs, queue>>
    BY <1>4, ClientsAssumption DEF LocalGranted, RemoteGranted, arbiterVars, IInv, TypeOK
  <2> QED
    BY <1>0, <2>1 DEF OnItsWay, Sent, Queued
<1>5. ASSUME NEW c \in Clients, LocalEnqueue(c) PROVE OnItsWay(r)'
  <2>1. /\ NewReq(c) \in Reqs /\ queue' = [queue EXCEPT ![c] = Append(@, NewReq(c))]
        /\ UNCHANGED <<msgs, chan>>
    BY <1>5 DEF LocalEnqueue, Draw, chanVars
  <2>2. Queued(r) => Queued(r)'
    BY <2>1, EnqueueKeeps, ClientsAssumption
  <2> QED
    BY <2>1, <2>2 DEF OnItsWay, Sent
<1>6. ASSUME NEW c \in Clients, ExitLocal(c) PROVE OnItsWay(r)'
  BY <1>6, ReleaseKeeps, ClientsAssumption DEF ExitLocal
<1>7. ASSUME NEW m \in Nodes, HandleLockRelease(m) PROVE OnItsWay(r)'
  <2>1. PICK q \in msgs : q.type = "RELEASE" /\ ReleaseAt(m, q.req, msgs \ {q})
    BY <1>7 DEF HandleLockRelease
  <2> QED
    BY <2>1, ReleaseKeeps
<1>8. ASSUME NEW m \in Nodes, HandleLockRequest(m) PROVE OnItsWay(r)'
  <2>1. PICK q \in msgs :
          /\ q.type = "REQUEST"
          /\ \/ /\ msgs' = (msgs \ {q}) \cup {Msg("GRANT", Client(q.req), q.req)}
                /\ UNCHANGED queue
             \/ /\ queue' = [queue EXCEPT ![m] = Append(@, q.req)]
                /\ msgs' = msgs \ {q}
          /\ chan' = chan
    BY <1>8 DEF HandleLockRequest, chanVars
  <2>2. q.req \in Reqs
    BY DEF IInv, TypeOK, Messages
  <2>3. CASE /\ msgs' = (msgs \ {q}) \cup {Msg("GRANT", Client(q.req), q.req)}
             /\ UNCHANGED queue
    <3>1. Msg("GRANT", Client(q.req), q.req) \in msgs'
      BY <2>3
    <3>2. r = q.req => Sent("GRANT", r)'
      BY <3>1 DEF Sent, Msg
    <3>3. r # q.req => \A t \in {"REQUEST", "GRANT"} : Sent(t, r) => Sent(t, r)'
      BY <2>3 DEF Sent
    <3> QED
      BY <2>1, <2>3, <3>2, <3>3 DEF OnItsWay, Queued
  <2>4. CASE /\ queue' = [queue EXCEPT ![m] = Append(@, q.req)]
             /\ msgs' = msgs \ {q}
    <3>1. Queued(r) \/ r = q.req => Queued(r)'
      BY <2>2, <2>4, EnqueueKeeps
    <3>2. r # q.req => \A t \in {"REQUEST", "GRANT"} : Sent(t, r) => Sent(t, r)'
      BY <2>4 DEF Sent
    <3> QED
      BY <2>1, <3>1, <3>2 DEF OnItsWay
  <2> QED
    BY <2>1, <2>3, <2>4
<1>9. ASSUME NEW m \in Nodes, HandleLockGrant(m) PROVE OnItsWay(r)'
  <2>1. PICK g \in msgs :
          /\ g.type = "GRANT" /\ g.to = m
          /\ \/ /\ g.req \in grants[m]
                /\ chan' = [chan EXCEPT ![m] = @ \cup {g.req}]
             \/ /\ g.req \notin grants[m]
                /\ UNCHANGED chan
          /\ msgs' = msgs \ {g} /\ queue' = queue
    BY <1>9 DEF HandleLockGrant, arbiterVars
  <2>2. chan[n] \subseteq chan'[n]
    BY <1>9, GrantKeeps
  <2>3. Sent("REQUEST", r) => Sent("REQUEST", r)'
    BY <2>1 DEF Sent
  <2>4. Sent("GRANT", r) => Sent("GRANT", r)' \/ r \in chan'[n]
    <3>1. CASE g.req # r
      BY <2>1, <3>1 DEF Sent
    <3>2. CASE g.req = r
      <4>1. m = n
        BY <1>0, <2>1, <3>2 DEF IInv, Addressed
      <4>2. r \notin chan[n]
        BY <1>0, <2>1, <3>2 DEF IInv, TokenOnce, Sent
      <4> QED
        BY <1>0, <2>1, <3>2, <4>1, <4>2 DEF IInv, TypeOK
    <3> QED
      BY <3>1, <3>2
  <2> QED
    BY <1>0, <2>1, <2>2, <2>3, <2>4 DEF OnItsWay, Queued
<1> QED
  BY <1>1, <1>2, <1>3, <1>4, <1>5, <1>6, <1>7, <1>8, <1>9, MasterAssumption
     DEF Next, ClientStep, Handle

LEMMA WInvStep == IInv /\ IInv' /\ WInv /\ [Next]_vars => WInv'
<1> SUFFICES ASSUME IInv, IInv', WInv, [Next]_vars PROVE WInv'
  OBVIOUS
<1>1. QueueIsServed' /\ Registered' /\ KnownNextDoor'
  BY QueueIsServedStep, RegisteredStep, KnownNextDoorStep DEF WInv
<1>2. budget'["loss"] <= MaxFaults["loss"]
  BY CalmBefore DEF WInv
<1>3. ASSUME Calm', NEW n \in Clients, pc'[n] = "waitRemote",
             NEW r, r = cur'[n]
      PROVE  OnItsWay(r)'
  <2> n \in Nodes
    BY ClientsAssumption
  <2>1. /\ Calm /\ ~Lose /\ \A m \in Nodes : ~Restart(m)
        /\ \A c \in Clients : ~RemoteSendError(c)
    BY <1>3, CalmBefore DEF WInv
  <2>2. CASE RemoteSend(n)
    <3>1. /\ Msg("REQUEST", masterID[n], NewReq(n)) \in msgs'
          /\ cur'[n] = NewReq(n)
      BY <2>2 DEF RemoteSend, IInv, TypeOK
    <3> QED
      BY <1>3, <3>1 DEF OnItsWay, Sent, Msg
  <2>3. CASE pc[n] = "waitRemote" /\ cur'[n] = cur[n] /\ ~LocalGranted(n) /\ ~RemoteGranted(n)
    <3>1. OnItsWay(cur[n])
      BY <2>1, <2>3 DEF WInv
    <3>2. r \in Reqs /\ r = cur[n]
      BY <1>3, <2>3, NoReqAssumption DEF IInv, OwnRequests, TypeOK
    <3> QED
      BY <2>1, <2>3, <3>1, <3>2, OnItsWayStep DEF WInv
  <2>4. ~LocalRegister(n)
    BY <1>3 DEF LocalRegister, IInv, TypeOK
  <2> QED
    BY <1>3, <2>2, <2>3, <2>4, WaitedBefore
<1>4. ASSUME Calm' PROVE \A n \in Clients : pc'[n] = "waitRemote" => OnItsWay(cur[n])'
  BY <1>3, <1>4 DEF OnItsWay, Sent, Queued, Client
<1> QED
  BY <1>1, <1>2, <1>4 DEF WInv

\* A client that waits is known to somebody, however many waits expire and
\* masters change: without it, only the timer would end its wait (acquireRemote,
\* mutex.go:180).  A local one may have been granted before it listened.
THEOREM NobodyIsForgotten == Spec => []WaiterIsServed
<1>1. IInv /\ WInv => WaiterIsServed
  <2> SUFFICES ASSUME IInv, WInv, Calm, NEW n \in Clients
               PROVE  /\ pc[n] = "waitRemote" => Served(cur[n])
                      /\ pc[n] = "waitLocal" => Served(cur[n]) \/ GrantedUnheard(cur[n])
    BY DEF WaiterIsServed
  <2> n \in Nodes
    BY ClientsAssumption
  <2>1. \A m \in Nodes, r \in Reqs : r \in Elements(queue[m]) => holder[m] # NoReq
    <3>1. \A m \in Nodes : queue[m] = <<>> => Elements(queue[m]) = {}
      BY DEF Elements
    <3> QED
      BY <3>1 DEF WInv, QueueIsServed
  <2>2. CASE pc[n] = "waitRemote"
    <3>1. OnItsWay(cur[n]) /\ cur[n] \in Reqs
      BY <2>2, NoReqAssumption DEF WInv, IInv, OwnRequests, TypeOK
    <3> QED
      BY <2>1, <2>2, <3>1 DEF OnItsWay, Served, Token, Queued
  <2>3. CASE pc[n] = "waitLocal"
    <3>1. cur[n] \in Reqs /\ Client(cur[n]) = n /\ cur[n] \in grants[n] \cup chan[n]
      BY <2>3, NoReqAssumption DEF WInv, Registered, IInv, OwnRequests, TypeOK
    <3>2. CASE cur[n] \in Elements(queue[n])
      BY <2>1, <2>3, <3>1, <3>2 DEF Served
    <3>3. CASE holder[n] = cur[n]
      BY <2>3, <3>1, <3>3 DEF Served, Token, GrantedUnheard
    <3> QED
      BY <2>3, <3>2, <3>3 DEF WInv, KnownNextDoor
  <2> QED
    BY <2>2, <2>3
<1>2. Init => WInv
  BY InitWInv
<1>3. IInv /\ IInv' /\ WInv /\ [Next]_vars => WInv'
  BY WInvStep
<1> QED
  BY <1>1, <1>2, <1>3, Invariance, PTL DEF Spec
=============================================================================
