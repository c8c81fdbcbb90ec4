---------------------------- MODULE QueryProofs ----------------------------
(***************************************************************************)
(* The theorems about Query, for any finite set of peers, any set of calls *)
(* and any number of faults.                                               *)
(***************************************************************************)
EXTENDS Query, FiniteSetTheorems, TLAPS

LEMMA Finite ==
    ASSUME NEW S \in SUBSET Peers
    PROVE  IsFiniteSet(S) /\ Cardinality(S) \in Nat
BY PeersAssumption, FS_Subset, FS_CardinalityType

LEMMA Add ==
    ASSUME NEW S \in SUBSET Peers, NEW p \in Peers, p \notin S
    PROVE  Cardinality(S \cup {p}) = Cardinality(S) + 1
BY Finite, FS_AddElement

LEMMA Remove ==
    ASSUME NEW S \in SUBSET Peers, NEW p \in S
    PROVE  Cardinality(S \ {p}) = Cardinality(S) - 1
BY Finite, FS_RemoveElement

LEMMA Empty == ASSUME NEW S \in SUBSET Peers PROVE Cardinality(S) = 0 <=> S = {}
BY Finite, FS_EmptySet

\* A part of a set that is not smaller than the set is the set.
LEMMA Cover ==
    ASSUME NEW S \in SUBSET Peers, NEW R \in SUBSET S, Cardinality(R) >= Cardinality(S)
    PROVE  R = S
<1>1. Cardinality(R) <= Cardinality(S)
  BY Finite, FS_Subset
<1>2. Cardinality(R) = Cardinality(S)
  BY <1>1, Finite
<1> QED
  BY <1>2, Finite, FS_Subset

LEMMA SpendType ==
    ASSUME TypeOK, NEW kind \in Kinds, Spend(kind)
    PROVE  budget' \in [Kinds -> Nat]
BY DEF TypeOK, Spend

\* A step that leaves the state of a call alone leaves its invariant alone.
LEMMA Elsewhere ==
    ASSUME NEW d \in Calls, CallInv(d),
           pc'[d] = pc[d], todo'[d] = todo[d], failed'[d] = failed[d],
           reached'[d] = reached[d], expected'[d] = expected[d],
           results'[d] = results[d],
           (d \in done') <=> (d \in done), (d \in queryWait') <=> (d \in queryWait)
    PROVE  CallInv(d)'
<1>1. Expects(d)' BY DEF CallInv, Expects
<1>2. Untouched(d)' BY DEF CallInv, Untouched
<1>3. Sent(d)' BY DEF CallInv, Sent
<1>4. Registered(d)' BY DEF CallInv, Registered
<1>5. Complete(d)' BY DEF CallInv, Complete
<1>6. Awake(d)' BY DEF CallInv, Awake, Gathered
<1> QED
  BY <1>1, <1>2, <1>3, <1>4, <1>5, <1>6 DEF CallInv

LEMMA InitIInv == Init => IInv
<1> SUFFICES ASSUME Init PROVE IInv
  OBVIOUS
<1>1. TypeOK
  BY BoundsAssumption DEF Init, TypeOK, PCs
<1>2. OneAnswer
  BY DEF Init, OneAnswer
<1>3. ASSUME NEW c \in Calls PROVE CallInv(c)
  <2>1. Cardinality({}) = 0
    BY FS_EmptySet
  <2>2. Expects(c)
    BY <2>1 DEF Init, Expects
  <2> QED
    BY <2>2 DEF Init, CallInv, Untouched, Sent, Registered, Complete, Awake, Gathered
<1> QED
  BY <1>1, <1>2, <1>3 DEF IInv

-----------------------------------------------------------------------------
(* The steps of a call.                                                    *)

LEMMA ListAllIInv ==
    ASSUME IInv, NEW c \in Calls, ListAll(c)
    PROVE  IInv'
<1> USE DEF IInv
<1>1. PICK peers \in SUBSET Peers :
        /\ Go(c, "idle", "send")
        /\ todo' = [todo EXCEPT ![c] = peers]
        /\ expected' = [expected EXCEPT ![c] = Cardinality(peers)]
        /\ queryWait' = queryWait \cup {c}
        /\ UNCHANGED <<up, failed, reached, merged, results, done, msgs, budget>>
  BY DEF ListAll
<1>2. Cardinality(peers) \in Nat
  BY Finite
<1>3. TypeOK'
  BY <1>1, <1>2 DEF TypeOK, PCs, Go
<1>4. OneAnswer'
  BY <1>1 DEF OneAnswer
<1>5. ASSUME NEW d \in Calls, d # c PROVE CallInv(d)'
  BY <1>1, <1>5, Elsewhere DEF TypeOK, Go
<1>6. CallInv(c)'
  <2>1. /\ pc[c] = "idle" /\ pc'[c] = "send" /\ todo'[c] = peers
        /\ expected'[c] = Cardinality(peers) /\ c \in queryWait'
        /\ failed'[c] = 0 /\ reached'[c] = {} /\ results'[c] = {} /\ c \notin done'
    BY <1>1 DEF TypeOK, Go, CallInv, Untouched
  <2>2. Expects(c)'
    BY <2>1, <1>2, FS_EmptySet DEF Expects
  <2> QED
    BY <2>1, <2>2
       DEF CallInv, Untouched, Sent, Registered, Complete, Awake, Gathered
<1> QED
  BY <1>3, <1>4, <1>5, <1>6

LEMMA SendQueryIInv ==
    ASSUME IInv, NEW c \in Calls, SendQuery(c)
    PROVE  IInv'
<1> USE DEF IInv
<1>1. PICK p \in todo[c] :
        /\ pc[c] = "send"
        /\ todo' = [todo EXCEPT ![c] = @ \ {p}]
        /\ IF p \in up
           THEN /\ reached' = [reached EXCEPT ![c] = @ \cup {p}]
                /\ msgs' = msgs \cup {Msg("QUERY", p, c)}
                /\ UNCHANGED failed
           ELSE /\ failed' = [failed EXCEPT ![c] = @ + 1]
                /\ UNCHANGED <<reached, msgs>>
        /\ UNCHANGED <<up, pc, merged, collectorVars, budget>>
  BY DEF SendQuery
<1>2. /\ p \in Peers /\ p \notin reached[c] /\ p \notin results[c]
      /\ todo[c] \in SUBSET Peers /\ reached[c] \in SUBSET Peers
      /\ results[c] \subseteq reached[c]
  BY DEF TypeOK, CallInv, Sent
<1>3. c \notin done
  BY DEF CallInv, Complete
<1>4. Cardinality(todo[c] \ {p}) = Cardinality(todo[c]) - 1
  BY <1>2, Remove
<1>5. Cardinality(reached[c] \cup {p}) = Cardinality(reached[c]) + 1
  BY <1>2, Add
<1>6. /\ expected[c] = Cardinality(reached[c]) + (Cardinality(todo[c]) + failed[c])
      /\ failed[c] \in Nat
      /\ Cardinality(reached[c]) \in Nat /\ Cardinality(todo[c]) \in Nat
  BY <1>1, <1>2, Finite DEF CallInv, Expects, TypeOK
<1>7. TypeOK'
  <2>1. CASE p \in up
    BY <1>1, <1>2, <2>1 DEF TypeOK, collectorVars, Msg, Messages
  <2>2. CASE p \notin up
    BY <1>1, <1>2, <2>2 DEF TypeOK, collectorVars
  <2> QED
    BY <2>1, <2>2
<1>8. OneAnswer'
  <2>1. CASE p \in up
    <3>1. \A q \in msgs : ~(q.peer = p /\ q.call = c)
      BY <1>2 DEF OneAnswer
    <3>2. \A q \in msgs : q.peer \in reached'[q.call] \ results'[q.call]
      BY <1>1, <2>1 DEF OneAnswer, TypeOK, Messages, collectorVars
    <3>3. /\ Msg("QUERY", p, c).peer = p /\ Msg("QUERY", p, c).call = c
          /\ p \in reached'[c] \ results'[c]
      BY <1>1, <1>2, <2>1 DEF Msg, TypeOK, collectorVars
    <3> QED
      BY <1>1, <2>1, <3>1, <3>2, <3>3 DEF OneAnswer
  <2>2. CASE p \notin up
    BY <1>1, <2>2 DEF OneAnswer, collectorVars
  <2> QED
    BY <2>1, <2>2
<1>9. ASSUME NEW d \in Calls, d # c PROVE CallInv(d)'
  <2>1. todo'[d] = todo[d] /\ failed'[d] = failed[d] /\ reached'[d] = reached[d]
    BY <1>1, <1>9 DEF TypeOK
  <2> QED
    BY <1>1, <2>1, Elsewhere DEF collectorVars
<1>10. CallInv(c)'
  <2>1. /\ pc'[c] = "send" /\ todo'[c] = todo[c] \ {p} /\ results'[c] = results[c]
        /\ expected'[c] = expected[c] /\ c \notin done' /\ c \in queryWait'
        /\ p \notin results'[c]
    BY <1>1, <1>2, <1>3 DEF TypeOK, collectorVars, CallInv, Registered
  <2>2. CASE p \in up
    <3>1. reached'[c] = reached[c] \cup {p} /\ failed'[c] = failed[c]
      BY <1>1, <2>2 DEF TypeOK
    <3>2. Expects(c)'
      BY <1>4, <1>5, <1>6, <2>1, <3>1 DEF Expects
    <3>3. Sent(c)'
      BY <1>2, <2>1, <3>1 DEF CallInv, Sent
    <3> QED
      BY <2>1, <3>1, <3>2, <3>3
         DEF CallInv, Untouched, Registered, Complete, Awake, Gathered
  <2>3. CASE p \notin up
    <3>1. reached'[c] = reached[c] /\ failed'[c] = failed[c] + 1 /\ failed'[c] # 0
      BY <1>1, <1>6, <2>3 DEF TypeOK
    <3>2. Expects(c)'
      BY <1>4, <1>6, <2>1, <3>1 DEF Expects
    <3>3. Sent(c)'
      BY <1>2, <2>1, <3>1 DEF CallInv, Sent
    <3> QED
      BY <2>1, <3>1, <3>2, <3>3
         DEF CallInv, Untouched, Registered, Complete, Awake, Gathered
  <2> QED
    BY <2>2, <2>3
<1> QED
  BY <1>7, <1>8, <1>9, <1>10

LEMMA BroadcastedIInv ==
    ASSUME IInv, NEW c \in Calls, Broadcasted(c)
    PROVE  IInv'
<1> USE DEF IInv
<1>1. /\ todo[c] = {} /\ pc[c] = "send" /\ pc'[c] \in {"adjust", "local"}
      /\ (failed[c] > 0) <=> (pc'[c] = "adjust")
      /\ UNCHANGED <<up, todo, failed, reached, merged, collectorVars, msgs, budget>>
      /\ \A d \in Calls : d # c => pc'[d] = pc[d]
  BY DEF Broadcasted, Go, TypeOK
<1>2. TypeOK'
  BY <1>1 DEF TypeOK, PCs, collectorVars, Broadcasted, Go
<1>3. OneAnswer'
  BY <1>1 DEF OneAnswer, collectorVars
<1>4. ASSUME NEW d \in Calls, d # c PROVE CallInv(d)'
  BY <1>1, <1>4, Elsewhere DEF collectorVars
<1>5. failed[c] \in Nat /\ Cardinality(todo[c]) = 0 /\ Cardinality(reached[c]) \in Nat
  BY <1>1, FS_EmptySet, Finite DEF TypeOK
<1>6. Expects(c)'
  <2>1. expected[c] = Cardinality(reached[c]) + (Cardinality(todo[c]) + failed[c])
    BY <1>1 DEF CallInv, Expects
  <2>2. expected'[c] = expected[c] /\ reached' = reached /\ todo' = todo /\ failed' = failed
    BY <1>1 DEF collectorVars
  <2>3. CASE pc'[c] = "adjust"
    BY <2>1, <2>2, <2>3 DEF Expects
  <2>4. CASE pc'[c] = "local"
    <3>1. failed[c] = 0
      BY <1>1, <1>5, <2>4
    <3> QED
      BY <1>5, <2>1, <2>2, <2>4, <3>1 DEF Expects
  <2> QED
    BY <1>1, <2>3, <2>4
<1>7. Awake(c)'
  <2>1. CASE failed[c] > 0
    BY <1>1, <2>1 DEF Awake, Gathered
  <2>2. CASE failed[c] = 0
    BY <1>1, <2>2 DEF Awake, Gathered, CallInv, collectorVars
  <2> QED
    BY <1>5, <2>1, <2>2
<1>8. CallInv(c)'
  BY <1>1, <1>6, <1>7 DEF CallInv, Untouched, Sent, Registered, Complete, collectorVars
<1> QED
  BY <1>2, <1>3, <1>4, <1>8

LEMMA AdjustIInv ==
    ASSUME IInv, NEW c \in Calls, Adjust(c)
    PROVE  IInv'
<1> USE DEF IInv
<1>1. /\ pc[c] = "adjust" /\ pc'[c] = "local"
      /\ expected' = [expected EXCEPT ![c] = @ - failed[c]]
      /\ UNCHANGED <<up, todo, failed, reached, merged, queryWait, results, msgs, budget>>
      /\ \A d \in Calls : d # c => pc'[d] = pc[d]
  BY DEF Adjust, Go, TypeOK
<1>2. /\ todo[c] = {} /\ results[c] \subseteq reached[c]
      /\ results[c] \in SUBSET Peers /\ reached[c] \in SUBSET Peers
  BY <1>1 DEF CallInv, Sent, TypeOK
<1>3. /\ failed[c] \in Nat /\ expected[c] \in Nat
      /\ Cardinality(reached[c]) \in Nat /\ Cardinality(results[c]) \in Nat
      /\ expected[c] - failed[c] = Cardinality(reached[c])
  <2>1. Cardinality(todo[c]) = 0
    BY <1>2, FS_EmptySet
  <2>2. expected[c] = Cardinality(reached[c]) + (Cardinality(todo[c]) + failed[c])
    BY <1>1 DEF CallInv, Expects
  <2>3. failed[c] \in Nat /\ expected[c] \in Nat
    BY DEF TypeOK
  <2> QED
    BY <1>2, <2>1, <2>2, <2>3, Finite
<1>4. expected'[c] = Cardinality(reached[c])
  BY <1>1, <1>3 DEF TypeOK
<1>5. /\ results[c] = reached[c] => done' = done \cup {c}
      /\ results[c] # reached[c] => done' = done
  <2>1. Cardinality(results[c]) >= Cardinality(reached[c]) <=> results[c] = reached[c]
    BY <1>2, <1>3, Cover
  <2> QED
    BY <1>3, <2>1 DEF Adjust, CloseDone
<1>6. TypeOK'
  <2>1. done' \in SUBSET Calls
    BY <1>5 DEF TypeOK
  <2>2. expected' \in [Calls -> Nat]
    BY <1>1, <1>3 DEF TypeOK
  <2>3. pc' \in [Calls -> PCs]
    BY DEF Adjust, Go, TypeOK, PCs
  <2> QED
    BY <1>1, <2>1, <2>2, <2>3 DEF TypeOK
<1>7. OneAnswer'
  BY <1>1 DEF OneAnswer
<1>8. ASSUME NEW d \in Calls, d # c PROVE CallInv(d)'
  <2>1. expected'[d] = expected[d] /\ ((d \in done') <=> (d \in done))
    BY <1>1, <1>5, <1>8 DEF TypeOK
  <2> QED
    BY <1>1, <1>8, <2>1, Elsewhere
<1>9. CallInv(c)'
  <2>1. Expects(c)'
    BY <1>1, <1>3, <1>4 DEF Expects
  <2>2. Complete(c)'
    BY <1>1, <1>2, <1>5 DEF CallInv, Complete
  <2>3. Awake(c)'
    BY <1>1, <1>2, <1>5 DEF Awake, Gathered
  <2> QED
    BY <1>1, <1>2, <2>1, <2>2, <2>3 DEF CallInv, Untouched, Sent, Registered
<1> QED
  BY <1>6, <1>7, <1>8, <1>9

\* The steps that take a call on and change nothing but its pc.
LEMMA GoOnIInv ==
    ASSUME IInv, NEW c \in Calls,
           localRows(c) \/ Done(c) \/ QueryTimeout(c)
    PROVE  IInv'
<1> USE DEF IInv
<1>1. /\ UNCHANGED <<up, todo, failed, reached, merged, collectorVars, msgs, budget>>
      /\ \A d \in Calls : d # c => pc'[d] = pc[d]
      /\ \/ pc[c] = "local" /\ pc'[c] = "merge"
         \/ pc[c] = "local" /\ pc'[c] = "wait" /\ (reached[c] # {} \/ failed[c] # 0)
         \/ pc[c] = "wait" /\ pc'[c] = "merge"
      /\ pc' \in [Calls -> PCs]
  BY DEF localRows, Done, QueryTimeout, Go, TypeOK, PCs
<1>2. TypeOK'
  BY <1>1 DEF TypeOK, collectorVars
<1>3. OneAnswer'
  BY <1>1 DEF OneAnswer, collectorVars
<1>4. ASSUME NEW d \in Calls, d # c PROVE CallInv(d)'
  BY <1>1, <1>4, Elsewhere DEF collectorVars
<1>5. CallInv(c)'
  <2>1. Expects(c)'
    BY <1>1 DEF CallInv, Expects, collectorVars
  <2>2. failed[c] # 0 => failed[c] > 0
    BY DEF TypeOK
  <2>3. Awake(c)'
    BY <1>1, <2>2 DEF CallInv, Awake, Gathered, collectorVars
  <2> QED
    BY <1>1, <2>1, <2>3
       DEF CallInv, Untouched, Sent, Registered, Complete, collectorVars
<1> QED
  BY <1>2, <1>3, <1>4, <1>5

\* The steps that end a call.
LEMMA EndIInv ==
    ASSUME IInv, NEW c \in Calls, LocalRowsFail(c) \/ Merge(c)
    PROVE  IInv'
<1> USE DEF IInv
<1>1. /\ UNCHANGED <<up, todo, failed, reached, expected, results, done, msgs>>
      /\ queryWait' = queryWait \ {c}
      /\ \A d \in Calls : d # c => pc'[d] = pc[d]
      /\ pc[c] \in {"local", "merge"} /\ pc'[c] \in {"returned", "error"}
      /\ pc' \in [Calls -> PCs]
  BY DEF LocalRowsFail, Merge, Go, TypeOK, PCs
<1>2. merged' \in [Calls -> SUBSET Peers] /\ budget' \in [Kinds -> Nat]
  <2>1. CASE LocalRowsFail(c)
    BY <2>1, SpendType DEF LocalRowsFail, TypeOK, Kinds
  <2>2. CASE Merge(c)
    BY <2>2 DEF Merge, TypeOK
  <2> QED
    BY <2>1, <2>2
<1>3. TypeOK'
  BY <1>1, <1>2 DEF TypeOK
<1>4. OneAnswer'
  BY <1>1 DEF OneAnswer
<1>5. ASSUME NEW d \in Calls, d # c PROVE CallInv(d)'
  BY <1>1, <1>5, Elsewhere
<1>6. CallInv(c)'
  <2>1. Expects(c)'
    BY <1>1 DEF CallInv, Expects
  <2> QED
    BY <1>1, <2>1 DEF CallInv, Untouched, Sent, Registered, Complete, Awake, Gathered
<1> QED
  BY <1>3, <1>4, <1>5, <1>6

-----------------------------------------------------------------------------
(* The handlers and the environment.                                       *)

LEMMA HandleQueryIInv ==
    ASSUME IInv, NEW p \in Peers, HandleQuery(p)
    PROVE  IInv'
<1> USE DEF IInv
<1>1. PICK q \in msgs :
        /\ q.type = "QUERY" /\ q.peer = p
        /\ msgs' = (msgs \ {q}) \cup {Msg("RESPONSE", p, q.call)}
        /\ UNCHANGED <<up, callVars, collectorVars, budget>>
  BY DEF HandleQuery
<1>2. q \in Messages /\ Msg("RESPONSE", p, q.call) \in Messages
      /\ Msg("RESPONSE", p, q.call).peer = p /\ Msg("RESPONSE", p, q.call).call = q.call
  BY <1>1 DEF TypeOK, Messages, Msg
<1>3. TypeOK'
  BY <1>1, <1>2 DEF TypeOK, callVars, collectorVars
<1>4. OneAnswer'
  BY <1>1, <1>2 DEF OneAnswer, callVars, collectorVars
<1>5. ASSUME NEW d \in Calls PROVE CallInv(d)'
  BY <1>1, Elsewhere DEF callVars, collectorVars
<1> QED
  BY <1>3, <1>4, <1>5

LEMMA HandleQueryResponseIInv ==
    ASSUME IInv, NEW q \in msgs, HandleQueryResponse(q)
    PROVE  IInv'
<1> USE DEF IInv
<1> DEFINE c == q.call
           p == q.peer
<1>1. /\ c \in Calls /\ p \in Peers /\ p \in reached[c] /\ p \notin results[c]
      /\ results[c] \in SUBSET Peers /\ reached[c] \in SUBSET Peers
      /\ todo[c] \in SUBSET Peers /\ results[c] \subseteq reached[c]
  BY DEF TypeOK, Messages, OneAnswer, CallInv, Sent
<1>2. msgs' = msgs \ {q} /\ UNCHANGED <<up, callVars, queryWait, expected, budget>>
  BY DEF HandleQueryResponse
<1>3. CASE c \notin queryWait
  <2>1. UNCHANGED <<results, done>>
    BY <1>3 DEF HandleQueryResponse
  <2>2. TypeOK'
    BY <1>2, <2>1 DEF TypeOK, callVars
  <2>3. OneAnswer'
    BY <1>2, <2>1 DEF OneAnswer, callVars
  <2>4. ASSUME NEW d \in Calls PROVE CallInv(d)'
    BY <1>2, <2>1, Elsewhere DEF callVars
  <2> QED
    BY <2>2, <2>3, <2>4
<1>4. CASE c \in queryWait
  <2>1. results' = [results EXCEPT ![c] = @ \cup {p}]
    BY <1>4 DEF HandleQueryResponse
  <2>2. results'[c] = results[c] \cup {p} /\ results'[c] \in SUBSET reached[c]
    BY <1>1, <2>1 DEF TypeOK
  <2>3. /\ Cardinality(results'[c]) = Cardinality(results[c]) + 1
        /\ Cardinality(results[c]) \in Nat /\ Cardinality(reached[c]) \in Nat
        /\ Cardinality(todo[c]) \in Nat /\ failed[c] \in Nat /\ expected[c] \in Nat
    BY <1>1, <2>2, Add, Finite DEF TypeOK
  <2>4. c \notin done
    BY <1>1 DEF CallInv, Complete
  <2>5. IF Cardinality(results'[c]) >= expected[c]
        THEN done' = done \cup {c} ELSE done' = done
    BY <1>4, <2>3 DEF HandleQueryResponse, CloseDone
  <2>6. c \in done' <=> Cardinality(results'[c]) >= expected[c]
    BY <2>4, <2>5
  <2>7. expected[c] = Cardinality(reached[c])
          + (IF pc[c] \in {"send", "adjust"} THEN Cardinality(todo[c]) + failed[c] ELSE 0)
    BY <1>1 DEF CallInv, Expects
  <2>8. Cardinality(results'[c]) <= Cardinality(reached[c])
    BY <1>1, <2>2, Finite, FS_Subset
  \* The last answer is in exactly when everyone has been asked.
  <2>9. c \in done' => todo[c] = {} /\ results'[c] = reached[c]
    <3> SUFFICES ASSUME c \in done' PROVE todo[c] = {} /\ results'[c] = reached[c]
      OBVIOUS
    <3>1. Cardinality(results'[c]) >= Cardinality(reached[c])
      BY <2>3, <2>6, <2>7
    <3>2. results'[c] = reached[c]
      BY <1>1, <2>2, <3>1, Cover
    <3>3. CASE pc[c] \in {"send", "adjust"}
      <4>1. Cardinality(todo[c]) = 0
        BY <2>3, <2>6, <2>7, <2>8, <3>3
      <4> QED
        BY <1>1, <3>2, <4>1, Empty
    <3>4. CASE pc[c] \notin {"send", "adjust"}
      BY <1>1, <3>2, <3>4 DEF CallInv, Sent
    <3> QED
      BY <3>3, <3>4
  <2>10. results'[c] = reached[c] /\ (pc[c] \in {"send", "adjust"} => todo[c] = {} /\ failed[c] = 0)
            => c \in done'
    <3> SUFFICES ASSUME results'[c] = reached[c],
                        pc[c] \in {"send", "adjust"} => todo[c] = {} /\ failed[c] = 0
                 PROVE  Cardinality(results'[c]) >= expected[c]
      BY <2>6
    <3>1. todo[c] = {} => Cardinality(todo[c]) = 0
      BY FS_EmptySet
    <3> QED
      BY <2>3, <2>7, <3>1
  <2>11. TypeOK'
    <3>1. done' \in SUBSET Calls
      BY <1>1, <2>5 DEF TypeOK
    <3>2. results' \in [Calls -> SUBSET Peers]
      BY <1>1, <2>1 DEF TypeOK
    <3> QED
      BY <1>2, <3>1, <3>2 DEF TypeOK, callVars
  <2>12. OneAnswer'
    <3>1. \A r \in msgs \ {q} : ~(r.peer = p /\ r.call = c) /\ r.call \in Calls
      BY DEF OneAnswer, TypeOK, Messages
    <3>2. \A r \in msgs \ {q} : r.peer \notin results'[r.call]
      BY <1>1, <2>1, <3>1 DEF OneAnswer, TypeOK
    <3> QED
      BY <1>2, <3>2 DEF OneAnswer, callVars
  <2>13. ASSUME NEW d \in Calls, d # c PROVE CallInv(d)'
    <3>1. results'[d] = results[d] /\ ((d \in done') <=> (d \in done))
      BY <2>1, <2>5, <2>13 DEF TypeOK
    <3> QED
      BY <1>2, <3>1, Elsewhere DEF callVars
  <2>14. CallInv(c)'
    <3>1. /\ pc'[c] = pc[c] /\ todo'[c] = todo[c] /\ reached'[c] = reached[c]
          /\ failed'[c] = failed[c] /\ expected'[c] = expected[c] /\ queryWait' = queryWait
      BY <1>2 DEF callVars
    <3>2. Expects(c)'
      BY <2>7, <3>1 DEF Expects
    <3>3. pc[c] # "idle"
      BY <1>1 DEF CallInv, Untouched
    <3>4. Sent(c)'
      BY <1>1, <2>2, <3>1 DEF CallInv, Sent
    <3>5. Complete(c)'
      BY <2>9, <3>1 DEF Complete
    <3>6. Awake(c)'
      BY <1>1, <2>2, <2>10, <3>1 DEF CallInv, Awake, Gathered
    <3> QED
      BY <1>1, <3>1, <3>2, <3>3, <3>4, <3>5, <3>6 DEF CallInv, Untouched, Registered
  <2> QED
    BY <1>1, <2>11, <2>12, <2>13, <2>14
<1> QED
  BY <1>3, <1>4

\* Faults take messages and peers away.
LEMMA FaultIInv ==
    ASSUME IInv, Lose \/ \E p \in Peers : Crash(p)
    PROVE  IInv'
<1> USE DEF IInv
<1>1. /\ msgs' \subseteq msgs /\ up' \subseteq up
      /\ UNCHANGED <<callVars, collectorVars>>
  BY DEF Lose, Crash
<1>2. budget' \in [Kinds -> Nat]
  BY SpendType DEF Lose, Crash, Kinds
<1>3. TypeOK'
  BY <1>1, <1>2 DEF TypeOK, callVars, collectorVars
<1>4. OneAnswer'
  BY <1>1 DEF OneAnswer, callVars, collectorVars
<1>5. ASSUME NEW d \in Calls PROVE CallInv(d)'
  BY <1>1, Elsewhere DEF callVars, collectorVars
<1> QED
  BY <1>3, <1>4, <1>5

-----------------------------------------------------------------------------
(* The theorems.                                                           *)

LEMMA NextIInv == IInv /\ [Next]_vars => IInv'
<1> SUFFICES ASSUME IInv, [Next]_vars PROVE IInv'
  OBVIOUS
<1>1. ASSUME NEW c \in Calls, Run(c) PROVE IInv'
  BY <1>1, ListAllIInv, SendQueryIInv, BroadcastedIInv, AdjustIInv, GoOnIInv, EndIInv
     DEF Run
<1>2. ASSUME NEW c \in Calls, LocalRowsFail(c) \/ QueryTimeout(c) PROVE IInv'
  BY <1>2, GoOnIInv, EndIInv
<1>3. ASSUME NEW p \in Peers, HandleQuery(p) PROVE IInv'
  BY <1>3, HandleQueryIInv
<1>4. ASSUME NEW q \in msgs, HandleQueryResponse(q) PROVE IInv'
  BY <1>4, HandleQueryResponseIInv
<1>5. CASE Lose \/ \E p \in Peers : Crash(p)
  BY <1>5, FaultIInv
<1>6. CASE UNCHANGED vars
  <2>1. TypeOK'
    BY <1>6 DEF vars, callVars, collectorVars, IInv, TypeOK
  <2>2. OneAnswer'
    BY <1>6 DEF vars, callVars, collectorVars, IInv, OneAnswer
  <2>3. ASSUME NEW d \in Calls PROVE CallInv(d)'
    BY <1>6, Elsewhere DEF vars, callVars, collectorVars, IInv
  <2> QED
    BY <2>1, <2>2, <2>3 DEF IInv
<1> QED
  BY <1>1, <1>2, <1>3, <1>4, <1>5, <1>6 DEF Next

\* The invariant that explains the counting of answers holds of every behaviour
\* of ListAll, its handlers and the faults they meet.
THEOREM Invariance == Spec => []IInv
<1>1. Init => IInv
  BY InitIInv
<1>2. IInv /\ [Next]_vars => IInv'
  BY NextIInv
<1> QED
  BY <1>1, <1>2, PTL DEF Spec

\* The variables of ListAll stay within their types; in particular, expected
\* never falls below zero.
THEOREM TypeCorrectness == Spec => []TypeOK
<1>1. IInv => TypeOK
  BY DEF IInv
<1> QED
  BY <1>1, Invariance, PTL

\* done is closed only when every peer that was sent the query has answered
\* (ticket_service.go:68).
THEOREM DoneMeansDone == Spec => []DoneIsComplete
<1>1. IInv => DoneIsComplete
  BY DEF IInv, CallInv, Complete, DoneIsComplete
<1> QED
  BY <1>1, Invariance, PTL

\* A call that waits although everyone it asked has answered finds done closed:
\* it never sits out queryTimeout for peers that could not be asked
\* (ticket_service.go:389).
THEOREM NobodyWaitsInVain == Spec => []NoIdleWait
<1>1. IInv => NoIdleWait
  BY DEF IInv, CallInv, Awake, Gathered, NoIdleWait
<1> QED
  BY <1>1, Invariance, PTL
=============================================================================
