------------------------------- MODULE Query -------------------------------
(***************************************************************************)
(* ListAll of internal/service/ticket_service.go: how one node gathers the *)
(* rows of a table from all the others.  A call registers a collector in   *)
(* queryWait, broadcasts QUERY, lowers what it expects by the sends that   *)
(* failed, and waits for done or queryTimeout, while HandleQueryResponse   *)
(* runs in goroutines of its own.  Calls of one node overlap: operators    *)
(* list tables while a redistribution or a RaiseTicket does.  The rows of  *)
(* a node are represented by the node.                                     *)
(***************************************************************************)
EXTENDS Naturals, FiniteSets

CONSTANTS
    Peers,     \* the other nodes
    Calls,     \* calls of ListAll on this node; a call is its own query id
    MaxFaults  \* bound: how often each kind of fault happens

Kinds == {"crash", "loss", "rows"}

ASSUME PeersAssumption == IsFiniteSet(Peers)
ASSUME BoundsAssumption == MaxFaults \in [Kinds -> Nat]

Messages == [type : {"QUERY", "RESPONSE"}, peer : Peers, call : Calls]

VARIABLES
    up,        \* the peers that run
    pc,        \* where each call stands
    todo,      \* the peers its broadcast has still to reach
    failed,    \* len(broadcastErrs)
    reached,   \* history: the peers that were sent the QUERY
    queryWait, \* the calls whose collector is registered
    expected,  \* queryCollector.expected
    results,   \* queryCollector.results: whose rows they are
    done,      \* the calls whose queryCollector.done is closed
    merged,    \* the remote rows that the call returned
    msgs,      \* messages in the network
    budget     \* what is left of MaxFaults

collectorVars == <<queryWait, expected, results, done>>
callVars == <<pc, todo, failed, reached, merged>>
vars == <<up, callVars, collectorVars, msgs, budget>>

PCs == {"idle", "send", "adjust", "local", "wait", "merge", "returned", "error"}

TypeOK ==
    /\ up \in SUBSET Peers
    /\ pc \in [Calls -> PCs]
    /\ todo \in [Calls -> SUBSET Peers]
    /\ failed \in [Calls -> Nat]
    /\ reached \in [Calls -> SUBSET Peers]
    /\ queryWait \in SUBSET Calls
    /\ expected \in [Calls -> Nat]
    /\ results \in [Calls -> SUBSET Peers]
    /\ done \in SUBSET Calls
    /\ merged \in [Calls -> SUBSET Peers]
    /\ msgs \in SUBSET Messages
    /\ budget \in [Kinds -> Nat]

\* Some peers may be down and not yet known to be.
Init ==
    /\ up \in SUBSET Peers
    /\ pc = [c \in Calls |-> "idle"]
    /\ todo = [c \in Calls |-> {}]
    /\ failed = [c \in Calls |-> 0]
    /\ reached = [c \in Calls |-> {}]
    /\ queryWait = {}
    /\ expected = [c \in Calls |-> 0]
    /\ results = [c \in Calls |-> {}]
    /\ done = {}
    /\ merged = [c \in Calls |-> {}]
    /\ msgs = {}
    /\ budget = MaxFaults

Spend(kind) ==
    /\ budget[kind] > 0
    /\ budget' = [budget EXCEPT ![kind] = @ - 1]

Go(c, from, to) == pc[c] = from /\ pc' = [pc EXCEPT ![c] = to]

Msg(type, p, c) == [type |-> type, peer |-> p, call |-> c]

-----------------------------------------------------------------------------
(* ListAll.                                                                *)

\* The peers are those the heartbeat takes to be alive at this moment.
ListAll(c) == \E peers \in SUBSET Peers :
    /\ Go(c, "idle", "send")
    /\ todo' = [todo EXCEPT ![c] = peers]
    /\ expected' = [expected EXCEPT ![c] = Cardinality(peers)]
    /\ queryWait' = queryWait \cup {c}
    /\ UNCHANGED <<up, failed, reached, merged, results, done, msgs, budget>>

SendQuery(c) == \E p \in todo[c] :
    /\ pc[c] = "send"
    /\ todo' = [todo EXCEPT ![c] = @ \ {p}]
    /\ IF p \in up
       THEN /\ reached' = [reached EXCEPT ![c] = @ \cup {p}]
            /\ msgs' = msgs \cup {Msg("QUERY", p, c)}
            /\ UNCHANGED failed
       ELSE /\ failed' = [failed EXCEPT ![c] = @ + 1]
            /\ UNCHANGED <<reached, msgs>>
    /\ UNCHANGED <<up, pc, merged, collectorVars, budget>>

Broadcasted(c) ==
    /\ todo[c] = {}
    /\ Go(c, "send", IF failed[c] > 0 THEN "adjust" ELSE "local")
    /\ UNCHANGED <<up, todo, failed, reached, merged, collectorVars, msgs, budget>>

\* "select { case <-col.done: default: close(col.done) }"
CloseDone(c) == done' = done \cup {c}

\* Mutant: expected is lowered and nobody looks whether that is enough.
AdjustOnly(c) ==
    /\ Go(c, "adjust", "local")
    /\ expected' = [expected EXCEPT ![c] = @ - failed[c]]
    /\ UNCHANGED <<up, todo, failed, reached, merged, queryWait, results, done, msgs, budget>>

\* The answers may all have come before the failures are known.
Adjust(c) ==
    /\ Go(c, "adjust", "local")
    /\ expected' = [expected EXCEPT ![c] = @ - failed[c]]
    /\ IF Cardinality(results[c]) >= expected[c] - failed[c]
       THEN CloseDone(c) ELSE UNCHANGED done
    /\ UNCHANGED <<up, todo, failed, reached, merged, queryWait, results, msgs, budget>>

\* Without peers there is nothing to wait for: then nothing was sent, nothing
\* has failed, and expected is still the number of peers.
localRows(c) ==
    /\ Go(c, "local", IF reached[c] = {} /\ failed[c] = 0 THEN "merge" ELSE "wait")
    /\ UNCHANGED <<up, todo, failed, reached, merged, collectorVars, msgs, budget>>

\* The deferred function takes the collector away in any case.
LocalRowsFail(c) ==
    /\ Go(c, "local", "error")
    /\ Spend("rows")
    /\ queryWait' = queryWait \ {c}
    /\ UNCHANGED <<up, todo, failed, reached, merged, expected, results, done, msgs>>

Done(c) ==
    /\ c \in done
    /\ Go(c, "wait", "merge")
    /\ UNCHANGED <<up, todo, failed, reached, merged, collectorVars, msgs, budget>>

\* Mutant: the wait has no time limit.
NoTimeout(c) == FALSE /\ UNCHANGED vars

QueryTimeout(c) ==
    /\ Go(c, "wait", "merge")
    /\ UNCHANGED <<up, todo, failed, reached, merged, collectorVars, msgs, budget>>

\* What has come by now is returned, after a timeout as well.
Merge(c) ==
    /\ Go(c, "merge", "returned")
    /\ merged' = [merged EXCEPT ![c] = results[c]]
    /\ queryWait' = queryWait \ {c}
    /\ UNCHANGED <<up, todo, failed, reached, expected, results, done, msgs, budget>>

-----------------------------------------------------------------------------
(* The handlers and the environment.                                       *)

HandleQuery(p) == \E q \in msgs :
    /\ q.type = "QUERY" /\ q.peer = p
    /\ msgs' = (msgs \ {q}) \cup {Msg("RESPONSE", p, q.call)}
    /\ UNCHANGED <<up, callVars, collectorVars, budget>>

\* Mutant: the collector counts one answer too few as enough.
CloseEarly(q) ==
    /\ q.type = "RESPONSE"
    /\ msgs' = msgs \ {q}
    /\ IF q.call \in queryWait
       THEN /\ results' = [results EXCEPT ![q.call] = @ \cup {q.peer}]
            /\ IF Cardinality(results[q.call]) + 2 >= expected[q.call]
               THEN CloseDone(q.call) ELSE UNCHANGED done
       ELSE UNCHANGED <<results, done>>
    /\ UNCHANGED <<up, callVars, queryWait, expected, budget>>

\* An answer to a call that is over is dropped.
HandleQueryResponse(q) ==
    /\ q.type = "RESPONSE"
    /\ msgs' = msgs \ {q}
    /\ IF q.call \in queryWait
       THEN /\ results' = [results EXCEPT ![q.call] = @ \cup {q.peer}]
            /\ IF Cardinality(results[q.call]) + 1 >= expected[q.call]
               THEN CloseDone(q.call) ELSE UNCHANGED done
       ELSE UNCHANGED <<results, done>>
    /\ UNCHANGED <<up, callVars, queryWait, expected, budget>>

Crash(p) ==
    /\ p \in up
    /\ Spend("crash")
    /\ up' = up \ {p}
    /\ msgs' = {q \in msgs : q.type = "RESPONSE" \/ q.peer # p}
    /\ UNCHANGED <<callVars, collectorVars>>

\* Also: the peer could not read its rows, and does not answer.
Lose == \E q \in msgs :
    /\ Spend("loss")
    /\ msgs' = msgs \ {q}
    /\ UNCHANGED <<up, callVars, collectorVars>>

\* The goroutine of a call, but for its timer.
Run(c) ==
    \/ ListAll(c) \/ SendQuery(c) \/ Broadcasted(c) \/ Adjust(c)
    \/ localRows(c) \/ Done(c) \/ Merge(c)

Next ==
    \/ \E c \in Calls : Run(c) \/ LocalRowsFail(c) \/ QueryTimeout(c)
    \/ \E p \in Peers : HandleQuery(p) \/ Crash(p)
    \/ \E q \in msgs : HandleQueryResponse(q)
    \/ Lose

Spec == Init /\ [][Next]_vars

(***************************************************************************)
(* Fairness: the goroutine of a call runs and its timer expires.  Nothing  *)
(* is assumed of the peers or the network.                                 *)
(***************************************************************************)
Fairness == \A c \in Calls : WF_vars(Run(c)) /\ WF_vars(QueryTimeout(c))

FairSpec == Spec /\ Fairness

-----------------------------------------------------------------------------
(* Properties.                                                             *)

\* done means done (ticket_service.go:68): when it is closed, nothing is left to
\* send and every peer that was sent the query has answered.
DoneIsComplete ==
    \A c \in Calls : c \in done => todo[c] = {} /\ reached[c] \subseteq results[c]

\* ticket_service.go:387: a call does not sit out the timeout for answers that
\* will never come; when all who were asked have answered, it is closed.
NoIdleWait ==
    \A c \in Calls : pc[c] = "wait" /\ reached[c] \subseteq results[c] => c \in done

\* Why: expected is what the collector can still get, in each stage of a call.
Expects(c) ==
    expected[c] = Cardinality(reached[c])
                  + (IF pc[c] \in {"send", "adjust"} THEN Cardinality(todo[c]) + failed[c]
                                                     ELSE 0)

\* A call that has not begun has no trace.
Untouched(c) ==
    pc[c] = "idle" =>
        /\ todo[c] = {} /\ reached[c] = {} /\ results[c] = {}
        /\ failed[c] = 0 /\ c \notin done

Sent(c) ==
    /\ todo[c] \cap reached[c] = {}
    /\ pc[c] # "send" => todo[c] = {}
    /\ results[c] \subseteq reached[c]

Registered(c) == pc[c] \in {"send", "adjust", "local", "wait", "merge"} => c \in queryWait

Complete(c) == c \in done => todo[c] = {} /\ reached[c] \subseteq results[c]

\* Everyone has been asked and has answered, and Adjust is not to come.
Gathered(c) ==
    /\ reached[c] \subseteq results[c]
    /\ \/ pc[c] = "send" /\ todo[c] = {} /\ failed[c] = 0 /\ reached[c] # {}
       \/ pc[c] \in {"local", "wait"} /\ (reached[c] # {} \/ failed[c] > 0)

Awake(c) ==
    /\ Gathered(c) => c \in done
    /\ pc[c] = "wait" => reached[c] # {} \/ failed[c] > 0

CallInv(c) == /\ Expects(c) /\ Untouched(c) /\ Sent(c) /\ Registered(c)
              /\ Complete(c) /\ Awake(c)

\* Each peer has one message of a call, which is not yet answered.
OneAnswer ==
    /\ \A q \in msgs : q.peer \in reached[q.call] \ results[q.call]
    /\ \A q, r \in msgs : q.peer = r.peer /\ q.call = r.call => q = r

\* The inductive invariant: it implies DoneIsComplete and NoIdleWait.
IInv == TypeOK /\ OneAnswer /\ \A c \in Calls : CallInv(c)

\* A call returns, with rows or an error, and its collector is gone.
CallsReturn ==
    \A c \in Calls : pc[c] = "send" ~> (pc[c] \in {"returned", "error"} /\ c \notin queryWait)
=============================================================================
